--------------------------- MODULE CommandProofs ---------------------------
(***************************************************************************)
(* Every text the builder and the Command write is read by the shell as    *)
(* the calls meant it, for every value of the constants of Command: any    *)
(* arguments, keys, redirections and raw texts of the kinds its            *)
(* assumptions name, any bound and any depth of substitution.              *)
(*                                                                         *)
(* Reading a text is a fold over its bytes.  Here it is a relation,        *)
(* Reads(r, text, q), that composes over Cat; on top of it                 *)
(*   Carries    one place, one text: what is read there is the meaning,    *)
(*   StandsFor  the same between the quotes of any word, at any depth,     *)
(*   Faithful   an argument: both of its escaped forms stand for it,       *)
(*   IsPart     a part of a command: read so wherever an item may begin,   *)
(* and the inductive invariant IInv says of the three texts of a state     *)
(* (the command, the expansion held, the builder of a substitution) that   *)
(* they are of these kinds.                                                *)
(*                                                                         *)
(* The second half is about the grammar.  Judging what is read is a fold   *)
(* too, and again a relation, Judged(r, meaning, q); on top of it          *)
(*   Leads(x, meaning, y)   where a list stands as the builder's type x    *)
(*              says, at any depth, it stands after it as y says,          *)
(*   Silent     what an argument means: every list stays as it is,         *)
(* and the inductive invariant Grammar says that the whole text stands     *)
(* where the type of the builder says, and so does the expansion.          *)
(***************************************************************************)
EXTENDS Command, SequenceTheorems, WellFoundedInduction, TLAPS
-----------------------------------------------------------------------------
(***************************************************************************)
(* What each mode of the shell makes of the next byte.                     *)
(***************************************************************************)
LEMMA ReadIs ==
    ASSUME NEW r, NEW c
    PROVE  /\ Mode(r) = "gap" => Read(r, c) = InGap(r, c)
           /\ Mode(r) = "word" => Read(r, c) = AfterWord(r, c)
           /\ Mode(r) = "digits" => Read(r, c) = InDigits(r, c)
           /\ Mode(r) = "name" => Read(r, c) = InName(r, c)
           /\ Mode(r) = "single" => Read(r, c) = InSingle(r, c)
           /\ Mode(r) = "double" => Read(r, c) = InDouble(r, c)
           /\ Mode(r) = "escape" => Read(r, c) = Leave(Get(r, <<c>>))
           /\ Mode(r) = "escape_in_double" => Read(r, c) = EscapeInDouble(r, c)
           /\ Mode(r) = "dollar" => Read(r, c) = AfterDollar(r, c)
           /\ Mode(r) = "dollar_in_double" => Read(r, c) = DollarInDouble(r, c)
           /\ Mode(r) = "param" => Read(r, c) = InParam(r, c)
           /\ Mode(r) = "ansi" => Read(r, c) = InAnsi(r, c)
           /\ Mode(r) = "ansi_escape" => Read(r, c) = InAnsiEscape(r, c)
           /\ Mode(r) = "hex" => Read(r, c) = InHex(r, c)
           /\ Mode(r) = "and" => Read(r, c) = AfterAmp(r, c)
           /\ Mode(r) = "or" => Read(r, c) = AfterBar(r, c)
           /\ Mode(r) = "less" => Read(r, c) = AfterLess(r, c)
           /\ Mode(r) = "greater" => Read(r, c) = AfterGreater(r, c)
           /\ Mode(r) = "target" => Read(r, c) = InTarget(r, c)
           /\ Mode(r) = "dup" => Read(r, c) = InDup(r, c)
<1>1. ASSUME Mode(r) = "gap" PROVE Read(r, c) = InGap(r, c)
  BY <1>1 DEF Read
<1>2. ASSUME Mode(r) = "word" PROVE Read(r, c) = AfterWord(r, c)
  BY <1>2 DEF Read
<1>3. ASSUME Mode(r) = "digits" PROVE Read(r, c) = InDigits(r, c)
  BY <1>3 DEF Read
<1>4. ASSUME Mode(r) = "name" PROVE Read(r, c) = InName(r, c)
  BY <1>4 DEF Read
<1>5. ASSUME Mode(r) = "single" PROVE Read(r, c) = InSingle(r, c)
  BY <1>5 DEF Read
<1>6. ASSUME Mode(r) = "double" PROVE Read(r, c) = InDouble(r, c)
  BY <1>6 DEF Read
<1>7. ASSUME Mode(r) = "escape" PROVE Read(r, c) = Leave(Get(r, <<c>>))
  BY <1>7 DEF Read
<1>8. ASSUME Mode(r) = "escape_in_double" PROVE Read(r, c) = EscapeInDouble(r, c)
  BY <1>8 DEF Read
<1>9. ASSUME Mode(r) = "dollar" PROVE Read(r, c) = AfterDollar(r, c)
  BY <1>9 DEF Read
<1>10. ASSUME Mode(r) = "dollar_in_double" PROVE Read(r, c) = DollarInDouble(r, c)
  BY <1>10 DEF Read
<1>11. ASSUME Mode(r) = "param" PROVE Read(r, c) = InParam(r, c)
  BY <1>11 DEF Read
<1>12. ASSUME Mode(r) = "ansi" PROVE Read(r, c) = InAnsi(r, c)
  BY <1>12 DEF Read
<1>13. ASSUME Mode(r) = "ansi_escape" PROVE Read(r, c) = InAnsiEscape(r, c)
  BY <1>13 DEF Read
<1>14. ASSUME Mode(r) = "hex" PROVE Read(r, c) = InHex(r, c)
  BY <1>14 DEF Read
<1>15. ASSUME Mode(r) = "and" PROVE Read(r, c) = AfterAmp(r, c)
  BY <1>15 DEF Read
<1>16. ASSUME Mode(r) = "or" PROVE Read(r, c) = AfterBar(r, c)
  BY <1>16 DEF Read
<1>17. ASSUME Mode(r) = "less" PROVE Read(r, c) = AfterLess(r, c)
  BY <1>17 DEF Read
<1>18. ASSUME Mode(r) = "greater" PROVE Read(r, c) = AfterGreater(r, c)
  BY <1>18 DEF Read
<1>19. ASSUME Mode(r) = "target" PROVE Read(r, c) = InTarget(r, c)
  BY <1>19 DEF Read
<1>20. ASSUME Mode(r) = "dup" PROVE Read(r, c) = InDup(r, c)
  BY <1>20 DEF Read
<1>21. QED
  BY <1>1, <1>2, <1>3, <1>4, <1>5, <1>6, <1>7, <1>8, <1>9, <1>10,
     <1>11, <1>12, <1>13, <1>14, <1>15, <1>16, <1>17, <1>18, <1>19, <1>20

Quotes == {SQ, DQ}

\* The construction a quote begins.
Inside(q) == IF q = SQ THEN "single" ELSE "double"

\* What a character between two items begins, or ends.
LEMMA GapSteps ==
    ASSUME NEW r, NEW c
    PROVE  /\ c = SPACE => InGap(r, c) = r
           /\ c \in Digit => InGap(r, c) = Hold(Turn(r, "digits"), <<c>>)
           /\ c \in NameStart => InGap(r, c) = Hold(Turn(r, "name"), <<c>>)
           /\ c = LESS => InGap(r, c) = Turn(Get(r, <<REDIR, 48>>), "less")
           /\ c = GREATER => InGap(r, c) = Turn(Get(r, <<REDIR, 49>>), "greater")
           /\ c = AMP => InGap(r, c) = Turn(r, "and")
           /\ c = BAR => InGap(r, c) = Turn(r, "or")
           /\ c = SEMI => InGap(r, c) = Get(r, <<THEN_RUN>>)
           /\ c = RPAR /\ Len(r.modes) > 1 => InGap(r, c) = Leave(Get(r, <<END_SUBST>>))
           /\ c \in Quotes => InGap(r, c) = InWord(Turn(Get(r, <<WORD>>), "word"), c)
<1>1. ASSUME c = SPACE PROVE InGap(r, c) = r
  <2>1. /\ c # LESS /\ c # GREATER /\ c # AMP /\ c # BAR
        /\ c # SEMI /\ c # RPAR /\ c \notin Digit /\ c \notin NameStart
    BY <1>1 DEF SPACE, LESS, GREATER, AMP, BAR, SEMI, RPAR, Digit, NameStart, Letter,
              UNDERSCORE
  <2>2. QED
    BY <1>1, <2>1 DEF InGap
<1>2. ASSUME c \in Digit PROVE InGap(r, c) = Hold(Turn(r, "digits"), <<c>>)
  <2>1. /\ c # SPACE /\ c # LESS /\ c # GREATER /\ c # AMP
        /\ c # BAR /\ c # SEMI /\ c # RPAR /\ c \notin NameStart
    BY <1>2 DEF SPACE, LESS, GREATER, AMP, BAR, SEMI, RPAR, Digit, NameStart, Letter,
              UNDERSCORE
  <2>2. QED
    BY <1>2, <2>1 DEF InGap
<1>3. ASSUME c \in NameStart PROVE InGap(r, c) = Hold(Turn(r, "name"), <<c>>)
  <2>1. /\ c # SPACE /\ c # LESS /\ c # GREATER /\ c # AMP
        /\ c # BAR /\ c # SEMI /\ c # RPAR /\ c \notin Digit
    BY <1>3 DEF SPACE, LESS, GREATER, AMP, BAR, SEMI, RPAR, Digit, NameStart, Letter,
              UNDERSCORE
  <2>2. QED
    BY <1>3, <2>1 DEF InGap
<1>4. ASSUME c = LESS PROVE InGap(r, c) = Turn(Get(r, <<REDIR, 48>>), "less")
  <2>1. /\ c # SPACE /\ c # GREATER /\ c # AMP /\ c # BAR
        /\ c # SEMI /\ c # RPAR /\ c \notin Digit /\ c \notin NameStart
    BY <1>4 DEF SPACE, LESS, GREATER, AMP, BAR, SEMI, RPAR, Digit, NameStart, Letter,
              UNDERSCORE
  <2>2. QED
    BY <1>4, <2>1 DEF InGap
<1>5. ASSUME c = GREATER PROVE InGap(r, c) = Turn(Get(r, <<REDIR, 49>>), "greater")
  <2>1. /\ c # SPACE /\ c # LESS /\ c # AMP /\ c # BAR
        /\ c # SEMI /\ c # RPAR /\ c \notin Digit /\ c \notin NameStart
    BY <1>5 DEF SPACE, LESS, GREATER, AMP, BAR, SEMI, RPAR, Digit, NameStart, Letter,
              UNDERSCORE
  <2>2. QED
    BY <1>5, <2>1 DEF InGap
<1>6. ASSUME c = AMP PROVE InGap(r, c) = Turn(r, "and")
  <2>1. /\ c # SPACE /\ c # LESS /\ c # GREATER /\ c # BAR
        /\ c # SEMI /\ c # RPAR /\ c \notin Digit /\ c \notin NameStart
    BY <1>6 DEF SPACE, LESS, GREATER, AMP, BAR, SEMI, RPAR, Digit, NameStart, Letter,
              UNDERSCORE
  <2>2. QED
    BY <1>6, <2>1 DEF InGap
<1>7. ASSUME c = BAR PROVE InGap(r, c) = Turn(r, "or")
  <2>1. /\ c # SPACE /\ c # LESS /\ c # GREATER /\ c # AMP
        /\ c # SEMI /\ c # RPAR /\ c \notin Digit /\ c \notin NameStart
    BY <1>7 DEF SPACE, LESS, GREATER, AMP, BAR, SEMI, RPAR, Digit, NameStart, Letter,
              UNDERSCORE
  <2>2. QED
    BY <1>7, <2>1 DEF InGap
<1>8. ASSUME c = SEMI PROVE InGap(r, c) = Get(r, <<THEN_RUN>>)
  <2>1. /\ c # SPACE /\ c # LESS /\ c # GREATER /\ c # AMP
        /\ c # BAR /\ c # RPAR /\ c \notin Digit /\ c \notin NameStart
    BY <1>8 DEF SPACE, LESS, GREATER, AMP, BAR, SEMI, RPAR, Digit, NameStart, Letter,
              UNDERSCORE
  <2>2. QED
    BY <1>8, <2>1 DEF InGap
<1>9. ASSUME c = RPAR /\ Len(r.modes) > 1 PROVE InGap(r, c) = Leave(Get(r, <<END_SUBST>>))
  <2>1. /\ c # SPACE /\ c # LESS /\ c # GREATER /\ c # AMP
        /\ c # BAR /\ c # SEMI /\ c \notin Digit /\ c \notin NameStart
    BY <1>9 DEF SPACE, LESS, GREATER, AMP, BAR, SEMI, RPAR, Digit, NameStart, Letter,
              UNDERSCORE
  <2>2. QED
    BY <1>9, <2>1 DEF InGap
<1>10. ASSUME c \in Quotes PROVE InGap(r, c) = InWord(Turn(Get(r, <<WORD>>), "word"), c)
  <2>1. /\ c # SPACE /\ c # LESS /\ c # GREATER /\ c # AMP
        /\ c # BAR /\ c # SEMI /\ c # RPAR /\ c \notin Digit /\ c \notin NameStart
    BY <1>10 DEF SPACE, LESS, GREATER, AMP, BAR, SEMI, RPAR, Digit, NameStart, Letter,
              UNDERSCORE, Quotes, SQ, DQ
  <2>2. QED
    BY <1>10, <2>1 DEF InGap
<1>11. QED
  BY <1>1, <1>2, <1>3, <1>4, <1>5, <1>6, <1>7, <1>8, <1>9, <1>10

-----------------------------------------------------------------------------
(***************************************************************************)
(* Induction and recursion over an interval, without an operator as a      *)
(* parameter: a claim is a set of places, a step a function of a function. *)
(***************************************************************************)
LEMMA Least ==
    ASSUME NEW T, T \subseteq Nat, T # {}
    PROVE  \E x \in T : \A y \in T : ~(y < x)
<1> DEFINE R == {ss \in Nat \X Nat : ss[1] < ss[2]}
<1>1. R = OpToRel(<, Nat)
  BY DEF OpToRel
<1>2. IsWellFoundedOn(R, Nat)
  BY <1>1, NatLessThanWellFounded
<1> HIDE DEF R
<1>3. \E x \in T : \A y \in T : ~(<<y, x>> \in R)
  BY <1>2, WFMin
<1>4. QED
  BY <1>3 DEF R

LEMMA EveryPlace ==
    ASSUME NEW n \in Nat, NEW G, 0 \in G, \A i \in 1..n : i - 1 \in G => i \in G
    PROVE  \A i \in 0..n : i \in G
<1> DEFINE Rest == {i \in 0..n : i \notin G}
<1>1. SUFFICES ASSUME Rest # {} PROVE FALSE
  OBVIOUS
<1>2. Rest \subseteq Nat
  OBVIOUS
<1> HIDE DEF Rest
<1>3. PICK k \in Rest : \A i \in Rest : ~(i < k)
  BY <1>1, <1>2, Least
<1>4. k \in 1..n /\ k \notin G
  BY <1>3 DEF Rest
<1>5. k - 1 \in G
  <2>1. k - 1 \notin Rest
    BY <1>3, <1>4
  <2>2. QED
    BY <1>4, <2>1 DEF Rest
<1>6. QED
  BY <1>4, <1>5

\* f gives the values of a recursion up to place k.
Follows(f, base, step, k, V) ==
    /\ f \in [0..k -> V]
    /\ f[0] = base
    /\ \A i \in 1..k : f[i] = step[i][f[i - 1]]

LEMMA Recursion ==
    ASSUME NEW V, NEW n \in Nat, NEW base \in V, NEW step \in [1..n -> [V -> V]]
    PROVE  \E f : Follows(f, base, step, n, V)
<1> DEFINE G == {k \in 0..n : \E f : Follows(f, base, step, k, V)}
<1>1. 0 \in G
  <2> DEFINE f == [i \in 0..0 |-> base]
  <2>1. f \in [0..0 -> V] /\ f[0] = base /\ 1..0 = {}
    OBVIOUS
  <2> HIDE DEF f
  <2>2. Follows(f, base, step, 0, V)
    BY <2>1 DEF Follows
  <2>3. QED
    BY <2>2
<1>2. ASSUME NEW k \in 1..n, k - 1 \in G PROVE k \in G
  <2>1. PICK g : Follows(g, base, step, k - 1, V)
    BY <1>2
  <2>2. /\ g \in [0..(k - 1) -> V] /\ g[0] = base
        /\ \A i \in 1..(k - 1) : g[i] = step[i][g[i - 1]]
    BY <2>1 DEF Follows
  <2>3. k \in Nat /\ k - 1 \in 0..(k - 1) /\ 0 # k /\ 0 \in 0..k
    OBVIOUS
  <2> DEFINE next == step[k][g[k - 1]]
             f == [i \in 0..k |-> IF i = k THEN next ELSE g[i]]
  <2>4. next \in V
    BY <2>2, <2>3
  <2>5. step[k][g[k - 1]] = next
    OBVIOUS
  <2> HIDE DEF next
  <2>6. f \in [0..k -> V]
    <3>1. \A i \in 0..k : i # k => i \in 0..(k - 1)
      BY <2>3
    <3>2. QED
      BY <2>2, <2>4, <3>1
  <2>7. f[0] = base /\ f[k] = next /\ \A i \in 0..(k - 1) : f[i] = g[i]
    BY <2>2, <2>3
  <2> HIDE DEF f
  <2>8. ASSUME NEW i \in 1..k PROVE f[i] = step[i][f[i - 1]]
    <3>1. CASE i = k
      <4>1. f[i - 1] = g[k - 1]
        BY <2>3, <2>7, <3>1
      <4>2. QED
        BY <2>5, <2>7, <3>1, <4>1
    <3>2. CASE i # k
      <4>1. i \in 1..(k - 1) /\ i \in 0..(k - 1) /\ i - 1 \in 0..(k - 1)
        BY <2>3, <3>2
      <4>2. QED
        BY <2>2, <2>7, <4>1
    <3>3. QED
      BY <3>1, <3>2
  <2>9. Follows(f, base, step, k, V)
    BY <2>6, <2>7, <2>8 DEF Follows
  <2>10. QED
    BY <2>3, <2>9
<1> HIDE DEF G
<1>3. n \in G
  <2>1. \A k \in 1..n : k - 1 \in G => k \in G
    BY <1>2
  <2>2. \A k \in 0..n : k \in G
    BY <1>1, <2>1, EveryPlace
  <2>3. QED
    BY <2>2
<1>4. QED
  BY <1>3 DEF G

-----------------------------------------------------------------------------
(***************************************************************************)
(* Sequences.  Concatenation has a name of its own: the provers expand \o  *)
(* wherever they see it, and lose the terms the laws below are about.      *)
(***************************************************************************)
Cat(s, t) == s \o t

LEMMA CatSeq ==
    ASSUME NEW S, NEW s \in Seq(S), NEW t \in Seq(S)
    PROVE  Cat(s, t) \in Seq(S)
BY DEF Cat

LEMMA CatLen ==
    ASSUME NEW S, NEW s \in Seq(S), NEW t \in Seq(S)
    PROVE  Len(Cat(s, t)) = Len(s) + Len(t)
BY DEF Cat

LEMMA CatCat ==
    ASSUME NEW S, NEW p \in Seq(S), NEW q \in Seq(S), NEW r \in Seq(S)
    PROVE  Cat(Cat(p, q), r) = Cat(p, Cat(q, r))
BY DEF Cat

LEMMA CatNothing ==
    ASSUME NEW S, NEW s \in Seq(S)
    PROVE  Cat(s, <<>>) = s /\ Cat(<<>>, s) = s
BY DEF Cat

\* f joins the sequences one after the other, up to place k.
Joins(f, seqs, k, S) ==
    /\ f \in [0..k -> Seq(S)]
    /\ f[0] = <<>>
    /\ \A i \in 1..k : f[i] = Cat(f[i - 1], seqs[i])

\* The equation of the function inside FlattenSeq.
IsFlatten(f, seqs) ==
    f = [i \in 1..Len(seqs) |-> IF i = 1 THEN seqs[i] ELSE f[i - 1] \o seqs[i]]

LEMMA FlattenIs ==
    ASSUME NEW seqs
    PROVE  FlattenSeq(seqs) = IF Len(seqs) = 0 THEN seqs
                              ELSE (CHOOSE f : IsFlatten(f, seqs))[Len(seqs)]
BY DEF FlattenSeq, IsFlatten

LEMMA JoinsExists ==
    ASSUME NEW S, NEW seqs \in Seq(Seq(S))
    PROVE  \E f : Joins(f, seqs, Len(seqs), S)
<1> DEFINE V == Seq(S)
           n == Len(seqs)
           base == <<>>
           step == [i \in 1..n |-> [v \in V |-> Cat(v, seqs[i])]]
<1>1. n \in Nat /\ base \in V /\ \A i \in 1..n : seqs[i] \in V
  OBVIOUS
<1> HIDE DEF V, n, base
<1>2. \A i \in 1..n : \A v \in V : Cat(v, seqs[i]) \in V
  BY <1>1, CatSeq DEF V
<1>3. step \in [1..n -> [V -> V]]
  BY <1>2
<1>4. \A i \in 1..n : \A v \in V : step[i][v] = Cat(v, seqs[i])
  OBVIOUS
<1> HIDE DEF step
<1>5. PICK f : Follows(f, base, step, n, V)
  BY <1>1, <1>3, Recursion
<1>6. /\ f \in [0..n -> V] /\ f[0] = base
      /\ \A i \in 1..n : f[i] = step[i][f[i - 1]]
  BY <1>5 DEF Follows
<1>7. \A i \in 1..n : i - 1 \in 0..n
  BY <1>1
<1>8. \A i \in 1..n : f[i] = Cat(f[i - 1], seqs[i])
  BY <1>4, <1>6, <1>7
<1>9. QED
  BY <1>6, <1>8 DEF Joins, n, base, V

\* A sequence of sequences is flattened by joining them in turn.
LEMMA FlattenJoins ==
    ASSUME NEW S, NEW seqs \in Seq(Seq(S)), NEW f, Joins(f, seqs, Len(seqs), S)
    PROVE  FlattenSeq(seqs) = f[Len(seqs)]
<1> DEFINE n == Len(seqs)
           none == <<>>
<1>1. n \in Nat /\ seqs \in Seq(Seq(S)) /\ \A i \in 1..n : seqs[i] \in Seq(S)
  OBVIOUS
<1>2. /\ f \in [0..n -> Seq(S)] /\ f[0] = none
      /\ \A i \in 1..n : f[i] = Cat(f[i - 1], seqs[i])
  BY DEF Joins
<1>3. CASE n = 0
  <2>1. seqs = none
    BY <1>3
  <2>2. FlattenSeq(seqs) = seqs
    BY <1>3, FlattenIs
  <2>3. QED
    BY <1>2, <1>3, <2>1, <2>2
<1>4. CASE n # 0
  <2>1. n \in 1..n /\ 1 \in 1..n
    BY <1>1, <1>4
  <2>2. f[1] = seqs[1]
    <3>1. f[1] = Cat(none, seqs[1])
      BY <1>2, <2>1
    <3>2. QED
      BY <1>1, <2>1, <3>1, CatNothing
  <2> DEFINE g == [i \in 1..n |-> f[i]]
  <2>3. IsFlatten(g, seqs)
    <3>1. ASSUME NEW i \in 1..n
          PROVE  g[i] = IF i = 1 THEN seqs[i] ELSE g[i - 1] \o seqs[i]
      <4>1. CASE i = 1
        BY <2>2, <4>1
      <4>2. CASE i # 1
        <5>1. i - 1 \in 1..n
          BY <1>1, <4>2
        <5>2. g[i] = f[i] /\ g[i - 1] = f[i - 1]
          BY <5>1
        <5> HIDE DEF g
        <5>3. g[i] = Cat(g[i - 1], seqs[i])
          BY <1>2, <5>2
        <5>4. QED
          BY <4>2, <5>3 DEF Cat
      <4>3. QED
        BY <4>1, <4>2
    <3>2. g = [i \in 1..n |-> g[i]]
      OBVIOUS
    <3> HIDE DEF g
    <3>3. g = [i \in 1..n |-> IF i = 1 THEN seqs[i] ELSE g[i - 1] \o seqs[i]]
      BY <3>1, <3>2
    <3>4. QED
      BY <3>3 DEF IsFlatten
  <2> DEFINE h == CHOOSE x : IsFlatten(x, seqs)
  <2> HIDE DEF g
  <2>4. IsFlatten(h, seqs)
    BY <2>3
  <2>5. FlattenSeq(seqs) = h[n]
    BY <1>4, FlattenIs
  <2> HIDE DEF h
  <2>6. /\ h[1] = seqs[1]
        /\ \A i \in 1..n : i # 1 => h[i] = Cat(h[i - 1], seqs[i])
    <3>1. h = [i \in 1..n |-> IF i = 1 THEN seqs[i] ELSE h[i - 1] \o seqs[i]]
      BY <2>4 DEF IsFlatten
    <3>2. \A i \in 1..n : h[i] = IF i = 1 THEN seqs[i] ELSE Cat(h[i - 1], seqs[i])
      BY <3>1, Zenon DEF Cat
    <3>3. QED
      BY <2>1, <3>2
  <2> DEFINE G == {i \in 0..n : i # 0 => h[i] = f[i]}
  <2>7. 0 \in G
    BY <1>1
  <2>8. ASSUME NEW i \in 1..n, i - 1 \in G PROVE i \in G
    <3>1. CASE i = 1
      BY <1>1, <2>2, <2>6, <3>1
    <3>2. CASE i # 1
      <4>1. i - 1 # 0 /\ i \in 0..n
        BY <1>1, <3>2
      <4>2. h[i - 1] = f[i - 1]
        BY <2>8, <4>1
      <4>3. h[i] = f[i]
        BY <1>2, <2>6, <3>2, <4>2
      <4>4. QED
        BY <4>1, <4>3
    <3>3. QED
      BY <3>1, <3>2
  <2> HIDE DEF G, n
  <2>9. n \in G
    <3>1. \A i \in 1..n : i - 1 \in G => i \in G
      BY <2>8
    <3>2. \A i \in 0..n : i \in G
      BY <1>1, <2>7, <3>1, EveryPlace
    <3>3. QED
      BY <1>1, <3>2
  <2>10. QED
    BY <1>4, <2>5, <2>9 DEF G, n
<1>5. QED
  BY <1>3, <1>4

-----------------------------------------------------------------------------
(***************************************************************************)
(* Reading as a relation: the shell that stands at r reads text and then   *)
(* stands at q.  Texts are read one after the other.                       *)
(***************************************************************************)
Path(f, r, text) ==
    /\ DOMAIN f = 0..Len(text)
    /\ f[0] = r
    /\ \A i \in 1..Len(text) : f[i] = Read(f[i - 1], text[i])

Reads(r, text, q) == \E f : Path(f, r, text) /\ f[Len(text)] = q

LEMMA ReadsNothing ==
    ASSUME NEW r
    PROVE  Reads(r, <<>>, r)
<1> DEFINE f == [i \in 0..0 |-> r]
<1>1. DOMAIN f = 0..0 /\ f[0] = r /\ 1..0 = {} /\ Len(<<>>) = 0
  OBVIOUS
<1> HIDE DEF f
<1>2. Path(f, r, <<>>) /\ f[Len(<<>>)] = r
  BY <1>1 DEF Path
<1>3. QED
  BY <1>2 DEF Reads

LEMMA ReadsOne ==
    ASSUME NEW r, NEW c
    PROVE  Reads(r, <<c>>, Read(r, c))
<1> DEFINE q == Read(r, c)
<1> HIDE DEF q
<1> DEFINE f == [i \in 0..1 |-> IF i = 0 THEN r ELSE q]
           text == <<c>>
<1>1. DOMAIN f = 0..1 /\ f[0] = r /\ f[1] = q
  OBVIOUS
<1>2. Len(text) = 1 /\ text[1] = c /\ \A i \in 1..1 : i = 1 /\ i - 1 = 0
  OBVIOUS
<1> HIDE DEF f, text
<1>3. Path(f, r, text) /\ f[Len(text)] = q
  BY <1>1, <1>2 DEF Path, q
<1>4. Reads(r, text, q)
  BY <1>3 DEF Reads
<1>5. QED
  BY <1>4 DEF text, q

LEMMA ReadsCat ==
    ASSUME NEW S, NEW s \in Seq(S), NEW t \in Seq(S), NEW r, NEW p, NEW q,
           Reads(r, s, p), Reads(p, t, q)
    PROVE  Reads(r, Cat(s, t), q)
<1>1. PICK f : Path(f, r, s) /\ f[Len(s)] = p
  BY DEF Reads
<1>2. PICK g : Path(g, p, t) /\ g[Len(t)] = q
  BY DEF Reads
<1> DEFINE m == Len(s)
           n == Len(t)
           u == Cat(s, t)
           h == [i \in 0..(m + n) |-> IF i <= m THEN f[i] ELSE g[i - m]]
<1>3. /\ m \in Nat /\ n \in Nat /\ Len(u) = m + n
      /\ \A i \in 1..m : u[i] = s[i]
      /\ \A i \in 1..n : u[m + i] = t[i]
  BY DEF Cat
<1>4. /\ f[0] = r /\ f[m] = p /\ g[0] = p /\ g[n] = q
      /\ \A i \in 1..m : f[i] = Read(f[i - 1], s[i])
      /\ \A i \in 1..n : g[i] = Read(g[i - 1], t[i])
  BY <1>1, <1>2 DEF Path
<1> HIDE DEF m, n, u
<1>5. /\ DOMAIN h = 0..(m + n)
      /\ \A i \in 0..m : h[i] = f[i]
      /\ \A i \in 1..n : h[m + i] = g[i]
  BY <1>3
<1>6. h[m] = g[0]
  BY <1>3, <1>4, <1>5
<1> HIDE DEF h
<1>7. \A i \in 0..n : h[m + i] = g[i]
  <2>1. \A i \in 0..n : (i = 0 /\ m + i = m) \/ i \in 1..n
    BY <1>3
  <2>2. QED
    BY <1>5, <1>6, <2>1
<1>8. \A i \in 1..(m + n) : h[i] = Read(h[i - 1], u[i])
  <2> SUFFICES ASSUME NEW i \in 1..(m + n) PROVE h[i] = Read(h[i - 1], u[i])
    OBVIOUS
  <2>1. CASE i \in 1..m
    <3>1. i \in 0..m /\ i - 1 \in 0..m
      BY <1>3, <2>1
    <3>2. QED
      BY <1>3, <1>4, <1>5, <2>1, <3>1
  <2>2. CASE i \notin 1..m
    <3> DEFINE j == i - m
    <3>1. j \in 1..n /\ j - 1 \in 0..n /\ j \in 0..n /\ m + j = i /\ m + (j - 1) = i - 1
      BY <1>3, <2>2
    <3> HIDE DEF j
    <3>2. h[i] = g[j] /\ h[i - 1] = g[j - 1] /\ u[i] = t[j]
      BY <1>3, <1>7, <3>1
    <3>3. QED
      BY <1>4, <3>1, <3>2
  <2>3. QED
    BY <2>1, <2>2
<1>9. 0 \in 0..m /\ n \in 0..n
  BY <1>3
<1>10. h[0] = r /\ h[Len(u)] = q
  BY <1>3, <1>4, <1>5, <1>7, <1>9
<1>11. Path(h, r, u)
  BY <1>3, <1>5, <1>8, <1>10 DEF Path
<1>12. Reads(r, u, q)
  BY <1>10, <1>11 DEF Reads
<1>13. QED
  BY <1>12 DEF u

\* The two ends of a reading of one text are the same.
LEMMA ReadsSame ==
    ASSUME NEW text, Len(text) \in Nat, NEW r, NEW p, NEW q, Reads(r, text, p), Reads(r, text, q)
    PROVE  p = q
<1>1. PICK f : Path(f, r, text) /\ f[Len(text)] = p
  BY DEF Reads
<1>2. PICK g : Path(g, r, text) /\ g[Len(text)] = q
  BY DEF Reads
<1> DEFINE n == Len(text)
           G == {i \in 0..n : f[i] = g[i]}
<1>3. /\ n \in Nat /\ f[0] = r /\ g[0] = r /\ f[n] = p /\ g[n] = q
      /\ \A i \in 1..n : f[i] = Read(f[i - 1], text[i])
      /\ \A i \in 1..n : g[i] = Read(g[i - 1], text[i])
  BY <1>1, <1>2 DEF Path
<1> HIDE DEF n
<1>4. 0 \in G
  BY <1>3
<1>5. \A i \in 1..n : i - 1 \in G => i \in G
  <2> SUFFICES ASSUME NEW i \in 1..n, i - 1 \in G PROVE i \in G
    OBVIOUS
  <2>1. f[i - 1] = g[i - 1] /\ i \in 0..n
    BY <1>3
  <2>2. f[i] = g[i]
    BY <1>3, <2>1
  <2>3. QED
    BY <2>1, <2>2
<1> HIDE DEF G
<1>6. \A i \in 0..n : i \in G
  BY <1>3, <1>4, <1>5, EveryPlace
<1>7. n \in G
  BY <1>3, <1>6
<1>8. QED
  BY <1>3, <1>7 DEF G

\* The equation of the function inside Reading.
IsReading(f, text) ==
    f = [i \in 0..Len(text) |-> IF i = 0 THEN Start ELSE Read(f[i - 1], text[i])]

LEMMA ReadingIs == ASSUME NEW text PROVE Reading(text) = (CHOOSE f : IsReading(f, text))[Len(text)]
BY DEF Reading, IsReading

LEMMA ReadsIsReading ==
    ASSUME NEW text, Len(text) \in Nat, NEW q, Reads(Start, text, q)
    PROVE  Reading(text) = q
<1> DEFINE n == Len(text)
           h == CHOOSE f : IsReading(f, text)
<1>1. PICK g : Path(g, Start, text) /\ g[n] = q
  BY DEF Reads
<1>2. /\ n \in Nat /\ DOMAIN g = 0..n /\ g[0] = Start
      /\ \A i \in 1..n : g[i] = Read(g[i - 1], text[i])
  BY <1>1 DEF Path
<1>3. \E f : IsReading(f, text)
  <2> DEFINE f == [i \in 0..n |-> g[i]]
  <2>1. f = [i \in 0..n |-> f[i]] /\ \A i \in 0..n : f[i] = g[i]
    OBVIOUS
  <2> HIDE DEF f, n
  <2>2. \A i \in 0..n : f[i] = IF i = 0 THEN Start ELSE Read(f[i - 1], text[i])
    <3>1. \A i \in 0..n : i = 0 \/ (i # 0 /\ i \in 1..n /\ i - 1 \in 0..n)
      BY <1>2
    <3>2. QED
      BY <1>2, <2>1, <3>1
  <2>3. f = [i \in 0..n |-> IF i = 0 THEN Start ELSE Read(f[i - 1], text[i])]
    BY <2>1, <2>2
  <2>4. IsReading(f, text)
    BY <2>3 DEF IsReading, n
  <2>5. QED
    BY <2>4
<1>4. IsReading(h, text)
  BY <1>3
<1>5. Reading(text) = h[n]
  BY ReadingIs
<1> HIDE DEF h
<1>6. Reads(Start, text, h[n])
  <2>1. h = [i \in 0..n |-> IF i = 0 THEN Start ELSE Read(h[i - 1], text[i])]
    BY <1>4 DEF IsReading
  <2>2. DOMAIN h = 0..n /\ h[0] = Start
    BY <1>2, <2>1
  <2>3. \A i \in 1..n : i \in 0..n /\ i # 0
    OBVIOUS
  <2>4. \A i \in 1..n : h[i] = Read(h[i - 1], text[i])
    BY <2>1, <2>3
  <2>5. Path(h, Start, text)
    BY <2>2, <2>4 DEF Path
  <2>6. QED
    BY <2>5 DEF Reads
<1>7. QED
  BY <1>5, <1>6, ReadsSame

\* Every text is read somehow.
LEMMA PathExists ==
    ASSUME NEW r, NEW S, NEW text \in Seq(S)
    PROVE  \E q : Reads(r, text, q)
<1> DEFINE n == Len(text)
           Begins(f, k) == /\ DOMAIN f = 0..k /\ f[0] = r
                           /\ \A i \in 1..k : f[i] = Read(f[i - 1], text[i])
           G == {k \in 0..n : \E f : Begins(f, k)}
<1>1. n \in Nat
  OBVIOUS
<1>2. 0 \in G
  <2> DEFINE f == [i \in 0..0 |-> r]
  <2>1. DOMAIN f = 0..0 /\ f[0] = r /\ 1..0 = {}
    OBVIOUS
  <2> HIDE DEF f
  <2>2. Begins(f, 0)
    BY <2>1
  <2> HIDE DEF Begins
  <2>3. QED
    BY <1>1, <2>2
<1>3. ASSUME NEW k \in 1..n, k - 1 \in G PROVE k \in G
  <2>1. PICK g : Begins(g, k - 1)
    BY <1>3
  <2>2. /\ DOMAIN g = 0..(k - 1) /\ g[0] = r
        /\ \A i \in 1..(k - 1) : g[i] = Read(g[i - 1], text[i])
    BY <2>1
  <2>3. k \in Nat /\ k - 1 \in 0..(k - 1) /\ 0 # k /\ 0 \in 0..k /\ k \in 0..n
    BY <1>1
  <2> DEFINE next == Read(g[k - 1], text[k])
             f == [i \in 0..k |-> IF i = k THEN next ELSE g[i]]
  <2>4. Read(g[k - 1], text[k]) = next
    OBVIOUS
  <2> HIDE DEF next
  <2>5. DOMAIN f = 0..k /\ f[0] = r /\ f[k] = next /\ \A i \in 0..(k - 1) : f[i] = g[i]
    BY <2>2, <2>3
  <2> HIDE DEF f
  <2>6. ASSUME NEW i \in 1..k PROVE f[i] = Read(f[i - 1], text[i])
    <3>1. CASE i = k
      <4>1. f[i - 1] = g[k - 1]
        BY <2>3, <2>5, <3>1
      <4>2. QED
        BY <2>4, <2>5, <3>1, <4>1
    <3>2. CASE i # k
      <4>1. i \in 1..(k - 1) /\ i \in 0..(k - 1) /\ i - 1 \in 0..(k - 1)
        BY <2>3, <3>2
      <4>2. QED
        BY <2>2, <2>5, <4>1
    <3>3. QED
      BY <3>1, <3>2
  <2>7. Begins(f, k)
    BY <2>5, <2>6
  <2> HIDE DEF Begins
  <2>8. QED
    BY <2>3, <2>7
<1>4. n \in G
  <2>1. \A k \in 1..n : k - 1 \in G => k \in G
    BY <1>3
  <2> HIDE DEF G, n
  <2>2. \A k \in 0..n : k \in G
    BY <1>1, <1>2, <2>1, EveryPlace
  <2>3. QED
    BY <1>1, <2>2
<1>5. PICK f : Begins(f, n)
  BY <1>4
<1>6. Path(f, r, text)
  BY <1>5 DEF Path
<1>7. QED
  BY <1>6 DEF Reads

LEMMA ReadingReads ==
    ASSUME NEW S, NEW text \in Seq(S)
    PROVE  Reads(Start, text, Reading(text))
<1>1. Len(text) \in Nat
  OBVIOUS
<1>2. PICK q : Reads(Start, text, q)
  BY PathExists
<1>3. QED
  BY <1>1, <1>2, ReadsIsReading

\* Two, three and four characters.
LEMMA PairIs ==
    ASSUME NEW S, NEW c \in S, NEW d \in S
    PROVE  <<c, d>> = Cat(<<c>>, <<d>>)
<1> DEFINE one == <<c>>
           other == <<d>>
           s == <<c, d>>
           t == Cat(one, other)
<1>1. s \in Seq(S) /\ Len(s) = 2 /\ s[1] = c /\ s[2] = d
  OBVIOUS
<1>2. /\ one \in Seq(S) /\ Len(one) = 1 /\ one[1] = c
      /\ other \in Seq(S) /\ Len(other) = 1 /\ other[1] = d
  OBVIOUS
<1> HIDE DEF one, other, s
<1>3. t \in Seq(S) /\ Len(t) = 2 /\ t[1] = c /\ t[2] = d
  <2>1. one \in Seq(S) /\ other \in Seq(S)
    BY <1>2
  <2>2. t \in Seq(S)
    BY <2>1, CatSeq
  <2>3. Len(t) = Len(one) + Len(other)
    BY <2>1, CatLen
  <2>4. t[1] = one[1] /\ t[1 + 1] = other[1]
    BY <1>2 DEF Cat
  <2>5. QED
    BY <1>2, <2>2, <2>3, <2>4
<1>4. \A i \in 1..Len(s) : i = 1 \/ i = 2
  BY <1>1
<1> HIDE DEF t
<1>5. s = t
  BY <1>1, <1>3, <1>4, SeqEqual
<1>6. QED
  BY <1>5 DEF s, t, one, other

LEMMA ReadsTwo ==
    ASSUME NEW S, NEW c \in S, NEW d \in S, NEW r, NEW p, NEW q, p = Read(r, c), q = Read(p, d)
    PROVE  Reads(r, <<c, d>>, q)
<1> DEFINE one == <<c>>
           other == <<d>>
<1>1. one \in Seq(S) /\ other \in Seq(S)
  OBVIOUS
<1>2. Reads(r, one, p) /\ Reads(p, other, q)
  BY ReadsOne
<1>3. <<c, d>> = Cat(one, other)
  BY PairIs
<1> HIDE DEF one, other
<1>4. Reads(r, Cat(one, other), q)
  BY <1>1, <1>2, ReadsCat
<1>5. QED
  BY <1>3, <1>4

LEMMA ReadsThree ==
    ASSUME NEW S, NEW c \in S, NEW d \in S, NEW e \in S, NEW r, NEW o, NEW p, NEW q,
           o = Read(r, c), p = Read(o, d), q = Read(p, e)
    PROVE  Reads(r, <<c, d, e>>, q)
<1> DEFINE two == <<c, d>>
           other == <<e>>
<1>1. two \in Seq(S) /\ other \in Seq(S)
  OBVIOUS
<1>2. Reads(r, two, p)
  BY ReadsTwo
<1>3. Reads(p, other, q)
  BY ReadsOne
<1>4. <<c, d, e>> = Cat(two, other)
  BY DEF Cat
<1> HIDE DEF two, other
<1>5. Reads(r, Cat(two, other), q)
  BY <1>1, <1>2, <1>3, ReadsCat
<1>6. QED
  BY <1>4, <1>5

LEMMA ReadsFour ==
    ASSUME NEW S, NEW c \in S, NEW d \in S, NEW e \in S, NEW f \in S, NEW r, NEW n, NEW o, NEW p, NEW q,
           n = Read(r, c), o = Read(n, d), p = Read(o, e), q = Read(p, f)
    PROVE  Reads(r, <<c, d, e, f>>, q)
<1> DEFINE two == <<c, d>>
           other == <<e, f>>
<1>1. two \in Seq(S) /\ other \in Seq(S)
  OBVIOUS
<1>2. Reads(r, two, o)
  BY ReadsTwo
<1>3. Reads(o, other, q)
  BY ReadsTwo
<1>4. <<c, d, e, f>> = Cat(two, other)
  BY DEF Cat
<1> HIDE DEF two, other
<1>5. Reads(r, Cat(two, other), q)
  BY <1>1, <1>2, <1>3, ReadsCat
<1>6. QED
  BY <1>4, <1>5

-----------------------------------------------------------------------------
(***************************************************************************)
(* Where the shell stands: the constructions it is in, the innermost one   *)
(* apart, what it has read and what it holds.                              *)
(***************************************************************************)
Modes ==
    {"gap", "word", "digits", "name", "single", "double", "escape", "escape_in_double", "dollar",
     "dollar_in_double", "param", "ansi", "ansi_escape", "hex", "and", "or", "less", "greater",
     "target", "dup"}

Stack == Seq(Modes)

At(b, m, g, h) == [modes |-> Append(b, m), got |-> g, held |-> h]

LEMMA ModesAre ==
    /\ "gap" \in Modes /\ "word" \in Modes /\ "digits" \in Modes /\ "name" \in Modes
    /\ "single" \in Modes /\ "double" \in Modes /\ "escape" \in Modes
    /\ "escape_in_double" \in Modes /\ "dollar" \in Modes /\ "dollar_in_double" \in Modes
    /\ "param" \in Modes /\ "ansi" \in Modes /\ "ansi_escape" \in Modes /\ "hex" \in Modes
    /\ "and" \in Modes /\ "or" \in Modes /\ "less" \in Modes /\ "greater" \in Modes
    /\ "target" \in Modes /\ "dup" \in Modes
BY DEF Modes

LEMMA OnTop ==
    ASSUME NEW S, NEW b \in Seq(S), NEW m \in S, NEW k \in S
    PROVE  /\ Append(b, m) \in Seq(S) /\ Len(Append(b, m)) = Len(b) + 1
           /\ Append(b, m)[Len(b) + 1] = m
           /\ [Append(b, m) EXCEPT ![Len(b) + 1] = k] = Append(b, k)
           /\ SubSeq(Append(b, m), 1, Len(b)) = b
<1> DEFINE s == Append(b, m)
           t == Append(b, k)
           n == Len(b)
<1>1. n \in Nat
  OBVIOUS
<1>2. /\ s \in Seq(S) /\ Len(s) = n + 1 /\ s[n + 1] = m
      /\ \A i \in 1..n : s[i] = b[i]
  OBVIOUS
<1>3. /\ t \in Seq(S) /\ Len(t) = n + 1 /\ t[n + 1] = k
      /\ \A i \in 1..n : t[i] = b[i]
  OBVIOUS
<1> HIDE DEF s, t, n
<1>4. [s EXCEPT ![n + 1] = k] = t
  <2> DEFINE u == [s EXCEPT ![n + 1] = k]
  <2>1. n + 1 \in 1..Len(s)
    BY <1>1, <1>2
  <2>2. /\ u \in Seq(S) /\ Len(u) = n + 1
        /\ \A i \in 1..Len(s) : u[i] = IF i = n + 1 THEN k ELSE s[i]
    <3>1. s \in Seq(S) /\ n + 1 \in 1..Len(s) /\ k \in S
      BY <1>2, <2>1
    <3>2. u \in Seq(S) /\ Len(u) = Len(s)
      BY <3>1, ExceptSeq
    <3>3. \A i \in 1..Len(s) : u[i] = IF i = n + 1 THEN k ELSE s[i]
      BY <3>1, ExceptSeq
    <3>4. QED
      BY <1>2, <3>2, <3>3
  <2> HIDE DEF u
  <2>3. \A i \in 1..Len(s) : i = n + 1 \/ (i # n + 1 /\ i \in 1..n)
    BY <1>1, <1>2
  <2>4. \A i \in 1..Len(s) : u[i] = t[i]
    BY <1>2, <1>3, <2>2, <2>3
  <2>5. u = t
    BY <1>2, <1>3, <2>2, <2>4, SeqEqual
  <2>6. QED
    BY <2>5 DEF u
<1>5. SubSeq(s, 1, n) = b
  <2> DEFINE u == SubSeq(s, 1, n)
  <2>1. u \in Seq(S) /\ Len(u) = n /\ \A i \in 1..n : u[i] = s[i]
    BY <1>1, <1>2
  <2> HIDE DEF u
  <2>2. u = b
    BY <1>1, <1>2, <2>1, SeqEqual DEF n
  <2>3. QED
    BY <2>2 DEF u
<1>6. QED
  BY <1>1, <1>2, <1>4, <1>5 DEF s, t, n

LEMMA StackTop ==
    ASSUME NEW b \in Stack, NEW m \in Modes, NEW k \in Modes
    PROVE  /\ Append(b, m) \in Stack /\ Len(b) \in Nat /\ Len(Append(b, m)) = Len(b) + 1
           /\ Append(b, m)[Len(b) + 1] = m
           /\ [Append(b, m) EXCEPT ![Len(b) + 1] = k] = Append(b, k)
           /\ SubSeq(Append(b, m), 1, Len(b)) = b
<1>1. b \in Seq(Modes)
  BY DEF Stack
<1>2. /\ Append(b, m) \in Seq(Modes) /\ Len(Append(b, m)) = Len(b) + 1
      /\ Append(b, m)[Len(b) + 1] = m
      /\ [Append(b, m) EXCEPT ![Len(b) + 1] = k] = Append(b, k)
      /\ SubSeq(Append(b, m), 1, Len(b)) = b
  BY <1>1, OnTop
<1>3. Len(b) \in Nat
  BY <1>1
<1>4. QED
  BY <1>2, <1>3 DEF Stack

LEMMA StackIs ==
    ASSUME NEW b \in Stack, NEW m \in Modes
    PROVE  Append(b, m) \in Stack
BY StackTop

LEMMA AtGet ==
    ASSUME NEW b, NEW m, NEW g, NEW h, NEW x
    PROVE  Get(At(b, m, g, h), x) = At(b, m, Cat(g, x), h)
<1> DEFINE top == Append(b, m)
           r == [modes |-> top, got |-> g, held |-> h]
           y == Cat(g, x)
<1> HIDE DEF top
<1>1. r.got = g
  OBVIOUS
<1>2. Get(r, x) = [r EXCEPT !.got = y]
  <2>1. Cat(r.got, x) = y
    BY <1>1
  <2>2. Get(r, x) = [r EXCEPT !.got = Cat(r.got, x)]
    BY DEF Get, Cat
  <2>3. QED
    BY <2>1, <2>2
<1> HIDE DEF y
<1>3. [r EXCEPT !.got = y] = [modes |-> top, got |-> y, held |-> h]
  OBVIOUS
<1>4. QED
  BY <1>2, <1>3 DEF At, top, y

LEMMA AtHold ==
    ASSUME NEW b, NEW m, NEW g, NEW h, NEW x
    PROVE  Hold(At(b, m, g, h), x) = At(b, m, g, x)
BY DEF Hold, At

LEMMA AtMode ==
    ASSUME NEW b \in Stack, NEW m \in Modes, NEW g, NEW h
    PROVE  Mode(At(b, m, g, h)) = m
<1>1. At(b, m, g, h).modes = Append(b, m)
  BY DEF At
<1>2. Len(Append(b, m)) = Len(b) + 1 /\ Append(b, m)[Len(b) + 1] = m
  BY StackTop
<1>3. QED
  BY <1>1, <1>2 DEF Mode

LEMMA AtTurn ==
    ASSUME NEW b \in Stack, NEW m \in Modes, NEW k \in Modes, NEW g, NEW h
    PROVE  Turn(At(b, m, g, h), k) = At(b, k, g, h)
<1> DEFINE s == Append(b, m)
           r == At(b, m, g, h)
<1>1. Len(s) = Len(b) + 1 /\ [s EXCEPT ![Len(b) + 1] = k] = Append(b, k)
  BY StackTop
<1> HIDE DEF s
<1>2. r = [modes |-> s, got |-> g, held |-> h]
  BY DEF At, s
<1> HIDE DEF r
<1>3. Turn(r, k) = [modes |-> [s EXCEPT ![Len(s)] = k], got |-> g, held |-> h]
  BY <1>2 DEF Turn
<1>4. QED
  BY <1>1, <1>3 DEF At, r

LEMMA AtEnter ==
    ASSUME NEW b, NEW m, NEW k, NEW g, NEW h
    PROVE  Enter(At(b, m, g, h), k) = At(Append(b, m), k, g, h)
BY DEF Enter, At

LEMMA AtLeave ==
    ASSUME NEW b \in Stack, NEW l \in Modes, NEW m \in Modes, NEW g, NEW h
    PROVE  Leave(At(Append(b, l), m, g, h)) = At(b, l, g, h)
<1> DEFINE c == Append(b, l)
           s == Append(c, m)
<1>1. c \in Stack
  BY StackTop
<1> HIDE DEF c
<1>2. Len(c) \in Nat /\ Len(s) = Len(c) + 1 /\ SubSeq(s, 1, Len(c)) = c
  BY <1>1, StackTop
<1>3. SubSeq(s, 1, Len(s) - 1) = c
  BY <1>1, <1>2
<1> HIDE DEF s
<1>4. At(c, m, g, h) = [modes |-> s, got |-> g, held |-> h]
  BY DEF At, s
<1>5. Leave([modes |-> s, got |-> g, held |-> h]) = [modes |-> c, got |-> g, held |-> h]
  BY <1>3 DEF Leave
<1>6. QED
  BY <1>4, <1>5 DEF At, c

\* How deep the shell is, for the end of a substitution.
LEMMA AtDepth ==
    ASSUME NEW b \in Stack, NEW l \in Modes, NEW m \in Modes, NEW g, NEW h
    PROVE  Len(At(Append(b, l), m, g, h).modes) > 1
<1> DEFINE c == Append(b, l)
<1>1. c \in Stack /\ Len(c) = Len(b) + 1 /\ Len(b) \in Nat
  BY StackTop
<1> HIDE DEF c
<1>2. Len(Append(c, m)) = Len(c) + 1
  BY <1>1, StackTop
<1>3. QED
  BY <1>1, <1>2 DEF At, c

-----------------------------------------------------------------------------
(***************************************************************************)
(* One character, in each of the constructions a command goes through.     *)
(***************************************************************************)
LEMMA InWordAt ==
    ASSUME NEW b, NEW g, NEW h, NEW c
    PROVE  /\ c \in Quotes =>
                  InWord(At(b, "word", g, h), c) = At(Append(b, "word"), Inside(c), g, h)
           /\ c = BS => InWord(At(b, "word", g, h), c) = At(Append(b, "word"), "escape", g, h)
           /\ c = DOLLAR => InWord(At(b, "word", g, h), c) = At(Append(b, "word"), "dollar", g, h)
<1> DEFINE r == At(b, "word", g, h)
<1>1. \A k : Enter(r, k) = At(Append(b, "word"), k, g, h)
  BY AtEnter
<1> HIDE DEF r
<1>2. ASSUME c \in Quotes PROVE InWord(r, c) = Enter(r, Inside(c))
  <2>1. c = SQ \/ (c = DQ /\ c # SQ)
    BY <1>2 DEF Quotes, SQ, DQ
  <2>2. c # BS /\ c # DOLLAR /\ c \notin Plain /\ (c = SQ => c # DQ)
    BY <1>2 DEF Quotes, SQ, DQ, BS, DOLLAR, Plain, NameChar, NameStart, Letter, Digit, UNDERSCORE, EQUAL
  <2>3. QED
    BY <2>1, <2>2 DEF InWord, Inside
<1>3. ASSUME c = BS PROVE InWord(r, c) = Enter(r, "escape")
  <2>1. c # SQ /\ c # DQ /\ c # DOLLAR /\ c \notin Plain
    BY <1>3 DEF SQ, DQ, BS, DOLLAR, Plain, NameChar, NameStart, Letter, Digit, UNDERSCORE, EQUAL
  <2>2. QED
    BY <1>3, <2>1 DEF InWord
<1>4. ASSUME c = DOLLAR PROVE InWord(r, c) = Enter(r, "dollar")
  <2>1. c # SQ /\ c # DQ /\ c # BS /\ c \notin Plain
    BY <1>4 DEF SQ, DQ, BS, DOLLAR, Plain, NameChar, NameStart, Letter, Digit, UNDERSCORE, EQUAL
  <2>2. QED
    BY <1>4, <2>1 DEF InWord
<1>5. QED
  BY <1>1, <1>2, <1>3, <1>4 DEF r

LEMMA GapSpace ==
    ASSUME NEW b, NEW g, NEW h
    PROVE  InGap(At(b, "gap", g, h), SPACE) = At(b, "gap", g, h)
BY GapSteps

LEMMA GapNumber ==
    ASSUME NEW b \in Stack, NEW g, NEW h, NEW c \in Digit
    PROVE  InGap(At(b, "gap", g, h), c) = At(b, "digits", g, <<c>>)
<1> DEFINE r == At(b, "gap", g, h)
<1>1. "gap" \in Modes /\ "digits" \in Modes
  BY ModesAre
<1>2. Turn(r, "digits") = At(b, "digits", g, h)
  BY <1>1, AtTurn
<1>3. Hold(At(b, "digits", g, h), <<c>>) = At(b, "digits", g, <<c>>)
  BY AtHold
<1> HIDE DEF r
<1>4. InGap(r, c) = Hold(Turn(r, "digits"), <<c>>)
  BY GapSteps
<1>5. QED
  BY <1>2, <1>3, <1>4 DEF r

LEMMA GapName ==
    ASSUME NEW b \in Stack, NEW g, NEW h, NEW c \in NameStart
    PROVE  InGap(At(b, "gap", g, h), c) = At(b, "name", g, <<c>>)
<1> DEFINE r == At(b, "gap", g, h)
<1>1. "gap" \in Modes /\ "name" \in Modes
  BY ModesAre
<1>2. Turn(r, "name") = At(b, "name", g, h)
  BY <1>1, AtTurn
<1>3. Hold(At(b, "name", g, h), <<c>>) = At(b, "name", g, <<c>>)
  BY AtHold
<1> HIDE DEF r
<1>4. InGap(r, c) = Hold(Turn(r, "name"), <<c>>)
  BY GapSteps
<1>5. QED
  BY <1>2, <1>3, <1>4 DEF r

LEMMA GapLess ==
    ASSUME NEW r
    PROVE  InGap(r, LESS) = Turn(Get(r, <<REDIR, 48>>), "less")
BY GapSteps

LEMMA GapGreater ==
    ASSUME NEW r
    PROVE  InGap(r, GREATER) = Turn(Get(r, <<REDIR, 49>>), "greater")
BY GapSteps

LEMMA GapToLess ==
    ASSUME NEW b \in Stack, NEW g, NEW h
    PROVE  InGap(At(b, "gap", g, h), LESS) = At(b, "less", Cat(g, <<REDIR, 48>>), h)
<1> DEFINE r == At(b, "gap", g, h)
           what == <<REDIR, 48>>
<1>1. "gap" \in Modes /\ "less" \in Modes
  BY ModesAre
<1>2. InGap(r, LESS) = Turn(Get(r, what), "less")
  BY GapLess
<1>3. Get(r, what) = At(b, "gap", Cat(g, what), h)
  BY AtGet
<1> HIDE DEF r, what
<1> DEFINE more == Cat(g, what)
<1> HIDE DEF more
<1>4. Turn(At(b, "gap", more, h), "less") = At(b, "less", more, h)
  BY <1>1, AtTurn
<1>5. InGap(r, LESS) = At(b, "less", more, h)
  BY <1>2, <1>3, <1>4 DEF more
<1>6. QED
  BY <1>5 DEF r, what, more

LEMMA GapToGreater ==
    ASSUME NEW b \in Stack, NEW g, NEW h
    PROVE  InGap(At(b, "gap", g, h), GREATER) = At(b, "greater", Cat(g, <<REDIR, 49>>), h)
<1> DEFINE r == At(b, "gap", g, h)
           what == <<REDIR, 49>>
<1>1. "gap" \in Modes /\ "greater" \in Modes
  BY ModesAre
<1>2. InGap(r, GREATER) = Turn(Get(r, what), "greater")
  BY GapGreater
<1>3. Get(r, what) = At(b, "gap", Cat(g, what), h)
  BY AtGet
<1> HIDE DEF r, what
<1> DEFINE more == Cat(g, what)
<1> HIDE DEF more
<1>4. Turn(At(b, "gap", more, h), "greater") = At(b, "greater", more, h)
  BY <1>1, AtTurn
<1>5. InGap(r, GREATER) = At(b, "greater", more, h)
  BY <1>2, <1>3, <1>4 DEF more
<1>6. QED
  BY <1>5 DEF r, what, more

LEMMA GapOperator ==
    ASSUME NEW b \in Stack, NEW g, NEW h
    PROVE  /\ InGap(At(b, "gap", g, h), AMP) = At(b, "and", g, h)
           /\ InGap(At(b, "gap", g, h), BAR) = At(b, "or", g, h)
           /\ InGap(At(b, "gap", g, h), SEMI) = At(b, "gap", Cat(g, <<THEN_RUN>>), h)
<1> DEFINE r == At(b, "gap", g, h)
<1>1. "gap" \in Modes /\ "and" \in Modes /\ "or" \in Modes
  BY ModesAre
<1>2. \A k \in Modes : Turn(r, k) = At(b, k, g, h)
  BY <1>1, AtTurn
<1>3. \A x : Get(r, x) = At(b, "gap", Cat(g, x), h)
  BY AtGet
<1> HIDE DEF r
<1>4. InGap(r, AMP) = At(b, "and", g, h) /\ InGap(r, BAR) = At(b, "or", g, h)
  BY <1>1, <1>2, GapSteps
<1>5. InGap(r, SEMI) = At(b, "gap", Cat(g, <<THEN_RUN>>), h)
  BY <1>3, GapSteps
<1>6. QED
  BY <1>4, <1>5 DEF r

LEMMA GapQuote ==
    ASSUME NEW b \in Stack, NEW g, NEW h, NEW c \in Quotes
    PROVE  InGap(At(b, "gap", g, h), c) = At(Append(b, "word"), Inside(c), Cat(g, <<WORD>>), h)
<1> DEFINE r == At(b, "gap", g, h)
           y == Cat(g, <<WORD>>)
<1>1. "gap" \in Modes /\ "word" \in Modes
  BY ModesAre
<1>2. Get(r, <<WORD>>) = At(b, "gap", y, h)
  BY AtGet
<1> HIDE DEF y
<1>3. Turn(At(b, "gap", y, h), "word") = At(b, "word", y, h)
  BY <1>1, AtTurn
<1>4. InWord(At(b, "word", y, h), c) = At(Append(b, "word"), Inside(c), y, h)
  BY InWordAt
<1> HIDE DEF r
<1>5. InGap(r, c) = InWord(Turn(Get(r, <<WORD>>), "word"), c)
  BY GapSteps
<1>6. InGap(r, c) = At(Append(b, "word"), Inside(c), y, h)
  BY <1>2, <1>3, <1>4, <1>5
<1>7. QED
  BY <1>6 DEF r, y

\* The end of a substitution.
LEMMA GapEnd ==
    ASSUME NEW b \in Stack, NEW l \in Modes, NEW g, NEW h
    PROVE  InGap(At(Append(b, l), "gap", g, h), RPAR) = At(b, l, Cat(g, <<END_SUBST>>), h)
<1> DEFINE r == At(Append(b, l), "gap", g, h)
           y == Cat(g, <<END_SUBST>>)
<1>1. "gap" \in Modes
  BY ModesAre
<1>2. Len(r.modes) > 1
  BY <1>1, AtDepth
<1>3. Get(r, <<END_SUBST>>) = At(Append(b, l), "gap", y, h)
  BY AtGet
<1> HIDE DEF y
<1>4. Leave(At(Append(b, l), "gap", y, h)) = At(b, l, y, h)
  BY <1>1, AtLeave
<1> HIDE DEF r
<1>5. InGap(r, RPAR) = Leave(Get(r, <<END_SUBST>>))
  BY <1>2, GapSteps
<1>6. InGap(r, RPAR) = At(b, l, y, h)
  BY <1>3, <1>4, <1>5
<1>7. QED
  BY <1>6 DEF r, y

LEMMA SingleEnd ==
    ASSUME NEW b \in Stack, NEW l \in Modes, NEW g, NEW h
    PROVE  Read(At(Append(b, l), "single", g, h), SQ) = At(b, l, g, h)
<1> DEFINE d == Append(b, l)
           r == At(d, "single", g, h)
<1>1. d \in Stack /\ "single" \in Modes
  BY StackIs, ModesAre
<1>2. Leave(r) = At(b, l, g, h)
  BY <1>1, AtLeave
<1> HIDE DEF d
<1>3. Mode(r) = "single"
  BY <1>1, AtMode
<1> HIDE DEF r
<1>4. Read(r, SQ) = InSingle(r, SQ)
  BY <1>3, ReadIs
<1>5. QED
  BY <1>2, <1>4 DEF InSingle, r, d

LEMMA SingleGoesOn ==
    ASSUME NEW b \in Stack, NEW g, NEW h, NEW c, c # SQ
    PROVE  Read(At(b, "single", g, h), c) = At(b, "single", Cat(g, <<c>>), h)
<1> DEFINE r == At(b, "single", g, h)
<1>1. "single" \in Modes
  BY ModesAre
<1>2. Get(r, <<c>>) = At(b, "single", Cat(g, <<c>>), h)
  BY AtGet
<1>3. Mode(r) = "single"
  BY <1>1, AtMode
<1> HIDE DEF r
<1>4. Read(r, c) = InSingle(r, c)
  BY <1>3, ReadIs
<1>5. QED
  BY <1>2, <1>4 DEF InSingle, r

\* Between double quotes four characters are not themselves.
LEMMA DoubleSteps ==
    ASSUME NEW r, Mode(r) = "double", NEW c
    PROVE  /\ c = DQ => Read(r, c) = Leave(r)
           /\ c = BS => Read(r, c) = Enter(r, "escape_in_double")
           /\ c = DOLLAR => Read(r, c) = Enter(r, "dollar_in_double")
           /\ c \notin Special => Read(r, c) = Get(r, <<c>>)
<1>1. Read(r, c) = InDouble(r, c)
  BY ReadIs
<1>2. c = DQ => c # BS /\ c # DOLLAR /\ c # BACKQUOTE
  BY DEF DQ, BS, DOLLAR, BACKQUOTE
<1>3. c = BS => c # DQ /\ c # DOLLAR /\ c # BACKQUOTE
  BY DEF DQ, BS, DOLLAR, BACKQUOTE
<1>4. c = DOLLAR => c # DQ /\ c # BS /\ c # BACKQUOTE
  BY DEF DQ, BS, DOLLAR, BACKQUOTE
<1>5. c \notin Special => c # DQ /\ c # BS /\ c # DOLLAR /\ c # BACKQUOTE
  BY DEF Special
<1>6. ASSUME c = DQ PROVE Read(r, c) = Leave(r)
  BY <1>1, <1>2, <1>6 DEF InDouble
<1>7. ASSUME c = BS PROVE Read(r, c) = Enter(r, "escape_in_double")
  BY <1>1, <1>3, <1>7 DEF InDouble
<1>8. ASSUME c = DOLLAR PROVE Read(r, c) = Enter(r, "dollar_in_double")
  BY <1>1, <1>4, <1>8 DEF InDouble
<1>9. ASSUME c \notin Special PROVE Read(r, c) = Get(r, <<c>>)
  BY <1>1, <1>5, <1>9 DEF InDouble
<1>10. QED
  BY <1>6, <1>7, <1>8, <1>9

LEMMA DoubleEnd ==
    ASSUME NEW b \in Stack, NEW l \in Modes, NEW g, NEW h
    PROVE  Read(At(Append(b, l), "double", g, h), DQ) = At(b, l, g, h)
<1> DEFINE d == Append(b, l)
           r == At(d, "double", g, h)
<1>1. d \in Stack /\ "double" \in Modes
  BY StackIs, ModesAre
<1>2. Leave(r) = At(b, l, g, h)
  BY <1>1, AtLeave
<1> HIDE DEF d
<1>3. Mode(r) = "double"
  BY <1>1, AtMode
<1> HIDE DEF r
<1>4. Read(r, DQ) = Leave(r)
  BY <1>3, DoubleSteps
<1>5. QED
  BY <1>2, <1>4 DEF r, d

LEMMA DoubleEscape ==
    ASSUME NEW b \in Stack, NEW g, NEW h
    PROVE  Read(At(b, "double", g, h), BS) = At(Append(b, "double"), "escape_in_double", g, h)
<1> DEFINE r == At(b, "double", g, h)
<1>1. "double" \in Modes
  BY ModesAre
<1>2. Enter(r, "escape_in_double") = At(Append(b, "double"), "escape_in_double", g, h)
  BY AtEnter
<1>3. Mode(r) = "double"
  BY <1>1, AtMode
<1> HIDE DEF r
<1>4. Read(r, BS) = Enter(r, "escape_in_double")
  BY <1>3, DoubleSteps
<1>5. QED
  BY <1>2, <1>4 DEF r

LEMMA DoubleDollar ==
    ASSUME NEW b \in Stack, NEW g, NEW h
    PROVE  Read(At(b, "double", g, h), DOLLAR) = At(Append(b, "double"), "dollar_in_double", g, h)
<1> DEFINE r == At(b, "double", g, h)
<1>1. "double" \in Modes
  BY ModesAre
<1>2. Enter(r, "dollar_in_double") = At(Append(b, "double"), "dollar_in_double", g, h)
  BY AtEnter
<1>3. Mode(r) = "double"
  BY <1>1, AtMode
<1> HIDE DEF r
<1>4. Read(r, DOLLAR) = Enter(r, "dollar_in_double")
  BY <1>3, DoubleSteps
<1>5. QED
  BY <1>2, <1>4 DEF r

LEMMA DoubleGoesOn ==
    ASSUME NEW b \in Stack, NEW g, NEW h, NEW c, c \notin Special
    PROVE  Read(At(b, "double", g, h), c) = At(b, "double", Cat(g, <<c>>), h)
<1> DEFINE r == At(b, "double", g, h)
<1>1. "double" \in Modes
  BY ModesAre
<1>2. Get(r, <<c>>) = At(b, "double", Cat(g, <<c>>), h)
  BY AtGet
<1>3. Mode(r) = "double"
  BY <1>1, AtMode
<1> HIDE DEF r
<1>4. Read(r, c) = Get(r, <<c>>)
  BY <1>3, DoubleSteps
<1>5. QED
  BY <1>2, <1>4 DEF r

LEMMA ReadEscapeInDouble ==
    ASSUME NEW b \in Stack, NEW l \in Modes, NEW g, NEW h, NEW c \in Special
    PROVE  Read(At(Append(b, l), "escape_in_double", g, h), c) = At(b, l, Cat(g, <<c>>), h)
<1> DEFINE d == Append(b, l)
           r == At(d, "escape_in_double", g, h)
           y == Cat(g, <<c>>)
<1>1. d \in Stack /\ "escape_in_double" \in Modes
  BY StackIs, ModesAre
<1>2. Get(r, <<c>>) = At(d, "escape_in_double", y, h)
  BY AtGet
<1> HIDE DEF y
<1>3. Leave(At(d, "escape_in_double", y, h)) = At(b, l, y, h)
  BY <1>1, AtLeave
<1> HIDE DEF d
<1>4. Mode(r) = "escape_in_double"
  BY <1>1, AtMode
<1> HIDE DEF r
<1>5. Read(r, c) = EscapeInDouble(r, c)
  BY <1>4, ReadIs
<1>6. Read(r, c) = Leave(Get(r, <<c>>))
  <2>1. c \in {DOLLAR, BACKQUOTE, DQ, BS}
    BY DEF Special
  <2>2. QED
    BY <1>5, <2>1 DEF EscapeInDouble
<1>7. QED
  BY <1>2, <1>3, <1>6 DEF r, d, y

\* A backslash outside of quotes.
LEMMA ReadEscape ==
    ASSUME NEW b \in Stack, NEW l \in Modes, NEW g, NEW h, NEW c
    PROVE  Read(At(Append(b, l), "escape", g, h), c) = At(b, l, Cat(g, <<c>>), h)
<1> DEFINE d == Append(b, l)
           r == At(d, "escape", g, h)
           y == Cat(g, <<c>>)
<1>1. d \in Stack /\ "escape" \in Modes
  BY StackIs, ModesAre
<1>2. Get(r, <<c>>) = At(d, "escape", y, h)
  BY AtGet
<1> HIDE DEF y
<1>3. Leave(At(d, "escape", y, h)) = At(b, l, y, h)
  BY <1>1, AtLeave
<1> HIDE DEF d
<1>4. Mode(r) = "escape"
  BY <1>1, AtMode
<1> HIDE DEF r
<1>5. Read(r, c) = Leave(Get(r, <<c>>))
  BY <1>4, ReadIs
<1>6. QED
  BY <1>2, <1>3, <1>5 DEF r, d, y

\* Both kinds of dollar: a parameter or a substitution takes its place.
LEMMA ReadDollarInDouble ==
    ASSUME NEW b \in Stack, NEW g, NEW h
    PROVE  /\ Read(At(b, "dollar_in_double", g, h), LBRACE) = At(b, "param", Cat(g, <<PARAM>>), h)
           /\ Read(At(b, "dollar_in_double", g, h), LPAR) = At(b, "gap", Cat(g, <<SUBST>>), h)
<1> DEFINE r == At(b, "dollar_in_double", g, h)
           y == Cat(g, <<PARAM>>)
           z == Cat(g, <<SUBST>>)
<1>1. "dollar_in_double" \in Modes /\ "param" \in Modes /\ "gap" \in Modes
  BY ModesAre
<1>2. Get(r, <<PARAM>>) = At(b, "dollar_in_double", y, h)
  BY AtGet
<1>3. Get(r, <<SUBST>>) = At(b, "dollar_in_double", z, h)
  BY AtGet
<1> HIDE DEF y, z
<1>4. Turn(At(b, "dollar_in_double", y, h), "param") = At(b, "param", y, h)
  BY <1>1, AtTurn
<1>5. Turn(At(b, "dollar_in_double", z, h), "gap") = At(b, "gap", z, h)
  BY <1>1, AtTurn
<1>6. Mode(r) = "dollar_in_double"
  BY <1>1, AtMode
<1> HIDE DEF r
<1>7. \A c : Read(r, c) = DollarInDouble(r, c)
  BY <1>6, ReadIs
<1>8. Read(r, LBRACE) = Turn(Get(r, <<PARAM>>), "param")
  BY <1>7 DEF DollarInDouble, LBRACE, LPAR
<1>9. Read(r, LPAR) = Turn(Get(r, <<SUBST>>), "gap")
  BY <1>7 DEF DollarInDouble, LBRACE, LPAR
<1>10. QED
  BY <1>2, <1>3, <1>4, <1>5, <1>8, <1>9 DEF r, y, z

LEMMA ReadDollar ==
    ASSUME NEW b \in Stack, NEW g, NEW h
    PROVE  Read(At(b, "dollar", g, h), SQ) = At(b, "ansi", g, h)
<1> DEFINE r == At(b, "dollar", g, h)
<1>1. "dollar" \in Modes /\ "ansi" \in Modes
  BY ModesAre
<1>2. Turn(r, "ansi") = At(b, "ansi", g, h)
  BY <1>1, AtTurn
<1>3. Mode(r) = "dollar"
  BY <1>1, AtMode
<1> HIDE DEF r
<1>4. Read(r, SQ) = AfterDollar(r, SQ)
  BY <1>3, ReadIs
<1>5. QED
  BY <1>2, <1>4 DEF AfterDollar, r

LEMMA ParamEnd ==
    ASSUME NEW b \in Stack, NEW l \in Modes, NEW g, NEW h
    PROVE  Read(At(Append(b, l), "param", g, h), RBRACE) = At(b, l, Cat(g, <<END_PARAM>>), h)
<1> DEFINE d == Append(b, l)
           r == At(d, "param", g, h)
           y == Cat(g, <<END_PARAM>>)
<1>1. d \in Stack /\ "param" \in Modes
  BY StackIs, ModesAre
<1>2. Get(r, <<END_PARAM>>) = At(d, "param", y, h)
  BY AtGet
<1> HIDE DEF y
<1>3. Leave(At(d, "param", y, h)) = At(b, l, y, h)
  BY <1>1, AtLeave
<1> HIDE DEF d
<1>4. Mode(r) = "param"
  BY <1>1, AtMode
<1> HIDE DEF r
<1>5. Read(r, RBRACE) = InParam(r, RBRACE)
  BY <1>4, ReadIs
<1>6. Read(r, RBRACE) = Leave(Get(r, <<END_PARAM>>))
  BY <1>5 DEF InParam
<1>7. QED
  BY <1>2, <1>3, <1>6 DEF r, d, y

LEMMA ParamGoesOn ==
    ASSUME NEW b \in Stack, NEW g, NEW h, NEW c, c # RBRACE
    PROVE  Read(At(b, "param", g, h), c) = At(b, "param", Cat(g, <<c>>), h)
<1> DEFINE r == At(b, "param", g, h)
<1>1. "param" \in Modes
  BY ModesAre
<1>2. Get(r, <<c>>) = At(b, "param", Cat(g, <<c>>), h)
  BY AtGet
<1>3. Mode(r) = "param"
  BY <1>1, AtMode
<1> HIDE DEF r
<1>4. Read(r, c) = InParam(r, c)
  BY <1>3, ReadIs
<1>5. QED
  BY <1>2, <1>4 DEF InParam, r

\* Between two items the lemmas on InGap tell what is read.
LEMMA ReadGap ==
    ASSUME NEW b \in Stack, NEW g, NEW h, NEW c
    PROVE  Read(At(b, "gap", g, h), c) = InGap(At(b, "gap", g, h), c)
<1> DEFINE r == At(b, "gap", g, h)
<1>1. "gap" \in Modes
  BY ModesAre
<1>2. Mode(r) = "gap"
  BY <1>1, AtMode
<1> HIDE DEF r
<1>3. Read(r, c) = InGap(r, c)
  BY <1>2, ReadIs
<1>4. QED
  BY <1>3 DEF r

\* A word goes on with a quote, a backslash or a dollar, and ends with a space.
LEMMA ReadWord ==
    ASSUME NEW b \in Stack, NEW g, NEW h, NEW c
    PROVE  /\ c \in Quotes =>
                  Read(At(b, "word", g, h), c) = At(Append(b, "word"), Inside(c), g, h)
           /\ c = BS => Read(At(b, "word", g, h), c) = At(Append(b, "word"), "escape", g, h)
           /\ c = DOLLAR => Read(At(b, "word", g, h), c) = At(Append(b, "word"), "dollar", g, h)
           /\ c = SPACE => Read(At(b, "word", g, h), c) = At(b, "gap", g, h)
<1> DEFINE r == At(b, "word", g, h)
           d == Append(b, "word")
<1>1. "word" \in Modes /\ "gap" \in Modes
  BY ModesAre
<1>2. Turn(r, "gap") = At(b, "gap", g, h)
  BY <1>1, AtTurn
<1>3. Mode(r) = "word"
  BY <1>1, AtMode
<1>4. /\ c \in Quotes => InWord(r, c) = At(d, Inside(c), g, h)
      /\ c = BS => InWord(r, c) = At(d, "escape", g, h)
      /\ c = DOLLAR => InWord(r, c) = At(d, "dollar", g, h)
  BY InWordAt
<1>5. InGap(At(b, "gap", g, h), SPACE) = At(b, "gap", g, h)
  BY GapSpace
<1> HIDE DEF r, d
<1>6. Read(r, c) = AfterWord(r, c)
  BY <1>3, ReadIs
<1>7. c \in Quotes \cup {BS, DOLLAR} => Read(r, c) = InWord(r, c)
  <2>1. c \in Quotes \cup {BS, DOLLAR} => c \notin {SPACE, LESS, GREATER, AMP, BAR, SEMI, RPAR}
    BY DEF Quotes, SQ, DQ, BS, DOLLAR, SPACE, LESS, GREATER, AMP, BAR, SEMI, RPAR
  <2>2. QED
    BY <1>6, <2>1 DEF AfterWord
<1>8. c = SPACE => Read(r, c) = InGap(Turn(r, "gap"), SPACE)
  BY <1>6 DEF AfterWord
<1>9. c = SPACE => Read(r, c) = At(b, "gap", g, h)
  BY <1>2, <1>5, <1>8
<1>10. QED
  BY <1>4, <1>7, <1>9 DEF r, d

LEMMA ReadDigits ==
    ASSUME NEW b \in Stack, NEW g, NEW h, NEW c
    PROVE  /\ c \in Digit => Read(At(b, "digits", g, h), c) = At(b, "digits", g, Append(h, c))
           /\ c = LESS =>
                  Read(At(b, "digits", g, h), c) = At(b, "less", Cat(g, Cat(<<REDIR>>, h)), <<>>)
           /\ c = GREATER =>
                  Read(At(b, "digits", g, h), c) = At(b, "greater", Cat(g, Cat(<<REDIR>>, h)), <<>>)
<1> DEFINE r == At(b, "digits", g, h)
           x == Cat(<<REDIR>>, h)
           y == Cat(g, x)
<1>1. "digits" \in Modes /\ "less" \in Modes /\ "greater" \in Modes
  BY ModesAre
<1>2. r.held = h
  BY DEF At
<1>3. Mode(r) = "digits"
  BY <1>1, AtMode
<1>4. Hold(r, Append(h, c)) = At(b, "digits", g, Append(h, c))
  BY AtHold
<1> HIDE DEF x
<1>5. Get(r, x) = At(b, "digits", y, h)
  BY AtGet
<1> HIDE DEF y
<1>6. /\ Turn(At(b, "digits", y, h), "less") = At(b, "less", y, h)
      /\ Turn(At(b, "digits", y, h), "greater") = At(b, "greater", y, h)
  BY <1>1, AtTurn
<1>7. /\ Hold(At(b, "less", y, h), <<>>) = At(b, "less", y, <<>>)
      /\ Hold(At(b, "greater", y, h), <<>>) = At(b, "greater", y, <<>>)
  BY AtHold
<1> HIDE DEF r
<1>8. Read(r, c) = InDigits(r, c)
  BY <1>3, ReadIs
<1>9. Cat(<<REDIR>>, r.held) = x
  BY <1>2 DEF x
<1>10. ASSUME c \in Digit PROVE Read(r, c) = Hold(r, Append(h, c))
  <2>1. c # LESS /\ c # GREATER
    BY <1>10 DEF Digit, LESS, GREATER
  <2>2. QED
    BY <1>2, <1>8, <1>10, <2>1 DEF InDigits
<1>11. ASSUME c = LESS PROVE Read(r, c) = Hold(Turn(Get(r, x), "less"), <<>>)
  <2>1. c \notin Digit /\ c # GREATER
    BY <1>11 DEF Digit, LESS, GREATER
  <2>2. InDigits(r, c) = Hold(Turn(Get(r, Cat(<<REDIR>>, r.held)), "less"), <<>>)
    BY <1>11, <2>1 DEF InDigits, Cat
  <2>3. QED
    BY <1>8, <1>9, <2>2
<1>12. ASSUME c = GREATER PROVE Read(r, c) = Hold(Turn(Get(r, x), "greater"), <<>>)
  <2>1. c \notin Digit /\ c # LESS
    BY <1>12 DEF Digit, LESS, GREATER
  <2>2. InDigits(r, c) = Hold(Turn(Get(r, Cat(<<REDIR>>, r.held)), "greater"), <<>>)
    BY <1>12, <2>1 DEF InDigits, Cat
  <2>3. QED
    BY <1>8, <1>9, <2>2
<1>13. QED
  BY <1>4, <1>5, <1>6, <1>7, <1>10, <1>11, <1>12 DEF r, x, y

LEMMA ReadName ==
    ASSUME NEW b \in Stack, NEW g, NEW h, NEW c
    PROVE  /\ c \in NameChar => Read(At(b, "name", g, h), c) = At(b, "name", g, Append(h, c))
           /\ c = EQUAL => Read(At(b, "name", g, h), c)
                           = At(b, "word", Cat(g, Cat(Cat(<<ASSIGN>>, h), <<IS>>)), <<>>)
<1> DEFINE r == At(b, "name", g, h)
           x == Cat(Cat(<<ASSIGN>>, h), <<IS>>)
           y == Cat(g, x)
<1>1. "name" \in Modes /\ "word" \in Modes
  BY ModesAre
<1>2. r.held = h
  BY DEF At
<1>3. Mode(r) = "name"
  BY <1>1, AtMode
<1>4. Hold(r, Append(h, c)) = At(b, "name", g, Append(h, c))
  BY AtHold
<1> HIDE DEF x
<1>5. Get(r, x) = At(b, "name", y, h)
  BY AtGet
<1> HIDE DEF y
<1>6. Turn(At(b, "name", y, h), "word") = At(b, "word", y, h)
  BY <1>1, AtTurn
<1>7. Hold(At(b, "word", y, h), <<>>) = At(b, "word", y, <<>>)
  BY AtHold
<1> HIDE DEF r
<1>8. Read(r, c) = InName(r, c)
  BY <1>3, ReadIs
<1>9. Cat(Cat(<<ASSIGN>>, r.held), <<IS>>) = x
  BY <1>2 DEF x
<1>10. ASSUME c \in NameChar PROVE Read(r, c) = Hold(r, Append(h, c))
  <2>1. c # EQUAL
    BY <1>10 DEF NameChar, NameStart, Letter, Digit, UNDERSCORE, EQUAL
  <2>2. QED
    BY <1>2, <1>8, <1>10, <2>1 DEF InName
<1>11. ASSUME c = EQUAL PROVE Read(r, c) = Hold(Turn(Get(r, x), "word"), <<>>)
  <2>1. c \notin NameChar
    BY <1>11 DEF NameChar, NameStart, Letter, Digit, UNDERSCORE, EQUAL
  <2>2. InName(r, c) = Hold(Turn(Get(r, Cat(Cat(<<ASSIGN>>, r.held), <<IS>>)), "word"), <<>>)
    BY <1>11, <2>1 DEF InName, Cat
  <2>3. QED
    BY <1>8, <1>9, <2>2
<1>12. QED
  BY <1>4, <1>5, <1>6, <1>7, <1>10, <1>11 DEF r, x, y

LEMMA AnsiEnd ==
    ASSUME NEW b \in Stack, NEW l \in Modes, NEW g, NEW h
    PROVE  Read(At(Append(b, l), "ansi", g, h), SQ) = At(b, l, g, h)
<1> DEFINE d == Append(b, l)
           r == At(d, "ansi", g, h)
<1>1. d \in Stack /\ "ansi" \in Modes
  BY StackIs, ModesAre
<1>2. Leave(r) = At(b, l, g, h)
  BY <1>1, AtLeave
<1> HIDE DEF d
<1>3. Mode(r) = "ansi"
  BY <1>1, AtMode
<1> HIDE DEF r
<1>4. Read(r, SQ) = InAnsi(r, SQ)
  BY <1>3, ReadIs
<1>5. SQ # BS
  BY DEF SQ, BS
<1>6. QED
  BY <1>2, <1>4, <1>5 DEF InAnsi, r, d

LEMMA AnsiEscape ==
    ASSUME NEW b \in Stack, NEW g, NEW h
    PROVE  Read(At(b, "ansi", g, h), BS) = At(Append(b, "ansi"), "ansi_escape", g, h)
<1> DEFINE r == At(b, "ansi", g, h)
<1>1. "ansi" \in Modes
  BY ModesAre
<1>2. Enter(r, "ansi_escape") = At(Append(b, "ansi"), "ansi_escape", g, h)
  BY AtEnter
<1>3. Mode(r) = "ansi"
  BY <1>1, AtMode
<1> HIDE DEF r
<1>4. Read(r, BS) = InAnsi(r, BS)
  BY <1>3, ReadIs
<1>5. SQ # BS
  BY DEF SQ, BS
<1>6. QED
  BY <1>2, <1>4, <1>5 DEF InAnsi, r

LEMMA ReadAnsiEscape ==
    ASSUME NEW b \in Stack, NEW g, NEW h
    PROVE  Read(At(b, "ansi_escape", g, h), HEX_X) = At(b, "hex", g, h)
<1> DEFINE r == At(b, "ansi_escape", g, h)
<1>1. "ansi_escape" \in Modes /\ "hex" \in Modes
  BY ModesAre
<1>2. Turn(r, "hex") = At(b, "hex", g, h)
  BY <1>1, AtTurn
<1>3. Mode(r) = "ansi_escape"
  BY <1>1, AtMode
<1> HIDE DEF r
<1>4. Read(r, HEX_X) = InAnsiEscape(r, HEX_X)
  BY <1>3, ReadIs
<1>5. QED
  BY <1>2, <1>4 DEF InAnsiEscape, r

\* The two digits of a byte.
LEMMA HexFirst ==
    ASSUME NEW b \in Stack, NEW g, NEW c, HexValue(c) # 256
    PROVE  Read(At(b, "hex", g, <<>>), c) = At(b, "hex", g, <<HexValue(c)>>)
<1> DEFINE r == At(b, "hex", g, <<>>)
<1>1. "hex" \in Modes
  BY ModesAre
<1>2. r.held = <<>>
  BY DEF At
<1>3. Hold(r, <<HexValue(c)>>) = At(b, "hex", g, <<HexValue(c)>>)
  BY AtHold
<1>4. Mode(r) = "hex"
  BY <1>1, AtMode
<1> HIDE DEF r
<1>5. Read(r, c) = InHex(r, c)
  BY <1>4, ReadIs
<1>6. Read(r, c) = Hold(r, <<HexValue(c)>>)
  BY <1>2, <1>5 DEF InHex
<1>7. QED
  BY <1>3, <1>6 DEF r

LEMMA HexSecond ==
    ASSUME NEW b \in Stack, NEW l \in Modes, NEW g, NEW v, NEW c, HexValue(c) # 256
    PROVE  Read(At(Append(b, l), "hex", g, <<v>>), c) = At(b, l, Cat(g, <<v * 16 + HexValue(c)>>), <<>>)
<1> DEFINE d == Append(b, l)
           s == At(d, "hex", g, <<v>>)
           x == <<v * 16 + HexValue(c)>>
           y == Cat(g, x)
<1>1. d \in Stack /\ "hex" \in Modes
  BY StackIs, ModesAre
<1>2. s.held = <<v>> /\ s.held[1] = v /\ s.held # <<>>
  BY DEF At
<1>3. Mode(s) = "hex"
  BY <1>1, AtMode
<1>4. Leave(At(d, "hex", y, <<>>)) = At(b, l, y, <<>>)
  BY <1>1, AtLeave
<1> HIDE DEF d, x
<1>5. Get(s, x) = At(d, "hex", y, <<v>>)
  BY AtGet
<1> HIDE DEF y
<1>6. Hold(At(d, "hex", y, <<v>>), <<>>) = At(d, "hex", y, <<>>)
  BY AtHold
<1> HIDE DEF s
<1>7. Read(s, c) = InHex(s, c)
  BY <1>3, ReadIs
<1>8. Read(s, c) = Leave(Hold(Get(s, x), <<>>))
  <2>1. InHex(s, c) = Leave(Hold(Get(s, <<s.held[1] * 16 + HexValue(c)>>), <<>>))
    BY <1>2 DEF InHex
  <2>2. <<s.held[1] * 16 + HexValue(c)>> = x
    BY <1>2 DEF x
  <2>3. QED
    BY <1>7, <2>1, <2>2
<1>9. QED
  BY <1>4, <1>5, <1>6, <1>8 DEF s, d, x, y

\* After the first character of an operator.
LEMMA ReadAnd ==
    ASSUME NEW b \in Stack, NEW g, NEW h
    PROVE  /\ Read(At(b, "and", g, h), AMP) = At(b, "gap", Cat(g, <<AND_IF>>), h)
           /\ Read(At(b, "and", g, h), SPACE) = At(b, "gap", Cat(g, <<DETACH>>), h)
<1> DEFINE r == At(b, "and", g, h)
           y == Cat(g, <<AND_IF>>)
           z == Cat(g, <<DETACH>>)
<1>1. "and" \in Modes /\ "gap" \in Modes
  BY ModesAre
<1>2. Get(r, <<AND_IF>>) = At(b, "and", y, h) /\ Get(r, <<DETACH>>) = At(b, "and", z, h)
  BY AtGet
<1> HIDE DEF y, z
<1>3. Turn(At(b, "and", y, h), "gap") = At(b, "gap", y, h)
  BY <1>1, AtTurn
<1>4. Turn(At(b, "and", z, h), "gap") = At(b, "gap", z, h)
  BY <1>1, AtTurn
<1>5. InGap(At(b, "gap", z, h), SPACE) = At(b, "gap", z, h)
  BY GapSpace
<1>6. Mode(r) = "and"
  BY <1>1, AtMode
<1> HIDE DEF r
<1>7. Read(r, AMP) = AfterAmp(r, AMP) /\ Read(r, SPACE) = AfterAmp(r, SPACE) /\ SPACE # AMP
  <2>1. Read(r, AMP) = AfterAmp(r, AMP)
    BY <1>6, ReadIs
  <2>2. Read(r, SPACE) = AfterAmp(r, SPACE)
    BY <1>6, ReadIs
  <2>3. SPACE # AMP
    BY DEF SPACE, AMP
  <2>4. QED
    BY <2>1, <2>2, <2>3
<1>8. Read(r, AMP) = Turn(Get(r, <<AND_IF>>), "gap")
  BY <1>7 DEF AfterAmp
<1>9. Read(r, SPACE) = InGap(Turn(Get(r, <<DETACH>>), "gap"), SPACE)
  BY <1>7 DEF AfterAmp
<1>10. QED
  BY <1>2, <1>3, <1>4, <1>5, <1>8, <1>9 DEF r, y, z

LEMMA ReadOr ==
    ASSUME NEW b \in Stack, NEW g, NEW h
    PROVE  /\ Read(At(b, "or", g, h), BAR) = At(b, "gap", Cat(g, <<OR_IF>>), h)
           /\ Read(At(b, "or", g, h), SPACE) = At(b, "gap", Cat(g, <<PIPED>>), h)
<1> DEFINE r == At(b, "or", g, h)
           y == Cat(g, <<OR_IF>>)
           z == Cat(g, <<PIPED>>)
<1>1. "or" \in Modes /\ "gap" \in Modes
  BY ModesAre
<1>2. Get(r, <<OR_IF>>) = At(b, "or", y, h) /\ Get(r, <<PIPED>>) = At(b, "or", z, h)
  BY AtGet
<1> HIDE DEF y, z
<1>3. Turn(At(b, "or", y, h), "gap") = At(b, "gap", y, h)
  BY <1>1, AtTurn
<1>4. Turn(At(b, "or", z, h), "gap") = At(b, "gap", z, h)
  BY <1>1, AtTurn
<1>5. InGap(At(b, "gap", z, h), SPACE) = At(b, "gap", z, h)
  BY GapSpace
<1>6. Mode(r) = "or"
  BY <1>1, AtMode
<1> HIDE DEF r
<1>7. Read(r, BAR) = AfterBar(r, BAR) /\ Read(r, SPACE) = AfterBar(r, SPACE) /\ SPACE # BAR
  <2>1. Read(r, BAR) = AfterBar(r, BAR)
    BY <1>6, ReadIs
  <2>2. Read(r, SPACE) = AfterBar(r, SPACE)
    BY <1>6, ReadIs
  <2>3. SPACE # BAR
    BY DEF SPACE, BAR
  <2>4. QED
    BY <2>1, <2>2, <2>3
<1>8. Read(r, BAR) = Turn(Get(r, <<OR_IF>>), "gap")
  BY <1>7 DEF AfterBar
<1>9. Read(r, SPACE) = InGap(Turn(Get(r, <<PIPED>>), "gap"), SPACE)
  BY <1>7 DEF AfterBar
<1>10. QED
  BY <1>2, <1>3, <1>4, <1>5, <1>8, <1>9 DEF r, y, z

\* A quote begins the path a redirection goes to.
LEMMA TargetQuote ==
    ASSUME NEW b \in Stack, NEW g, NEW h, NEW c \in Quotes
    PROVE  InTarget(At(b, "target", g, h), c) = At(Append(b, "word"), Inside(c), Cat(g, <<PATH>>), h)
<1> DEFINE r == At(b, "target", g, h)
           y == Cat(g, <<PATH>>)
<1>1. "target" \in Modes /\ "word" \in Modes
  BY ModesAre
<1>2. Get(r, <<PATH>>) = At(b, "target", y, h)
  BY AtGet
<1> HIDE DEF y
<1>3. Turn(At(b, "target", y, h), "word") = At(b, "word", y, h)
  BY <1>1, AtTurn
<1>4. InWord(At(b, "word", y, h), c) = At(Append(b, "word"), Inside(c), y, h)
  BY InWordAt
<1> HIDE DEF r
<1>5. InTarget(r, c) = InWord(Turn(Get(r, <<PATH>>), "word"), c)
  <2>1. c # SPACE
    BY DEF Quotes, SQ, DQ, SPACE
  <2>2. QED
    BY <2>1 DEF InTarget
<1>6. InTarget(r, c) = At(Append(b, "word"), Inside(c), y, h)
  BY <1>2, <1>3, <1>4, <1>5
<1>7. QED
  BY <1>6 DEF r, y

LEMMA ReadTarget ==
    ASSUME NEW b \in Stack, NEW g, NEW h, NEW c \in Quotes
    PROVE  Read(At(b, "target", g, h), c) = At(Append(b, "word"), Inside(c), Cat(g, <<PATH>>), h)
<1> DEFINE r == At(b, "target", g, h)
<1>1. "target" \in Modes
  BY ModesAre
<1>2. Mode(r) = "target"
  BY <1>1, AtMode
<1>3. InTarget(r, c) = At(Append(b, "word"), Inside(c), Cat(g, <<PATH>>), h)
  BY TargetQuote
<1> HIDE DEF r
<1>4. Read(r, c) = InTarget(r, c)
  BY <1>2, ReadIs
<1>5. QED
  BY <1>3, <1>4 DEF r

LEMMA ReadLess ==
    ASSUME NEW b \in Stack, NEW g, NEW h, NEW c
    PROVE  /\ c = GREATER =>
                  Read(At(b, "less", g, h), c) = At(b, "target", Cat(g, <<READ_WRITE>>), h)
           /\ c = AMP => Read(At(b, "less", g, h), c) = At(b, "dup", Cat(g, <<READ, DUP>>), h)
           /\ c \in Quotes => Read(At(b, "less", g, h), c)
                              = At(Append(b, "word"), Inside(c), Cat(Cat(g, <<READ>>), <<PATH>>), h)
<1> DEFINE r == At(b, "less", g, h)
           x == Cat(g, <<READ_WRITE>>)
           y == Cat(g, <<READ, DUP>>)
           z == Cat(g, <<READ>>)
           end == At(Append(b, "word"), Inside(c), Cat(z, <<PATH>>), h)
<1>1. "less" \in Modes /\ "target" \in Modes /\ "dup" \in Modes
  BY ModesAre
<1>2. Get(r, <<READ_WRITE>>) = At(b, "less", x, h)
  BY AtGet
<1>3. Get(r, <<READ, DUP>>) = At(b, "less", y, h)
  BY AtGet
<1>4. Get(r, <<READ>>) = At(b, "less", z, h)
  BY AtGet
<1> HIDE DEF x, y, z
<1>5. /\ Turn(At(b, "less", x, h), "target") = At(b, "target", x, h)
      /\ Turn(At(b, "less", y, h), "dup") = At(b, "dup", y, h)
      /\ Turn(At(b, "less", z, h), "target") = At(b, "target", z, h)
  BY <1>1, AtTurn
<1>6. c \in Quotes => InTarget(At(b, "target", z, h), c) = end
  BY TargetQuote
<1>7. Mode(r) = "less"
  BY <1>1, AtMode
<1> HIDE DEF r, end
<1>8. Read(r, c) = AfterLess(r, c)
  BY <1>7, ReadIs
<1>9. ASSUME c = GREATER PROVE Read(r, c) = Turn(Get(r, <<READ_WRITE>>), "target")
  <2>1. c # AMP /\ c # LESS
    BY <1>9 DEF GREATER, AMP, LESS
  <2>2. QED
    BY <1>8, <1>9, <2>1 DEF AfterLess
<1>10. ASSUME c = AMP PROVE Read(r, c) = Turn(Get(r, <<READ, DUP>>), "dup")
  <2>1. c # GREATER /\ c # LESS
    BY <1>10 DEF GREATER, AMP, LESS
  <2>2. QED
    BY <1>8, <1>10, <2>1 DEF AfterLess
<1>11. ASSUME c \in Quotes PROVE Read(r, c) = InTarget(Turn(Get(r, <<READ>>), "target"), c)
  <2>1. c # GREATER /\ c # LESS /\ c # AMP
    BY <1>11 DEF GREATER, AMP, LESS, Quotes, SQ, DQ
  <2>2. QED
    BY <1>8, <2>1 DEF AfterLess
<1>12. c \in Quotes => Read(r, c) = end
  BY <1>4, <1>5, <1>6, <1>11
<1>13. QED
  BY <1>2, <1>3, <1>5, <1>9, <1>10, <1>12 DEF r, x, y, z, end

LEMMA ReadGreater ==
    ASSUME NEW b \in Stack, NEW g, NEW h, NEW c
    PROVE  /\ c = GREATER =>
                  Read(At(b, "greater", g, h), c) = At(b, "target", Cat(g, <<APPEND>>), h)
           /\ c = AMP => Read(At(b, "greater", g, h), c) = At(b, "dup", Cat(g, <<WRITE, DUP>>), h)
           /\ c \in Quotes => Read(At(b, "greater", g, h), c)
                              = At(Append(b, "word"), Inside(c), Cat(Cat(g, <<WRITE>>), <<PATH>>), h)
<1> DEFINE r == At(b, "greater", g, h)
           x == Cat(g, <<APPEND>>)
           y == Cat(g, <<WRITE, DUP>>)
           z == Cat(g, <<WRITE>>)
           end == At(Append(b, "word"), Inside(c), Cat(z, <<PATH>>), h)
<1>1. "greater" \in Modes /\ "target" \in Modes /\ "dup" \in Modes
  BY ModesAre
<1>2. Get(r, <<APPEND>>) = At(b, "greater", x, h)
  BY AtGet
<1>3. Get(r, <<WRITE, DUP>>) = At(b, "greater", y, h)
  BY AtGet
<1>4. Get(r, <<WRITE>>) = At(b, "greater", z, h)
  BY AtGet
<1> HIDE DEF x, y, z
<1>5. /\ Turn(At(b, "greater", x, h), "target") = At(b, "target", x, h)
      /\ Turn(At(b, "greater", y, h), "dup") = At(b, "dup", y, h)
      /\ Turn(At(b, "greater", z, h), "target") = At(b, "target", z, h)
  BY <1>1, AtTurn
<1>6. c \in Quotes => InTarget(At(b, "target", z, h), c) = end
  BY TargetQuote
<1>7. Mode(r) = "greater"
  BY <1>1, AtMode
<1> HIDE DEF r, end
<1>8. Read(r, c) = AfterGreater(r, c)
  BY <1>7, ReadIs
<1>9. ASSUME c = GREATER PROVE Read(r, c) = Turn(Get(r, <<APPEND>>), "target")
  <2>1. c # AMP
    BY <1>9 DEF GREATER, AMP
  <2>2. QED
    BY <1>8, <1>9, <2>1 DEF AfterGreater
<1>10. ASSUME c = AMP PROVE Read(r, c) = Turn(Get(r, <<WRITE, DUP>>), "dup")
  <2>1. c # GREATER
    BY <1>10 DEF GREATER, AMP
  <2>2. QED
    BY <1>8, <1>10, <2>1 DEF AfterGreater
<1>11. ASSUME c \in Quotes PROVE Read(r, c) = InTarget(Turn(Get(r, <<WRITE>>), "target"), c)
  <2>1. c # GREATER /\ c # AMP
    BY <1>11 DEF GREATER, AMP, Quotes, SQ, DQ
  <2>2. QED
    BY <1>8, <2>1 DEF AfterGreater
<1>12. c \in Quotes => Read(r, c) = end
  BY <1>4, <1>5, <1>6, <1>11
<1>13. QED
  BY <1>2, <1>3, <1>5, <1>9, <1>10, <1>12 DEF r, x, y, z, end

LEMMA ReadDup ==
    ASSUME NEW b \in Stack, NEW g, NEW h, NEW c
    PROVE  /\ c \in Digit => Read(At(b, "dup", g, h), c) = At(b, "dup", Cat(g, <<c>>), h)
           /\ c = SPACE => Read(At(b, "dup", g, h), c) = At(b, "gap", g, h)
<1> DEFINE r == At(b, "dup", g, h)
<1>1. "dup" \in Modes /\ "gap" \in Modes
  BY ModesAre
<1>2. Get(r, <<c>>) = At(b, "dup", Cat(g, <<c>>), h)
  BY AtGet
<1>3. Turn(r, "gap") = At(b, "gap", g, h)
  BY <1>1, AtTurn
<1>4. Mode(r) = "dup"
  BY <1>1, AtMode
<1> HIDE DEF r
<1>5. Read(r, c) = InDup(r, c)
  BY <1>4, ReadIs
<1>6. c \in Digit => c # SPACE
  BY DEF Digit, SPACE
<1>7. c \in Digit => Read(r, c) = Get(r, <<c>>)
  BY <1>5, <1>6 DEF InDup
<1>8. c = SPACE => Read(r, c) = Turn(r, "gap")
  BY <1>5, <1>6 DEF InDup
<1>9. QED
  BY <1>2, <1>3, <1>7, <1>8 DEF r

-----------------------------------------------------------------------------
(***************************************************************************)
(* A text carries a meaning in a place: wherever a reader in that place    *)
(* comes upon the text, it adds the meaning to what it has read, and is in *)
(* the same place again.                                                   *)
(***************************************************************************)
Carries(b, m, text, meaning) ==
    \A g \in Seq(Int) : Reads(At(b, m, g, <<>>), text, At(b, m, Cat(g, meaning), <<>>))

LEMMA CarriesNothing ==
    ASSUME NEW b, NEW m
    PROVE  Carries(b, m, <<>>, <<>>)
<1> SUFFICES ASSUME NEW g \in Seq(Int)
             PROVE  Reads(At(b, m, g, <<>>), <<>>, At(b, m, Cat(g, <<>>), <<>>))
  BY DEF Carries
<1> DEFINE x == Cat(g, <<>>)
<1>1. x = g
  BY CatNothing
<1> HIDE DEF x
<1>2. Reads(At(b, m, g, <<>>), <<>>, At(b, m, g, <<>>))
  BY ReadsNothing
<1>3. Reads(At(b, m, g, <<>>), <<>>, At(b, m, x, <<>>))
  BY <1>1, <1>2
<1>4. QED
  BY <1>3 DEF x

LEMMA CarriesCat ==
    ASSUME NEW b, NEW m, NEW s \in Seq(Int), NEW t \in Seq(Int), NEW p \in Seq(Int), NEW q \in Seq(Int),
           Carries(b, m, s, p), Carries(b, m, t, q)
    PROVE  Carries(b, m, Cat(s, t), Cat(p, q))
<1> SUFFICES ASSUME NEW g \in Seq(Int)
             PROVE  Reads(At(b, m, g, <<>>), Cat(s, t), At(b, m, Cat(g, Cat(p, q)), <<>>))
  BY DEF Carries
<1> DEFINE x == Cat(g, p)
           y == Cat(x, q)
<1>1. x \in Seq(Int)
  BY CatSeq
<1>2. y = Cat(g, Cat(p, q))
  BY CatCat
<1>3. Reads(At(b, m, g, <<>>), s, At(b, m, x, <<>>))
  BY DEF Carries
<1> HIDE DEF x
<1>4. Reads(At(b, m, x, <<>>), t, At(b, m, y, <<>>))
  BY <1>1 DEF Carries
<1> HIDE DEF y
<1>5. Reads(At(b, m, g, <<>>), Cat(s, t), At(b, m, y, <<>>))
  BY <1>3, <1>4, ReadsCat
<1>6. QED
  BY <1>2, <1>5

LEMMA FlattenType ==
    ASSUME NEW S, NEW seqs \in Seq(Seq(S))
    PROVE  FlattenSeq(seqs) \in Seq(S)
<1> DEFINE n == Len(seqs)
<1>1. n \in Nat /\ n \in 0..n
  OBVIOUS
<1>2. PICK f : Joins(f, seqs, n, S)
  BY JoinsExists
<1>3. FlattenSeq(seqs) = f[n]
  BY <1>2, FlattenJoins
<1>4. f \in [0..n -> Seq(S)]
  BY <1>2 DEF Joins
<1> HIDE DEF n
<1>5. QED
  BY <1>1, <1>3, <1>4

\* Texts carry their meanings one after the other.
LEMMA FlattenCarries ==
    ASSUME NEW b, NEW m, NEW texts \in Seq(Seq(Int)), NEW meanings \in Seq(Seq(Int)),
           Len(texts) = Len(meanings),
           \A i \in 1..Len(texts) : Carries(b, m, texts[i], meanings[i])
    PROVE  Carries(b, m, FlattenSeq(texts), FlattenSeq(meanings))
<1> DEFINE n == Len(texts)
<1>1. /\ n \in Nat /\ Len(meanings) = n
      /\ \A i \in 1..n : texts[i] \in Seq(Int) /\ meanings[i] \in Seq(Int)
  OBVIOUS
<1>2. PICK f : Joins(f, texts, n, Int)
  BY JoinsExists
<1>3. PICK h : Joins(h, meanings, n, Int)
  BY <1>1, JoinsExists
<1>4. FlattenSeq(texts) = f[n] /\ FlattenSeq(meanings) = h[n]
  BY <1>1, <1>2, <1>3, FlattenJoins
<1>5. \A i \in 1..n : Carries(b, m, texts[i], meanings[i])
  OBVIOUS
<1>6. /\ \A i \in 0..n : f[i] \in Seq(Int) /\ h[i] \in Seq(Int)
      /\ f[0] = <<>> /\ h[0] = <<>>
      /\ \A i \in 1..n : f[i] = Cat(f[i - 1], texts[i]) /\ h[i] = Cat(h[i - 1], meanings[i])
  BY <1>2, <1>3 DEF Joins
<1> DEFINE G == {i \in 0..n : Carries(b, m, f[i], h[i])}
<1> HIDE DEF n
<1>7. 0 \in G
  <2>1. Carries(b, m, f[0], h[0])
    BY <1>6, CarriesNothing
  <2>2. QED
    BY <1>1, <2>1
<1>8. ASSUME NEW i \in 1..n, i - 1 \in G PROVE i \in G
  <2>1. i - 1 \in 0..n /\ i \in 0..n
    BY <1>1
  <2> DEFINE s == f[i - 1]
             p == h[i - 1]
             t == texts[i]
             q == meanings[i]
  <2>2. s \in Seq(Int) /\ p \in Seq(Int) /\ t \in Seq(Int) /\ q \in Seq(Int)
    BY <1>1, <1>6, <2>1
  <2>3. Carries(b, m, s, p) /\ Carries(b, m, t, q)
    BY <1>5, <1>8
  <2>4. f[i] = Cat(s, t) /\ h[i] = Cat(p, q)
    BY <1>6
  <2> HIDE DEF s, p, t, q
  <2>5. Carries(b, m, Cat(s, t), Cat(p, q))
    BY <2>2, <2>3, CarriesCat
  <2>6. QED
    BY <2>1, <2>4, <2>5
<1>9. n \in G
  <2>1. \A i \in 1..n : i - 1 \in G => i \in G
    BY <1>8
  <2> HIDE DEF G
  <2>2. \A i \in 0..n : i \in G
    BY <1>1, <1>7, <2>1, EveryPlace
  <2>3. QED
    BY <1>1, <2>2
<1>10. QED
  BY <1>4, <1>9

\* A sequence is its items in turn.
LEMMA Singles ==
    ASSUME NEW S, NEW s \in Seq(S)
    PROVE  /\ [i \in DOMAIN s |-> <<s[i]>>] \in Seq(Seq(S))
           /\ FlattenSeq([i \in DOMAIN s |-> <<s[i]>>]) = s
<1> DEFINE n == Len(s)
           seqs == [i \in DOMAIN s |-> <<s[i]>>]
           f == [k \in 0..n |-> SubSeq(s, 1, k)]
<1>1. n \in Nat /\ n \in 0..n /\ DOMAIN s = 1..n /\ \A i \in 1..n : s[i] \in S
  OBVIOUS
<1>2. seqs \in Seq(Seq(S)) /\ Len(seqs) = n /\ \A i \in 1..n : seqs[i] = <<s[i]>>
  <2>1. \A i \in 1..n : <<s[i]>> \in Seq(S)
    BY <1>1
  <2>2. seqs = [i \in 1..n |-> <<s[i]>>]
    BY <1>1
  <2> HIDE DEF n
  <2>3. seqs \in [1..n -> Seq(S)]
    BY <2>1, <2>2
  <2> HIDE DEF seqs
  <2>4. seqs \in Seq(Seq(S)) /\ Len(seqs) = n
    BY <1>1, <2>3
  <2>5. QED
    BY <2>2, <2>4
<1>3. f \in [0..n -> Seq(S)] /\ f[0] = <<>> /\ f[n] = s
  OBVIOUS
<1>4. ASSUME NEW i \in 1..n PROVE f[i] = Cat(f[i - 1], seqs[i])
  <2> DEFINE x == SubSeq(s, 1, i - 1)
             y == SubSeq(s, 1, i)
             e == s[i]
             z == Append(x, e)
  <2>1. i \in 0..n /\ i - 1 \in 0..n /\ i \in Nat /\ e \in S
    BY <1>1
  <2>2. f[i] = y /\ f[i - 1] = x
    BY <2>1
  <2>3. x \in Seq(S) /\ Len(x) = i - 1 /\ \A j \in 1..(i - 1) : x[j] = s[j]
    BY <1>1, <2>1
  <2>4. y \in Seq(S) /\ Len(y) = i /\ \A j \in 1..i : y[j] = s[j]
    BY <1>1, <2>1
  <2>5. s[i] = e
    OBVIOUS
  <2> HIDE DEF x, y, e
  <2>6. z \in Seq(S) /\ Len(z) = i /\ z[i] = e /\ \A j \in 1..(i - 1) : z[j] = x[j]
    BY <2>1, <2>3
  <2> HIDE DEF z
  <2>7. \A j \in 1..i : y[j] = z[j]
    <3>1. \A j \in 1..i : j = i \/ j \in 1..(i - 1)
      BY <2>1
    <3>2. QED
      BY <2>3, <2>4, <2>5, <2>6, <3>1
  <2>8. y = z
    BY <2>4, <2>6, <2>7, SeqEqual
  <2>9. z = Cat(x, <<e>>)
    BY <2>1, <2>3 DEF Cat, z
  <2>10. QED
    BY <1>2, <2>2, <2>5, <2>8, <2>9
<1> HIDE DEF f, seqs, n
<1>5. Joins(f, seqs, n, S)
  BY <1>3, <1>4 DEF Joins
<1>6. FlattenSeq(seqs) = s
  BY <1>2, <1>3, <1>5, FlattenJoins
<1>7. QED
  BY <1>2, <1>6 DEF seqs

-----------------------------------------------------------------------------
(***************************************************************************)
(* Between the quotes.  A text stands for a meaning there when it carries  *)
(* it in every word, however deep in substitutions the word is.            *)
(***************************************************************************)
Quotings == {"Single", "Double"}

StandsFor(surr, text, meaning) ==
    \A b \in Stack : Carries(Append(b, "word"), Inside(Quote(surr)), text, meaning)

LEMMA Insides == Inside(Quote("Single")) = "single" /\ Inside(Quote("Double")) = "double"
BY DEF Inside, Quote, SQ, DQ

LEMMA NothingStands == ASSUME NEW surr PROVE StandsFor(surr, <<>>, <<>>)
BY CarriesNothing DEF StandsFor

LEMMA CatStands ==
    ASSUME NEW surr, NEW s \in Seq(Int), NEW t \in Seq(Int), NEW p \in Seq(Int), NEW q \in Seq(Int),
           StandsFor(surr, s, p), StandsFor(surr, t, q)
    PROVE  StandsFor(surr, Cat(s, t), Cat(p, q))
<1> DEFINE m == Inside(Quote(surr))
           u == Cat(s, t)
           v == Cat(p, q)
<1>1. ASSUME NEW b \in Stack PROVE Carries(Append(b, "word"), m, u, v)
  <2> DEFINE d == Append(b, "word")
  <2>1. Carries(d, m, s, p) /\ Carries(d, m, t, q)
    BY DEF StandsFor
  <2> HIDE DEF d, m
  <2>2. Carries(d, m, u, v)
    BY <2>1, CarriesCat
  <2>3. QED
    BY <2>2 DEF d
<1> HIDE DEF u, v
<1>2. StandsFor(surr, u, v)
  BY <1>1 DEF StandsFor
<1>3. QED
  BY <1>2 DEF u, v

LEMMA FlattenStands ==
    ASSUME NEW surr, NEW texts \in Seq(Seq(Int)), NEW meanings \in Seq(Seq(Int)),
           Len(texts) = Len(meanings),
           \A i \in 1..Len(texts) : StandsFor(surr, texts[i], meanings[i])
    PROVE  StandsFor(surr, FlattenSeq(texts), FlattenSeq(meanings))
<1> DEFINE m == Inside(Quote(surr))
<1>1. ASSUME NEW b \in Stack PROVE Carries(Append(b, "word"), m, FlattenSeq(texts), FlattenSeq(meanings))
  <2> DEFINE d == Append(b, "word")
  <2>1. \A i \in 1..Len(texts) : Carries(d, m, texts[i], meanings[i])
    BY DEF StandsFor
  <2> HIDE DEF d, m
  <2>2. Carries(d, m, FlattenSeq(texts), FlattenSeq(meanings))
    BY <2>1, FlattenCarries
  <2>3. QED
    BY <2>2 DEF d
<1>2. QED
  BY <1>1 DEF StandsFor

\* '\'' is a quote between single quotes, every other character is itself.
LEMMA SingleCharacter ==
    ASSUME NEW c \in Int
    PROVE  escape_char_single(c) \in Seq(Int) /\ StandsFor("Single", escape_char_single(c), <<c>>)
<1>1. escape_char_single(c) \in Seq(Int)
  BY DEF escape_char_single, OutAndIn, SQ, BS
<1>2. ASSUME NEW b \in Stack, NEW g \in Seq(Int)
      PROVE  Reads(At(Append(b, "word"), "single", g, <<>>), escape_char_single(c),
                   At(Append(b, "word"), "single", Cat(g, <<c>>), <<>>))
  <2> DEFINE d == Append(b, "word")
             y == Cat(g, <<c>>)
             r == At(d, "single", g, <<>>)
             q == At(d, "single", y, <<>>)
  <2>1. "word" \in Modes
    BY ModesAre
  <2>2. CASE c # SQ
    <3>1. Read(r, c) = q
      <4>1. d \in Stack
        BY <2>1, StackIs
      <4> HIDE DEF d
      <4>2. QED
        BY <2>2, <4>1, SingleGoesOn
    <3> HIDE DEF r, q
    <3>2. Reads(r, <<c>>, q)
      BY <3>1, ReadsOne
    <3>3. QED
      BY <2>2, <3>2 DEF escape_char_single, r, q
  <2>3. CASE c = SQ
    <3> DEFINE n == At(b, "word", g, <<>>)
               o == At(d, "escape", g, <<>>)
               p == At(b, "word", y, <<>>)
    <3>1. Read(r, SQ) = n
      BY <2>1, SingleEnd
    <3>2. Read(n, BS) = o
      BY ReadWord
    <3>3. Read(o, SQ) = p
      BY <2>1, <2>3, ReadEscape
    <3>4. Read(p, SQ) = q
      BY ReadWord DEF Quotes, Inside
    <3> HIDE DEF n, o, p, r, q
    <3>5. SQ \in Int /\ BS \in Int
      BY DEF SQ, BS
    <3>6. Reads(r, <<SQ, BS, SQ, SQ>>, q)
      BY <3>1, <3>2, <3>3, <3>4, <3>5, ReadsFour
    <3>7. QED
      BY <2>3, <3>6 DEF escape_char_single, OutAndIn, r, q
  <2>4. QED
    BY <2>2, <2>3
<1>3. StandsFor("Single", escape_char_single(c), <<c>>)
  BY <1>2, Insides DEF StandsFor, Carries
<1>4. QED
  BY <1>1, <1>3

\* A backslash takes the meaning from what has one between double quotes.
LEMMA DoubleCharacter ==
    ASSUME NEW c \in Int
    PROVE  escape_char_double(c) \in Seq(Int) /\ StandsFor("Double", escape_char_double(c), <<c>>)
<1>1. escape_char_double(c) \in Seq(Int)
  BY DEF escape_char_double, BS
<1>2. ASSUME NEW b \in Stack, NEW g \in Seq(Int)
      PROVE  Reads(At(Append(b, "word"), "double", g, <<>>), escape_char_double(c),
                   At(Append(b, "word"), "double", Cat(g, <<c>>), <<>>))
  <2> DEFINE d == Append(b, "word")
             y == Cat(g, <<c>>)
             r == At(d, "double", g, <<>>)
             q == At(d, "double", y, <<>>)
  <2>1. "word" \in Modes /\ "double" \in Modes
    BY ModesAre
  <2>2. CASE c \notin Special
    <3>1. Read(r, c) = q
      <4>1. d \in Stack
        BY <2>1, StackIs
      <4> HIDE DEF d
      <4>2. QED
        BY <2>2, <4>1, DoubleGoesOn
    <3> HIDE DEF r, q
    <3>2. Reads(r, <<c>>, q)
      BY <3>1, ReadsOne
    <3>3. QED
      BY <2>2, <3>2 DEF escape_char_double, r, q
  <2>3. CASE c \in Special
    <3> DEFINE p == At(Append(d, "double"), "escape_in_double", g, <<>>)
    <3>1. d \in Stack
      BY <2>1, StackIs
    <3> HIDE DEF d
    <3>2. Read(r, BS) = p
      BY <3>1, DoubleEscape
    <3>3. Read(p, c) = q
      BY <2>1, <2>3, <3>1, ReadEscapeInDouble
    <3> HIDE DEF p, r, q
    <3>4. BS \in Int
      BY DEF BS
    <3>5. Reads(r, <<BS, c>>, q)
      BY <3>2, <3>3, <3>4, ReadsTwo
    <3>6. QED
      BY <2>3, <3>5 DEF escape_char_double, r, q, d
  <2>4. QED
    BY <2>2, <2>3
<1>3. StandsFor("Double", escape_char_double(c), <<c>>)
  BY <1>2, Insides DEF StandsFor, Carries
<1>4. QED
  BY <1>1, <1>3

LEMMA CharacterStands ==
    ASSUME NEW surr \in Quotings, NEW c \in Int
    PROVE  escape_char(surr, c) \in Seq(Int) /\ StandsFor(surr, escape_char(surr, c), <<c>>)
<1>1. surr = "Single" \/ surr = "Double"
  BY DEF Quotings
<1>2. CASE surr = "Single"
  BY <1>2, SingleCharacter DEF escape_char
<1>3. CASE surr = "Double"
  BY <1>3, DoubleCharacter DEF escape_char
<1>4. QED
  BY <1>1, <1>2, <1>3

\* Characters written each for itself, or after a backslash, are a string.
LEMMA EachStands ==
    ASSUME NEW surr, NEW s \in Seq(Int), NEW texts \in Seq(Seq(Int)), Len(texts) = Len(s),
           \A i \in 1..Len(s) : StandsFor(surr, texts[i], <<s[i]>>)
    PROVE  StandsFor(surr, FlattenSeq(texts), s)
<1> DEFINE n == Len(s)
           ones == [i \in DOMAIN s |-> <<s[i]>>]
<1>1. ones \in Seq(Seq(Int)) /\ FlattenSeq(ones) = s
  BY Singles
<1>2. Len(ones) = n /\ \A i \in 1..n : ones[i] = <<s[i]>>
  OBVIOUS
<1> HIDE DEF ones
<1>3. \A i \in 1..n : StandsFor(surr, texts[i], ones[i])
  BY <1>2
<1> HIDE DEF n
<1>4. Len(texts) = Len(ones) /\ \A i \in 1..Len(texts) : StandsFor(surr, texts[i], ones[i])
  BY <1>2, <1>3 DEF n
<1>5. StandsFor(surr, FlattenSeq(texts), FlattenSeq(ones))
  BY <1>1, <1>4, FlattenStands
<1>6. QED
  BY <1>1, <1>5

\* The text of a string is that of its characters.
LEMMA StringText ==
    ASSUME NEW surr \in Quotings, NEW s
    PROVE  escape_str(surr, s) = FlattenSeq([i \in DOMAIN s |-> escape_char(surr, s[i])])
<1>1. surr = "Single" \/ surr = "Double"
  BY DEF Quotings
<1>2. CASE surr = "Single"
  <2>1. surr # "Double"
    BY <1>2
  <2>2. \A c : escape_char(surr, c) = IF c = SQ THEN OutAndIn ELSE <<c>>
    BY <2>1 DEF escape_char, escape_char_single
  <2>3. [i \in DOMAIN s |-> escape_char(surr, s[i])]
        = [i \in DOMAIN s |-> IF s[i] = SQ THEN OutAndIn ELSE <<s[i]>>]
    BY <2>2
  <2>4. QED
    BY <2>1, <2>3 DEF escape_str, escape_str_single
<1>3. CASE surr = "Double"
  <2>1. \A c : escape_char(surr, c) = IF c \in Special THEN <<BS, c>> ELSE <<c>>
    BY <1>3 DEF escape_char, escape_char_double
  <2>2. [i \in DOMAIN s |-> escape_char(surr, s[i])]
        = [i \in DOMAIN s |-> IF s[i] \in Special THEN <<BS, s[i]>> ELSE <<s[i]>>]
    BY <2>1
  <2>3. QED
    BY <1>3, <2>2 DEF escape_str, escape_str_double
<1>4. QED
  BY <1>1, <1>2, <1>3

LEMMA StringStands ==
    ASSUME NEW surr \in Quotings, NEW s \in Seq(Int)
    PROVE  escape_str(surr, s) \in Seq(Int) /\ StandsFor(surr, escape_str(surr, s), s)
<1> DEFINE n == Len(s)
           texts == [i \in DOMAIN s |-> escape_char(surr, s[i])]
<1>1. \A i \in 1..n : s[i] \in Int
  OBVIOUS
<1>2. \A i \in 1..n :
          escape_char(surr, s[i]) \in Seq(Int) /\ StandsFor(surr, escape_char(surr, s[i]), <<s[i]>>)
  BY <1>1, CharacterStands
<1>3. n \in Nat /\ DOMAIN s = 1..n
  OBVIOUS
<1>4. texts = [i \in 1..n |-> escape_char(surr, s[i])]
  BY <1>3
<1>5. escape_str(surr, s) = FlattenSeq(texts)
  BY StringText
<1> HIDE DEF texts, n
<1>6. texts \in [1..n -> Seq(Int)] /\ \A i \in 1..n : StandsFor(surr, texts[i], <<s[i]>>)
  BY <1>2, <1>4
<1>7. texts \in Seq(Seq(Int)) /\ Len(texts) = n
  BY <1>3, <1>6
<1>8. StandsFor(surr, FlattenSeq(texts), s)
  BY <1>6, <1>7, EachStands DEF n
<1>9. FlattenSeq(texts) \in Seq(Int)
  BY <1>7, FlattenType
<1>10. QED
  BY <1>5, <1>8, <1>9

\* What is written raw, and has no character with a meaning in it, stands for itself.
Raw == Int \ (Special \cup {SQ})

LEMMA RawStands ==
    ASSUME NEW surr \in Quotings, NEW s \in Seq(Raw)
    PROVE  s \in Seq(Int) /\ StandsFor(surr, s, s)
<1> DEFINE n == Len(s)
           ones == [i \in DOMAIN s |-> <<s[i]>>]
<1>1. s \in Seq(Int)
  BY DEF Raw
<1>2. ones \in Seq(Seq(Int)) /\ FlattenSeq(ones) = s
  BY <1>1, Singles
<1>3. escape_str(surr, s) = FlattenSeq(ones)
  <2>1. \A i \in DOMAIN s : s[i] \in Raw
    OBVIOUS
  <2>2. \A i \in DOMAIN s : escape_char(surr, s[i]) = <<s[i]>>
    BY <2>1 DEF Raw, escape_char, escape_char_single, escape_char_double
  <2>3. [i \in DOMAIN s |-> escape_char(surr, s[i])] = ones
    BY <2>2
  <2> HIDE DEF ones
  <2>4. QED
    BY <2>3, StringText
<1> HIDE DEF ones
<1>4. QED
  BY <1>1, <1>2, <1>3, StringStands

-----------------------------------------------------------------------------
(***************************************************************************)
(* Arguments.  An argument is faithful when each of its texts is one, and  *)
(* stands for what the argument means unless it asks for the other quotes. *)
(***************************************************************************)
Faithful(a) ==
    /\ a.double \in BOOLEAN
    /\ a.meant \in Seq(Int)
    /\ \A surr \in Quotings : a.written[surr] \in Seq(Int)
    /\ \A surr \in Quotings :
           (a.double => surr = "Double") => StandsFor(surr, a.written[surr], a.meant)

LEMMA StrFaithful ==
    ASSUME NEW s \in Seq(Int)
    PROVE  Faithful(Str(s))
<1> DEFINE a == Str(s)
<1>1. a.double = FALSE /\ a.meant = s
  BY DEF Str
<1>2. a.written["Single"] = escape_str("Single", s) /\ a.written["Double"] = escape_str("Double", s)
  BY DEF Str, Both
<1> HIDE DEF a
<1>3. \A surr \in Quotings : a.written[surr] = escape_str(surr, s)
  BY <1>2 DEF Quotings
<1>4. \A surr \in Quotings : a.written[surr] \in Seq(Int) /\ StandsFor(surr, a.written[surr], s)
  BY <1>3, StringStands
<1>5. Faithful(a)
  BY <1>1, <1>4 DEF Faithful
<1>6. QED
  BY <1>5 DEF a

LEMMA CharFaithful ==
    ASSUME NEW c \in Int
    PROVE  Faithful(Char(c))
<1> DEFINE a == Char(c)
<1>1. a.double = FALSE /\ a.meant = <<c>>
  BY DEF Char
<1>2. a.written["Single"] = escape_char("Single", c) /\ a.written["Double"] = escape_char("Double", c)
  BY DEF Char, Both
<1> HIDE DEF a
<1>3. \A surr \in Quotings : a.written[surr] = escape_char(surr, c)
  BY <1>2 DEF Quotings
<1>4. \A surr \in Quotings : a.written[surr] \in Seq(Int) /\ StandsFor(surr, a.written[surr], <<c>>)
  BY <1>3, CharacterStands
<1>5. <<c>> \in Seq(Int)
  OBVIOUS
<1>6. Faithful(a)
  BY <1>1, <1>4, <1>5 DEF Faithful
<1>7. QED
  BY <1>6 DEF a

LEMMA DisplayFaithful ==
    ASSUME NEW pieces \in Seq(Seq(Int))
    PROVE  Faithful(Display(pieces))
<1> DEFINE a == Display(pieces)
           n == Len(pieces)
<1>1. a.double = FALSE /\ a.meant = FlattenSeq(pieces)
  BY DEF Display
<1>2. a.written["Single"] = escape_fmt("Single", pieces) /\ a.written["Double"] = escape_fmt("Double", pieces)
  BY DEF Display, Both
<1> HIDE DEF a
<1>3. \A surr \in Quotings : a.written[surr] = escape_fmt(surr, pieces)
  BY <1>2 DEF Quotings
<1>4. n \in Nat /\ DOMAIN pieces = 1..n /\ \A i \in 1..n : pieces[i] \in Seq(Int)
  OBVIOUS
<1>5. FlattenSeq(pieces) \in Seq(Int)
  BY FlattenType
<1>6. ASSUME NEW surr \in Quotings
      PROVE  escape_fmt(surr, pieces) \in Seq(Int)
             /\ StandsFor(surr, escape_fmt(surr, pieces), FlattenSeq(pieces))
  <2> DEFINE texts == [i \in 1..n |-> escape_str(surr, pieces[i])]
  <2>1. escape_fmt(surr, pieces) = FlattenSeq(texts)
    BY <1>4 DEF escape_fmt
  <2>2. \A i \in 1..n : escape_str(surr, pieces[i]) \in Seq(Int)
                        /\ StandsFor(surr, escape_str(surr, pieces[i]), pieces[i])
    BY <1>4, StringStands
  <2> HIDE DEF n
  <2>3. texts \in [1..n -> Seq(Int)] /\ \A i \in 1..n : StandsFor(surr, texts[i], pieces[i])
    BY <2>2
  <2> HIDE DEF texts
  <2>4. texts \in Seq(Seq(Int)) /\ Len(texts) = n
    BY <1>4, <2>3
  <2>5. StandsFor(surr, FlattenSeq(texts), FlattenSeq(pieces))
    BY <2>3, <2>4, FlattenStands DEF n
  <2>6. FlattenSeq(texts) \in Seq(Int)
    BY <2>4, FlattenType
  <2>7. QED
    BY <2>1, <2>5, <2>6
<1>7. \A surr \in Quotings :
          a.written[surr] \in Seq(Int) /\ StandsFor(surr, a.written[surr], FlattenSeq(pieces))
  BY <1>3, <1>6
<1>8. Faithful(a)
  BY <1>1, <1>5, <1>7 DEF Faithful
<1>9. QED
  BY <1>8 DEF a

LEMMA BoolFaithful ==
    ASSUME NEW v \in BOOLEAN
    PROVE  Faithful(Bool(v))
<1> DEFINE a == Bool(v)
           s == IF v THEN <<116, 114, 117, 101>> ELSE <<102, 97, 108, 115, 101>>
<1>1. a.double = FALSE /\ a.meant = s
  BY DEF Bool
<1>2. a.written["Single"] = s /\ a.written["Double"] = s
  BY DEF Bool, Both
<1>3. s \in Seq(Raw)
  <2>1. /\ 116 \in Raw /\ 114 \in Raw /\ 117 \in Raw /\ 101 \in Raw
        /\ 102 \in Raw /\ 97 \in Raw /\ 108 \in Raw /\ 115 \in Raw
    BY DEF Raw, Special, SQ, BS, DOLLAR, DQ, BACKQUOTE
  <2>2. QED
    BY <2>1
<1> HIDE DEF a, s
<1>4. \A surr \in Quotings : s \in Seq(Int) /\ StandsFor(surr, s, s)
  BY <1>3, RawStands
<1>5. \A surr \in Quotings : a.written[surr] = s
  BY <1>2 DEF Quotings
<1>6. s \in Seq(Int)
  BY <1>3 DEF Raw
<1>7. Faithful(a)
  BY <1>1, <1>4, <1>5, <1>6 DEF Faithful
<1>8. QED
  BY <1>7 DEF a

\* What stands between the braces of a parameter.
LEMMA ParamCarries ==
    ASSUME NEW d \in Stack, NEW s \in Seq(Int \ {RBRACE})
    PROVE  Carries(d, "param", s, s)
<1> DEFINE n == Len(s)
           ones == [i \in DOMAIN s |-> <<s[i]>>]
<1>1. s \in Seq(Int) /\ \A i \in 1..n : s[i] \in Int /\ s[i] # RBRACE
  OBVIOUS
<1>2. ones \in Seq(Seq(Int)) /\ FlattenSeq(ones) = s
  BY <1>1, Singles
<1>3. Len(ones) = n /\ \A i \in 1..n : ones[i] = <<s[i]>>
  OBVIOUS
<1>4. ASSUME NEW c, c # RBRACE PROVE Carries(d, "param", <<c>>, <<c>>)
  <2>1. \A g : Read(At(d, "param", g, <<>>), c) = At(d, "param", Cat(g, <<c>>), <<>>)
    BY <1>4, ParamGoesOn
  <2>2. \A g : Reads(At(d, "param", g, <<>>), <<c>>, Read(At(d, "param", g, <<>>), c))
    BY ReadsOne
  <2>3. QED
    BY <2>1, <2>2 DEF Carries
<1> HIDE DEF ones, n
<1>5. \A i \in 1..n : Carries(d, "param", ones[i], ones[i])
  BY <1>1, <1>3, <1>4
<1>6. Carries(d, "param", FlattenSeq(ones), FlattenSeq(ones))
  BY <1>2, <1>3, <1>5, FlattenCarries
<1>7. QED
  BY <1>2, <1>6

LEMMA EnvStands ==
    ASSUME NEW expr \in Seq(Int \ {RBRACE})
    PROVE  StandsFor("Double", Cat(Cat(<<DOLLAR, LBRACE>>, expr), <<RBRACE>>),
                     Cat(Cat(<<PARAM>>, expr), <<END_PARAM>>))
<1> DEFINE open == <<DOLLAR, LBRACE>>
           close == <<RBRACE>>
           begin == <<PARAM>>
           end == <<END_PARAM>>
           text == Cat(Cat(open, expr), close)
           meaning == Cat(Cat(begin, expr), end)
<1>1. /\ open \in Seq(Int) /\ close \in Seq(Int) /\ begin \in Seq(Int) /\ end \in Seq(Int)
      /\ expr \in Seq(Int)
  BY DEF DOLLAR, LBRACE, RBRACE, PARAM, END_PARAM
<1>2. ASSUME NEW b \in Stack, NEW g \in Seq(Int)
      PROVE  Reads(At(Append(b, "word"), "double", g, <<>>), text,
                   At(Append(b, "word"), "double", Cat(g, meaning), <<>>))
  <2> DEFINE d == Append(b, "word")
             e == Append(d, "double")
             x == Cat(g, begin)
             y == Cat(x, expr)
             z == Cat(y, end)
             r == At(d, "double", g, <<>>)
             o == At(e, "dollar_in_double", g, <<>>)
             p == At(e, "param", x, <<>>)
             q == At(e, "param", y, <<>>)
             s == At(d, "double", z, <<>>)
  <2>1. d \in Stack /\ "double" \in Modes
    BY StackIs, ModesAre
  <2> HIDE DEF d
  <2>2. e \in Stack
    BY <2>1, StackIs
  <2>3. Read(r, DOLLAR) = o
    BY <2>1, DoubleDollar
  <2>4. Read(q, RBRACE) = s
    BY <2>1, ParamEnd
  <2> HIDE DEF e
  <2>5. Read(o, LBRACE) = p
    BY <2>2, ReadDollarInDouble
  <2>6. DOLLAR \in Int /\ LBRACE \in Int
    BY DEF DOLLAR, LBRACE
  <2>7. x \in Seq(Int) /\ y \in Seq(Int)
    <3>1. x \in Seq(Int)
      BY <1>1, CatSeq
    <3> HIDE DEF x
    <3>2. QED
      BY <1>1, <3>1, CatSeq
  <2>8. Reads(p, expr, q)
    BY <2>2, <2>7, ParamCarries DEF Carries
  <2>9. z = Cat(g, meaning)
    <3> HIDE DEF begin, end
    <3>1. y = Cat(g, Cat(begin, expr))
      BY <1>1, CatCat
    <3> DEFINE w == Cat(begin, expr)
    <3>2. w \in Seq(Int)
      BY <1>1, CatSeq
    <3>3. y = Cat(g, w)
      BY <3>1
    <3> HIDE DEF w, y
    <3>4. Cat(y, end) = Cat(g, Cat(w, end))
      BY <1>1, <3>2, <3>3, CatCat
    <3>5. QED
      BY <3>4 DEF w
  <2> HIDE DEF r, o, p, q, s
  <2>10. Reads(r, open, p)
    BY <2>3, <2>5, <2>6, ReadsTwo
  <2>11. Reads(q, close, s)
    BY <2>4, ReadsOne
  <2> HIDE DEF open, close
  <2>12. Reads(r, Cat(open, expr), q)
    BY <1>1, <2>8, <2>10, ReadsCat
  <2>13. Cat(open, expr) \in Seq(Int)
    BY <1>1, CatSeq
  <2>14. Reads(r, text, s)
    BY <1>1, <2>11, <2>12, <2>13, ReadsCat
  <2>15. QED
    BY <2>9, <2>14 DEF r, s, d
<1> HIDE DEF text, meaning
<1>3. StandsFor("Double", text, meaning)
  BY <1>2, Insides DEF StandsFor, Carries
<1>4. QED
  BY <1>3 DEF text, meaning

LEMMA EnvFaithful ==
    ASSUME NEW expr \in Seq(Int \ {RBRACE})
    PROVE  Faithful(Env(expr))
<1> DEFINE a == Env(expr)
           open == <<DOLLAR, LBRACE>>
           close == <<RBRACE>>
           begin == <<PARAM>>
           end == <<END_PARAM>>
           text == Cat(Cat(open, expr), close)
           meaning == Cat(Cat(begin, expr), end)
<1>1. /\ open \in Seq(Int) /\ close \in Seq(Int) /\ begin \in Seq(Int) /\ end \in Seq(Int)
      /\ expr \in Seq(Int)
  BY DEF DOLLAR, LBRACE, RBRACE, PARAM, END_PARAM
<1>2. a.double = TRUE /\ a.meant = meaning
  BY DEF Env, Cat
<1>3. a.written["Single"] = text /\ a.written["Double"] = text
  BY DEF Env, Both, Cat
<1>4. StandsFor("Double", text, meaning)
  BY EnvStands
<1> HIDE DEF a, open, close, begin, end
<1>5. text \in Seq(Int) /\ meaning \in Seq(Int)
  BY <1>1, CatSeq
<1> HIDE DEF text, meaning
<1>6. \A surr \in Quotings : a.written[surr] = text
  BY <1>3 DEF Quotings
<1>7. Faithful(a)
  BY <1>2, <1>4, <1>5, <1>6 DEF Faithful
<1>8. QED
  BY <1>7 DEF a

\* Arguments with nothing between them.
LEMMA InOrderStands ==
    ASSUME NEW surr \in Quotings, NEW list, NEW n \in Nat, DOMAIN list = 1..n,
           \A i \in 1..n : Faithful(list[i]),
           \A i \in 1..n : list[i].double => surr = "Double"
    PROVE  /\ InOrder(list, surr) \in Seq(Int) /\ Meaning(list) \in Seq(Int)
           /\ StandsFor(surr, InOrder(list, surr), Meaning(list))
<1> DEFINE texts == [i \in 1..n |-> list[i].written[surr]]
           meanings == [i \in 1..n |-> list[i].meant]
<1>1. InOrder(list, surr) = FlattenSeq(texts) /\ Meaning(list) = FlattenSeq(meanings)
  BY DEF InOrder, Meaning
<1>2. \A i \in 1..n : /\ list[i].written[surr] \in Seq(Int) /\ list[i].meant \in Seq(Int)
                      /\ StandsFor(surr, list[i].written[surr], list[i].meant)
  BY DEF Faithful
<1>3. /\ texts \in [1..n -> Seq(Int)] /\ meanings \in [1..n -> Seq(Int)]
      /\ \A i \in 1..n : StandsFor(surr, texts[i], meanings[i])
  BY <1>2
<1> HIDE DEF texts, meanings
<1>4. /\ texts \in Seq(Seq(Int)) /\ Len(texts) = n
      /\ meanings \in Seq(Seq(Int)) /\ Len(meanings) = n
  BY <1>3
<1>5. StandsFor(surr, FlattenSeq(texts), FlattenSeq(meanings))
  BY <1>3, <1>4, FlattenStands
<1>6. FlattenSeq(texts) \in Seq(Int) /\ FlattenSeq(meanings) \in Seq(Int)
  BY <1>4, FlattenType
<1>7. QED
  BY <1>1, <1>5, <1>6

\* Several arguments in one, between double quotes if one of them asks for these.
LEMMA ListFaithful ==
    ASSUME NEW double \in BOOLEAN, NEW list, NEW n \in Nat, DOMAIN list = 1..n,
           \A i \in 1..n : Faithful(list[i]),
           \A i \in 1..n : list[i].double => double
    PROVE  Faithful([double |-> double, written |-> Both(LAMBDA q : InOrder(list, q)), meant |-> Meaning(list)])
<1> DEFINE a == [double |-> double, written |-> Both(LAMBDA q : InOrder(list, q)), meant |-> Meaning(list)]
<1>1. a.double = double /\ a.meant = Meaning(list)
  OBVIOUS
<1>2. a.written["Single"] = InOrder(list, "Single") /\ a.written["Double"] = InOrder(list, "Double")
  BY DEF Both
<1> HIDE DEF a
<1>3. \A surr \in Quotings : a.written[surr] = InOrder(list, surr)
  BY <1>2 DEF Quotings
<1>4. Meaning(list) \in Seq(Int) /\ \A surr \in Quotings : InOrder(list, surr) \in Seq(Int)
  <2> DEFINE texts == [surr \in Quotings |-> [i \in 1..n |-> list[i].written[surr]]]
             meanings == [i \in 1..n |-> list[i].meant]
  <2>1. /\ \A surr \in Quotings : InOrder(list, surr) = FlattenSeq(texts[surr])
        /\ Meaning(list) = FlattenSeq(meanings)
    BY DEF InOrder, Meaning
  <2>2. \A i \in 1..n : \A surr \in Quotings :
            list[i].written[surr] \in Seq(Int) /\ list[i].meant \in Seq(Int)
    BY DEF Faithful
  <2>3. \A surr \in Quotings : texts[surr] \in [1..n -> Seq(Int)]
    BY <2>2
  <2>4. meanings \in [1..n -> Seq(Int)]
    BY DEF Faithful
  <2> HIDE DEF texts, meanings
  <2>5. meanings \in Seq(Seq(Int)) /\ \A surr \in Quotings : texts[surr] \in Seq(Seq(Int))
    BY <2>3, <2>4
  <2>6. FlattenSeq(meanings) \in Seq(Int)
    BY <2>5, FlattenType
  <2>7. \A surr \in Quotings : FlattenSeq(texts[surr]) \in Seq(Int)
    BY <2>5, FlattenType
  <2>8. QED
    BY <2>1, <2>6, <2>7
<1>5. ASSUME NEW surr \in Quotings, double => surr = "Double"
      PROVE  StandsFor(surr, InOrder(list, surr), Meaning(list))
  <2>1. \A i \in 1..n : list[i].double => surr = "Double"
    BY <1>5
  <2>2. QED
    BY <2>1, InOrderStands
<1>6. Faithful(a)
  BY <1>1, <1>3, <1>4, <1>5 DEF Faithful
<1>7. QED
  BY <1>6 DEF a

-----------------------------------------------------------------------------
(***************************************************************************)
(* Numbers.                                                                *)
(***************************************************************************)
Numeral == {s \in Seq(Digit) : s # <<>>}

\* The digits of k, from those of a tenth of it in f.
Next_(f, k) == IF k < 10 THEN <<48 + k>> ELSE Append(f[k \div 10], 48 + (k % 10))

LEMMA NextDigits ==
    ASSUME NEW k \in Nat, NEW f, \A j \in 0..(k - 1) : f[j] \in Numeral
    PROVE  Next_(f, k) \in Numeral
<1>1. CASE k < 10
  <2>1. 48 + k \in Digit
    BY <1>1 DEF Digit
  <2>2. <<48 + k>> \in Seq(Digit) /\ <<48 + k>> # <<>>
    BY <2>1
  <2>3. QED
    BY <1>1, <2>2 DEF Next_, Numeral
<1>2. CASE ~(k < 10)
  <2> DEFINE s == f[k \div 10]
             c == 48 + (k % 10)
  <2>1. k \div 10 \in 0..(k - 1) /\ k % 10 \in 0..9
    BY <1>2
  <2>2. s \in Seq(Digit) /\ c \in Digit
    BY <2>1 DEF Numeral, Digit
  <2> HIDE DEF s, c
  <2>3. Append(s, c) \in Seq(Digit) /\ Append(s, c) # <<>>
    BY <2>2
  <2>4. QED
    BY <1>2, <2>3 DEF Next_, Numeral, s, c
<1>3. QED
  BY <1>1, <1>2

\* The equation of the function inside Decimal.
IsDigits(f, size) ==
    f = [k \in 0..size |-> IF k < 10 THEN <<48 + k>> ELSE Append(f[k \div 10], 48 + (k % 10))]

LEMMA DecimalIs ==
    ASSUME NEW n
    PROVE  Decimal(n) = LET size == IF n < 0 THEN -n ELSE n
                            digits == CHOOSE f : IsDigits(f, size)
                        IN IF n < 0 THEN <<45>> \o digits[size] ELSE digits[size]
BY DEF Decimal, IsDigits

LEMMA DigitsExist ==
    ASSUME NEW size \in Nat
    PROVE  \E f : IsDigits(f, size)
<1> DEFINE Upto(f, k) == DOMAIN f = 0..k /\ \A j \in 0..k : f[j] = Next_(f, j)
           G == {k \in 0..size : \E f : Upto(f, k)}
<1>1. 0 \in G
  <2> DEFINE f == [j \in 0..0 |-> <<48>>]
  <2>1. DOMAIN f = 0..0 /\ \A j \in 0..0 : j = 0 /\ f[j] = <<48>>
    OBVIOUS
  <2>2. Next_(f, 0) = <<48>>
    BY DEF Next_
  <2> HIDE DEF f
  <2>3. Upto(f, 0)
    BY <2>1, <2>2
  <2> HIDE DEF Upto
  <2>4. QED
    BY <2>3
<1>2. ASSUME NEW k \in 1..size, k - 1 \in G PROVE k \in G
  <2>1. PICK g : Upto(g, k - 1)
    BY <1>2
  <2>2. DOMAIN g = 0..(k - 1) /\ \A j \in 0..(k - 1) : g[j] = Next_(g, j)
    BY <2>1
  <2> DEFINE new == Next_(g, k)
  <2>3. new = Next_(g, k)
    OBVIOUS
  <2> HIDE DEF new
  <2> DEFINE f == [j \in 0..k |-> IF j = k THEN new ELSE g[j]]
  <2>4. DOMAIN f = 0..k /\ f[k] = new /\ \A j \in 0..(k - 1) : f[j] = g[j]
    OBVIOUS
  <2> HIDE DEF f
  <2>5. ASSUME NEW j \in 0..k PROVE Next_(f, j) = Next_(g, j)
    <3>1. CASE j < 10
      BY <3>1 DEF Next_
    <3>2. CASE ~(j < 10)
      <4>1. j \div 10 \in 0..(k - 1)
        BY <3>2
      <4>2. f[j \div 10] = g[j \div 10]
        BY <2>4, <4>1
      <4>3. QED
        BY <3>2, <4>2 DEF Next_
    <3>3. QED
      BY <3>1, <3>2
  <2>6. \A j \in 0..k : f[j] = Next_(f, j)
    <3>1. \A j \in 0..k : j = k \/ j \in 0..(k - 1)
      OBVIOUS
    <3>2. QED
      BY <2>2, <2>3, <2>4, <2>5, <3>1
  <2>7. Upto(f, k)
    BY <2>4, <2>6
  <2> HIDE DEF Upto
  <2>8. QED
    BY <2>7
<1> HIDE DEF Upto
<1>3. size \in G
  <2>1. \A k \in 1..size : k - 1 \in G => k \in G
    BY <1>2
  <2> HIDE DEF G
  <2>2. \A k \in 0..size : k \in G
    BY <1>1, <2>1, EveryPlace
  <2>3. QED
    BY <2>2
<1>4. PICK f : Upto(f, size)
  BY <1>3
<1> DEFINE g == [k \in 0..size |-> f[k]]
<1>5. DOMAIN f = 0..size /\ \A j \in 0..size : f[j] = Next_(f, j)
  BY <1>4 DEF Upto
<1>6. g = [k \in 0..size |-> g[k]] /\ \A k \in 0..size : g[k] = f[k]
  OBVIOUS
<1> HIDE DEF g
<1>7. \A k \in 0..size : g[k] = IF k < 10 THEN <<48 + k>> ELSE Append(g[k \div 10], 48 + (k % 10))
  <2>1. \A k \in 0..size : k \div 10 \in 0..size
    OBVIOUS
  <2>2. \A k \in 0..size : g[k \div 10] = f[k \div 10]
    BY <1>6, <2>1
  <2>3. QED
    BY <1>5, <1>6, <2>2 DEF Next_
<1>8. IsDigits(g, size)
  BY <1>6, <1>7 DEF IsDigits
<1>9. QED
  BY <1>8

LEMMA DigitsAre ==
    ASSUME NEW size \in Nat, NEW f, IsDigits(f, size)
    PROVE  f[size] \in Numeral
<1> DEFINE G == {k \in 0..size : \A j \in 0..k : f[j] \in Numeral}
<1>1. \A k \in 0..size : f[k] = Next_(f, k)
  <2>1. f = [k \in 0..size |-> IF k < 10 THEN <<48 + k>> ELSE Append(f[k \div 10], 48 + (k % 10))]
    BY DEF IsDigits
  <2>2. \A k \in 0..size : f[k] = IF k < 10 THEN <<48 + k>> ELSE Append(f[k \div 10], 48 + (k % 10))
    BY <2>1, Zenon
  <2>3. QED
    BY <2>2 DEF Next_
<1>2. 0 \in G
  <2>1. \A j \in 0..(0 - 1) : f[j] \in Numeral
    OBVIOUS
  <2>2. f[0] \in Numeral
    BY <1>1, <2>1, NextDigits
  <2>3. QED
    BY <2>2
<1>3. ASSUME NEW k \in 1..size, k - 1 \in G PROVE k \in G
  <2>1. k \in Nat /\ k \in 0..size /\ \A j \in 0..(k - 1) : f[j] \in Numeral
    BY <1>3
  <2>2. f[k] \in Numeral
    BY <1>1, <2>1, NextDigits
  <2>3. \A j \in 0..k : j = k \/ j \in 0..(k - 1)
    OBVIOUS
  <2>4. QED
    BY <2>1, <2>2, <2>3
<1>4. size \in G
  <2>1. \A k \in 1..size : k - 1 \in G => k \in G
    BY <1>3
  <2> HIDE DEF G
  <2>2. \A k \in 0..size : k \in G
    BY <1>2, <2>1, EveryPlace
  <2>3. QED
    BY <2>2
<1>5. QED
  BY <1>4

LEMMA DecimalNumeral ==
    ASSUME NEW n \in Nat
    PROVE  Decimal(n) \in Numeral
<1> DEFINE digits == CHOOSE f : IsDigits(f, n)
<1>1. IsDigits(digits, n)
  BY DigitsExist
<1>2. Decimal(n) = digits[n]
  <2>1. ~(n < 0)
    OBVIOUS
  <2>2. QED
    BY <2>1, DecimalIs
<1> HIDE DEF digits
<1>3. QED
  BY <1>1, <1>2, DigitsAre

LEMMA IntFaithful ==
    ASSUME NEW n \in Int
    PROVE  Faithful(Int_(n))
<1> DEFINE a == Int_(n)
           s == Decimal(n)
<1>1. a.double = FALSE /\ a.meant = s
  BY DEF Int_
<1>2. a.written["Single"] = s /\ a.written["Double"] = s
  BY DEF Int_, Both
<1>3. s \in Seq(Raw)
  <2>1. 45 \in Raw /\ Digit \subseteq Raw
    BY DEF Raw, Digit, Special, SQ, BS, DOLLAR, DQ, BACKQUOTE
  <2>2. CASE n >= 0
    <3>1. s \in Seq(Digit)
      BY <2>2, DecimalNumeral DEF Numeral
    <3> HIDE DEF s
    <3>2. QED
      BY <2>1, <3>1
  <2>3. CASE n < 0
    <3> DEFINE m == -n
               digits == CHOOSE f : IsDigits(f, m)
               t == digits[m]
    <3>1. m \in Nat
      BY <2>3
    <3>2. s = <<45>> \o t
      BY <2>3, DecimalIs
    <3> HIDE DEF m
    <3>3. IsDigits(digits, m)
      BY <3>1, DigitsExist
    <3> HIDE DEF digits
    <3>4. t \in Seq(Digit)
      BY <3>1, <3>3, DigitsAre DEF Numeral
    <3> HIDE DEF t, s
    <3>5. <<45>> \in Seq(Raw) /\ t \in Seq(Raw)
      BY <2>1, <3>4
    <3>6. QED
      BY <3>2, <3>5
  <2>4. QED
    BY <2>2, <2>3
<1> HIDE DEF a, s
<1>4. \A surr \in Quotings : s \in Seq(Int) /\ StandsFor(surr, s, s)
  BY <1>3, RawStands
<1>5. \A surr \in Quotings : a.written[surr] = s
  BY <1>2 DEF Quotings
<1>6. s \in Seq(Int)
  BY <1>3 DEF Raw
<1>7. Faithful(a)
  BY <1>1, <1>4, <1>5, <1>6 DEF Faithful
<1>8. QED
  BY <1>7 DEF a

-----------------------------------------------------------------------------
(***************************************************************************)
(* Byte strings.  In any word, a text takes the reader from one kind of    *)
(* quoting to another, with what it means read on the way.                 *)
(***************************************************************************)
Passes(m, text, k, meaning) ==
    \A b \in Stack : \A g \in Seq(Int) :
        Reads(At(Append(b, "word"), m, g, <<>>), text, At(Append(b, "word"), k, Cat(g, meaning), <<>>))

LEMMA StandsPasses ==
    ASSUME NEW surr, NEW text, NEW meaning
    PROVE  StandsFor(surr, text, meaning)
           <=> Passes(Inside(Quote(surr)), text, Inside(Quote(surr)), meaning)
BY DEF StandsFor, Carries, Passes

LEMMA PassesNothing ==
    ASSUME NEW m
    PROVE  Passes(m, <<>>, m, <<>>)
<1> SUFFICES ASSUME NEW b \in Stack, NEW g \in Seq(Int)
             PROVE  Reads(At(Append(b, "word"), m, g, <<>>), <<>>,
                          At(Append(b, "word"), m, Cat(g, <<>>), <<>>))
  BY DEF Passes
<1> DEFINE d == Append(b, "word")
<1>1. Carries(d, m, <<>>, <<>>)
  BY CarriesNothing
<1> HIDE DEF d
<1>2. Reads(At(d, m, g, <<>>), <<>>, At(d, m, Cat(g, <<>>), <<>>))
  BY <1>1 DEF Carries
<1>3. QED
  BY <1>2 DEF d

LEMMA PassesCat ==
    ASSUME NEW m, NEW k, NEW l, NEW s \in Seq(Int), NEW t \in Seq(Int), NEW p \in Seq(Int), NEW q \in Seq(Int),
           Passes(m, s, k, p), Passes(k, t, l, q)
    PROVE  Passes(m, Cat(s, t), l, Cat(p, q))
<1> DEFINE v == Cat(p, q)
           u == Cat(s, t)
<1> SUFFICES Passes(m, u, l, v)
  OBVIOUS
<1>1. ASSUME NEW b \in Stack, NEW g \in Seq(Int)
      PROVE  Reads(At(Append(b, "word"), m, g, <<>>), u, At(Append(b, "word"), l, Cat(g, v), <<>>))
  <2> DEFINE d == Append(b, "word")
             x == Cat(g, p)
             y == Cat(x, q)
  <2>1. x \in Seq(Int)
    BY CatSeq
  <2>2. y = Cat(g, v)
    BY CatCat
  <2>3. Reads(At(d, m, g, <<>>), s, At(d, k, x, <<>>))
    BY DEF Passes
  <2> HIDE DEF x
  <2>4. Reads(At(d, k, x, <<>>), t, At(d, l, y, <<>>))
    BY <2>1 DEF Passes
  <2> HIDE DEF y, d
  <2>5. Reads(At(d, m, g, <<>>), u, At(d, l, y, <<>>))
    BY <2>3, <2>4, ReadsCat
  <2>6. QED
    BY <2>2, <2>5 DEF d
<1> HIDE DEF u, v
<1>2. QED
  BY <1>1 DEF Passes

\* A quote ends what it has begun.
LEMMA QuoteEnd ==
    ASSUME NEW surr \in Quotings, NEW b \in Stack, NEW l \in Modes, NEW g, NEW h
    PROVE  Read(At(Append(b, l), Inside(Quote(surr)), g, h), Quote(surr)) = At(b, l, g, h)
<1>1. \/ Inside(Quote(surr)) = "single" /\ Quote(surr) = SQ
      \/ Inside(Quote(surr)) = "double" /\ Quote(surr) = DQ
  BY DEF Quotings, Inside, Quote, SQ, DQ
<1> DEFINE d == Append(b, l)
<1>2. Read(At(d, "single", g, h), SQ) = At(b, l, g, h)
  BY SingleEnd
<1>3. Read(At(d, "double", g, h), DQ) = At(b, l, g, h)
  BY DoubleEnd
<1> HIDE DEF d
<1>4. Read(At(d, Inside(Quote(surr)), g, h), Quote(surr)) = At(b, l, g, h)
  BY <1>1, <1>2, <1>3
<1>5. QED
  BY <1>4 DEF d

LEMMA QuotesAre ==
    ASSUME NEW surr \in Quotings
    PROVE  Quote(surr) \in Quotes /\ Quote(surr) \in Int
BY DEF Quote, Quotes, SQ, DQ

LEMMA OpenPasses ==
    ASSUME NEW surr \in Quotings
    PROVE  Open(surr) \in Seq(Int) /\ Passes(Inside(Quote(surr)), Open(surr), "ansi", <<>>)
<1> DEFINE m == Inside(Quote(surr))
           c == Quote(surr)
<1>1. c \in Int /\ DOLLAR \in Int /\ SQ \in Int
  BY QuotesAre DEF DOLLAR, SQ
<1>2. ASSUME NEW b \in Stack, NEW g \in Seq(Int)
      PROVE  Reads(At(Append(b, "word"), m, g, <<>>), <<c, DOLLAR, SQ>>,
                   At(Append(b, "word"), "ansi", Cat(g, <<>>), <<>>))
  <2> DEFINE d == Append(b, "word")
             x == Cat(g, <<>>)
             r == At(d, m, g, <<>>)
             o == At(b, "word", g, <<>>)
             p == At(d, "dollar", g, <<>>)
             q == At(d, "ansi", g, <<>>)
  <2>1. x = g
    BY CatNothing
  <2>2. d \in Stack /\ "word" \in Modes
    BY StackIs, ModesAre
  <2>3. Read(r, c) = o
    BY <2>2, QuoteEnd
  <2>4. Read(o, DOLLAR) = p
    BY ReadWord
  <2> HIDE DEF d
  <2>5. Read(p, SQ) = q
    BY <2>2, ReadDollar
  <2> HIDE DEF r, o, p, q, c, x
  <2>6. Reads(r, <<c, DOLLAR, SQ>>, q)
    BY <1>1, <2>3, <2>4, <2>5, ReadsThree
  <2>7. QED
    BY <2>1, <2>6 DEF r, q, d, x
<1>3. <<c, DOLLAR, SQ>> \in Seq(Int)
  BY <1>1
<1>4. Open(surr) = <<c, DOLLAR, SQ>>
  BY DEF Open
<1> HIDE DEF c, m
<1>5. Passes(m, <<c, DOLLAR, SQ>>, "ansi", <<>>)
  BY <1>2 DEF Passes
<1>6. QED
  BY <1>3, <1>4, <1>5 DEF m

LEMMA ClosePasses ==
    ASSUME NEW surr \in Quotings
    PROVE  Close(surr) \in Seq(Int) /\ Passes("ansi", Close(surr), Inside(Quote(surr)), <<>>)
<1> DEFINE m == Inside(Quote(surr))
           c == Quote(surr)
<1>1. c \in Int /\ SQ \in Int /\ c \in Quotes
  BY QuotesAre DEF SQ
<1>2. ASSUME NEW b \in Stack, NEW g \in Seq(Int)
      PROVE  Reads(At(Append(b, "word"), "ansi", g, <<>>), <<SQ, c>>,
                   At(Append(b, "word"), m, Cat(g, <<>>), <<>>))
  <2> DEFINE d == Append(b, "word")
             x == Cat(g, <<>>)
             r == At(d, "ansi", g, <<>>)
             o == At(b, "word", g, <<>>)
             q == At(d, m, g, <<>>)
  <2>1. x = g
    BY CatNothing
  <2>2. "word" \in Modes
    BY ModesAre
  <2>3. Read(r, SQ) = o
    BY <2>2, AnsiEnd
  <2>4. Read(o, c) = q
    BY <1>1, ReadWord
  <2> HIDE DEF r, o, q, c, x, d
  <2>5. Reads(r, <<SQ, c>>, q)
    BY <1>1, <2>3, <2>4, ReadsTwo
  <2>6. QED
    BY <2>1, <2>5 DEF r, q, d, x
<1>3. <<SQ, c>> \in Seq(Int)
  BY <1>1
<1>4. Close(surr) = <<SQ, c>>
  BY DEF Close
<1> HIDE DEF c, m
<1>5. Passes("ansi", <<SQ, c>>, m, <<>>)
  BY <1>2 DEF Passes
<1>6. QED
  BY <1>3, <1>4, <1>5 DEF m

LEMMA HexDigitValue ==
    ASSUME NEW n \in 0..15
    PROVE  HexDigit(n) \in Int /\ HexValue(HexDigit(n)) = n
<1>1. CASE n < 10
  <2>1. HexDigit(n) = 48 + n /\ 48 + n \in Digit
    BY <1>1 DEF HexDigit, Digit
  <2>2. 48 + n \notin 97..102
    BY <1>1
  <2>3. HexValue(48 + n) = (48 + n) - 48
    BY <2>1, <2>2 DEF HexValue
  <2>4. QED
    BY <2>1, <2>3
<1>2. CASE ~(n < 10)
  <2>1. HexDigit(n) = 97 + (n - 10) /\ 97 + (n - 10) \in 97..102
    BY <1>2 DEF HexDigit
  <2>2. 97 + (n - 10) \notin Digit
    BY <1>2 DEF Digit
  <2>3. HexValue(97 + (n - 10)) = (97 + (n - 10)) - 87
    BY <2>1, <2>2 DEF HexValue
  <2>4. QED
    BY <2>1, <2>3
<1>3. QED
  BY <1>1, <1>2

LEMMA HexPasses ==
    ASSUME NEW v \in Byte
    PROVE  /\ <<BS, HEX_X, HexDigit(v \div 16), HexDigit(v % 16)>> \in Seq(Int)
           /\ Passes("ansi", <<BS, HEX_X, HexDigit(v \div 16), HexDigit(v % 16)>>, "ansi", <<v>>)
<1> DEFINE high == v \div 16
           low == v % 16
           c == HexDigit(high)
           e == HexDigit(low)
<1>1. high \in 0..15 /\ low \in 0..15 /\ high * 16 + low = v
  BY DEF Byte
<1>2. v \in Int
  BY DEF Byte
<1> HIDE DEF high, low
<1>3. c \in Int /\ HexValue(c) = high /\ e \in Int /\ HexValue(e) = low
  BY <1>1, HexDigitValue
<1>4. BS \in Int /\ HEX_X \in Int
  BY DEF BS, HEX_X
<1> HIDE DEF c, e
<1>5. <<BS, HEX_X, c, e>> \in Seq(Int)
  BY <1>3, <1>4
<1>6. ASSUME NEW b \in Stack, NEW g \in Seq(Int)
      PROVE  Reads(At(Append(b, "word"), "ansi", g, <<>>), <<BS, HEX_X, c, e>>,
                   At(Append(b, "word"), "ansi", Cat(g, <<v>>), <<>>))
  <2> DEFINE d == Append(b, "word")
             f == Append(d, "ansi")
             r == At(d, "ansi", g, <<>>)
             n == At(f, "ansi_escape", g, <<>>)
             o == At(f, "hex", g, <<>>)
             p == At(f, "hex", g, <<high>>)
             q == At(d, "ansi", Cat(g, <<v>>), <<>>)
  <2>1. d \in Stack /\ "ansi" \in Modes
    BY StackIs, ModesAre
  <2> HIDE DEF d
  <2>2. f \in Stack
    BY <2>1, StackIs
  <2>3. Read(r, BS) = n
    BY <2>1, AnsiEscape
  <2>4. \A x : Read(At(f, "hex", g, <<x>>), e) = At(d, "ansi", Cat(g, <<x * 16 + HexValue(e)>>), <<>>)
    <3>1. HexValue(e) # 256
      BY <1>1, <1>3
    <3>2. QED
      BY <2>1, <3>1, HexSecond
  <2> HIDE DEF f
  <2>5. Read(n, HEX_X) = o
    BY <2>2, ReadAnsiEscape
  <2>6. Read(o, c) = p
    <3>1. HexValue(c) # 256
      BY <1>1, <1>3
    <3>2. Read(o, c) = At(f, "hex", g, <<HexValue(c)>>)
      BY <2>2, <3>1, HexFirst
    <3>3. QED
      BY <1>3, <3>2
  <2>7. Read(p, e) = q
    <3>1. Read(p, e) = At(d, "ansi", Cat(g, <<high * 16 + HexValue(e)>>), <<>>)
      BY <2>4
    <3>2. high * 16 + HexValue(e) = v
      BY <1>1, <1>3
    <3>3. QED
      BY <3>1, <3>2
  <2> HIDE DEF r, n, o, p, q
  <2>8. Reads(r, <<BS, HEX_X, c, e>>, q)
    BY <1>3, <1>4, <2>3, <2>5, <2>6, <2>7, ReadsFour
  <2>9. QED
    BY <2>8 DEF r, q, d
<1>7. Passes("ansi", <<BS, HEX_X, c, e>>, "ansi", <<v>>)
  <2> DEFINE text == <<BS, HEX_X, c, e>>
             one == <<v>>
  <2> HIDE DEF text, one
  <2>1. Passes("ansi", text, "ansi", one)
    BY <1>6 DEF Passes, text, one
  <2>2. QED
    BY <2>1 DEF text, one
<1>8. QED
  BY <1>5, <1>7 DEF c, e, high, low

\* What one byte means: NUL is not written.
Byte_(c) == IF c = 0 THEN <<>> ELSE <<c>>

LEMMA ByteMeaning ==
    ASSUME NEW c \in Byte
    PROVE  Byte_(c) \in Seq(Int)
<1>1. c \in Int
  BY DEF Byte
<1>2. <<c>> \in Seq(Int) /\ <<>> \in Seq(Int)
  BY <1>1
<1>3. QED
  BY <1>2 DEF Byte_

\* The quoting the loop is in.
Within(surr, encoding) == IF encoding THEN "ansi" ELSE Inside(Quote(surr))

Written == [text : Seq(Int), encoding : BOOLEAN]

\* One turn of the loop goes from the quoting it finds to the one it leaves.
LEMMA WriteByteStep ==
    ASSUME NEW surr \in Quotings, NEW at \in Written, NEW c \in Byte
    PROVE  /\ WriteByte(surr, at, c) \in Written
           /\ \E t \in Seq(Int) :
                 /\ WriteByte(surr, at, c).text = Cat(at.text, t)
                 /\ Passes(Within(surr, at.encoding), t, Within(surr, WriteByte(surr, at, c).encoding), Byte_(c))
<1> DEFINE m == Inside(Quote(surr))
           new == WriteByte(surr, at, c)
<1>1. at.text \in Seq(Int) /\ at.encoding \in BOOLEAN
  BY DEF Written
<1>2. c \in Int
  BY DEF Byte
<1>3. Within(surr, TRUE) = "ansi" /\ Within(surr, FALSE) = m
  BY DEF Within
<1>4. <<c>> \in Seq(Int) /\ <<>> \in Seq(Int)
  BY <1>2
<1>5. CASE c = 0
  <2>1. new = at
    <3>1. ~Encoded(c)
      BY <1>5 DEF Encoded
    <3>2. QED
      BY <1>5, <3>1 DEF WriteByte
  <2>2. at.text = Cat(at.text, <<>>)
    BY <1>1, CatNothing
  <2>3. Passes(Within(surr, at.encoding), <<>>, Within(surr, at.encoding), <<>>)
    BY PassesNothing
  <2>4. Byte_(c) = <<>>
    BY <1>5 DEF Byte_
  <2>5. QED
    BY <1>4, <2>1, <2>2, <2>3, <2>4
<1>6. CASE c # 0 /\ Encoded(c)
  <2> DEFINE first == IF at.encoding THEN <<>> ELSE Open(surr)
             hex == <<BS, HEX_X, HexDigit(c \div 16), HexDigit(c % 16)>>
             t == Cat(first, hex)
  <2>1. new = [text |-> Cat(Cat(at.text, first), hex), encoding |-> TRUE]
    BY <1>6 DEF WriteByte, Cat
  <2>2. hex \in Seq(Int) /\ Passes("ansi", hex, "ansi", <<c>>)
    BY HexPasses
  <2>3. first \in Seq(Int) /\ Passes(Within(surr, at.encoding), first, "ansi", <<>>)
    <3>1. CASE at.encoding = TRUE
      BY <1>3, <1>4, <3>1, PassesNothing
    <3>2. CASE at.encoding = FALSE
      BY <1>3, <3>2, OpenPasses
    <3>3. QED
      BY <1>1, <3>1, <3>2
  <2> HIDE DEF first, hex
  <2>4. t \in Seq(Int) /\ Cat(Cat(at.text, first), hex) = Cat(at.text, t)
    <3>1. t \in Seq(Int)
      BY <2>2, <2>3, CatSeq
    <3>2. Cat(Cat(at.text, first), hex) = Cat(at.text, t)
      BY <1>1, <2>2, <2>3, CatCat
    <3>3. QED
      BY <3>1, <3>2
  <2>5. Passes(Within(surr, at.encoding), t, "ansi", Cat(<<>>, <<c>>))
    BY <1>4, <2>2, <2>3, PassesCat
  <2>6. Cat(<<>>, <<c>>) = Byte_(c)
    BY <1>2, <1>6, <1>4, CatNothing DEF Byte_
  <2> HIDE DEF t
  <2>7. Passes(Within(surr, at.encoding), t, "ansi", Byte_(c))
    BY <2>5, <2>6
  <2> HIDE DEF new
  <2>8. new.encoding = TRUE /\ new.text = Cat(at.text, t)
    BY <2>1, <2>4
  <2>9. Cat(at.text, t) \in Seq(Int)
    BY <1>1, <2>4, CatSeq
  <2>10. new \in Written
    BY <2>1, <2>4, <2>9 DEF Written
  <2>11. QED
    BY <1>3, <2>4, <2>7, <2>8, <2>10 DEF new
<1>7. CASE c # 0 /\ ~Encoded(c)
  <2> DEFINE first == IF at.encoding THEN Close(surr) ELSE <<>>
             rest == escape_char(surr, c)
             t == Cat(first, rest)
  <2>1. new = [text |-> Cat(Cat(at.text, first), rest), encoding |-> FALSE]
    BY <1>7 DEF WriteByte, Cat
  <2>2. rest \in Seq(Int) /\ Passes(m, rest, m, <<c>>)
    BY <1>2, CharacterStands, StandsPasses
  <2>3. first \in Seq(Int) /\ Passes(Within(surr, at.encoding), first, m, <<>>)
    <3>1. CASE at.encoding = TRUE
      BY <1>3, <3>1, ClosePasses
    <3>2. CASE at.encoding = FALSE
      BY <1>3, <1>4, <3>2, PassesNothing
    <3>3. QED
      BY <1>1, <3>1, <3>2
  <2> HIDE DEF first, rest, m
  <2>4. t \in Seq(Int) /\ Cat(Cat(at.text, first), rest) = Cat(at.text, t)
    <3>1. t \in Seq(Int)
      BY <2>2, <2>3, CatSeq
    <3>2. Cat(Cat(at.text, first), rest) = Cat(at.text, t)
      BY <1>1, <2>2, <2>3, CatCat
    <3>3. QED
      BY <3>1, <3>2
  <2>5. Passes(Within(surr, at.encoding), t, m, Cat(<<>>, <<c>>))
    BY <1>4, <2>2, <2>3, PassesCat
  <2>6. Cat(<<>>, <<c>>) = Byte_(c)
    BY <1>2, <1>7, <1>4, CatNothing DEF Byte_
  <2> HIDE DEF t
  <2>7. Passes(Within(surr, at.encoding), t, m, Byte_(c))
    BY <2>5, <2>6
  <2> HIDE DEF new
  <2>8. new.encoding = FALSE /\ new.text = Cat(at.text, t)
    BY <2>1, <2>4
  <2>9. Cat(at.text, t) \in Seq(Int)
    BY <1>1, <2>4, CatSeq
  <2>10. new \in Written
    BY <2>1, <2>4, <2>9 DEF Written
  <2>11. QED
    BY <1>3, <2>4, <2>7, <2>8, <2>10 DEF new
<1>8. QED
  BY <1>5, <1>6, <1>7

\* The equation of the function inside WriteBytes.
IsWriting(f, surr, bytes) ==
    f = [i \in 0..Len(bytes) |->
            IF i = 0 THEN [text |-> <<>>, encoding |-> FALSE] ELSE WriteByte(surr, f[i - 1], bytes[i])]

LEMMA WriteBytesIs ==
    ASSUME NEW surr, NEW bytes
    PROVE  WriteBytes(surr, bytes) =
               LET end == (CHOOSE f : IsWriting(f, surr, bytes))[Len(bytes)]
               IN end.text \o (IF end.encoding THEN Close(surr) ELSE <<>>)
BY DEF WriteBytes, IsWriting

LEMMA WritingExists ==
    ASSUME NEW surr \in Quotings, NEW bytes \in Seq(Byte)
    PROVE  \E f : IsWriting(f, surr, bytes)
<1> DEFINE n == Len(bytes)
           base == [text |-> <<>>, encoding |-> FALSE]
           step == [i \in 1..n |-> [v \in Written |-> WriteByte(surr, v, bytes[i])]]
<1>1. n \in Nat /\ \A i \in 1..n : bytes[i] \in Byte
  OBVIOUS
<1>2. base \in Written
  BY DEF Written
<1>3. \A i \in 1..n : \A v \in Written : WriteByte(surr, v, bytes[i]) \in Written
  BY <1>1, WriteByteStep
<1> HIDE DEF n
<1>4. step \in [1..n -> [Written -> Written]]
  BY <1>3
<1>5. \A i \in 1..n : \A v \in Written : step[i][v] = WriteByte(surr, v, bytes[i])
  OBVIOUS
<1> HIDE DEF step, base
<1>6. PICK g : Follows(g, base, step, n, Written)
  BY <1>1, <1>2, <1>4, Recursion
<1>7. /\ g \in [0..n -> Written] /\ g[0] = base
      /\ \A i \in 1..n : g[i] = step[i][g[i - 1]]
  BY <1>6 DEF Follows
<1>8. \A i \in 0..n : g[i] = IF i = 0 THEN base ELSE WriteByte(surr, g[i - 1], bytes[i])
  <2>1. \A i \in 0..n : i = 0 \/ (i # 0 /\ i \in 1..n /\ i - 1 \in 0..n)
    BY <1>1
  <2>2. \A i \in 0..n : g[i] \in Written
    BY <1>7
  <2>3. QED
    BY <1>5, <1>7, <2>1, <2>2
<1>9. g = [i \in 0..n |-> g[i]]
  BY <1>7
<1>10. g = [i \in 0..n |-> IF i = 0 THEN base ELSE WriteByte(surr, g[i - 1], bytes[i])]
  BY <1>8, <1>9
<1>11. IsWriting(g, surr, bytes)
  BY <1>10 DEF IsWriting, base, n
<1>12. QED
  BY <1>11

LEMMA WriteBytesStands ==
    ASSUME NEW surr \in Quotings, NEW bytes \in Seq(Byte)
    PROVE  /\ WriteBytes(surr, bytes) \in Seq(Int)
           /\ StandsFor(surr, WriteBytes(surr, bytes), FlattenSeq([i \in DOMAIN bytes |-> Byte_(bytes[i])]))
<1> DEFINE n == Len(bytes)
           m == Inside(Quote(surr))
           f == CHOOSE x : IsWriting(x, surr, bytes)
           base == [text |-> <<>>, encoding |-> FALSE]
           meanings == [i \in DOMAIN bytes |-> Byte_(bytes[i])]
<1>1. n \in Nat /\ DOMAIN bytes = 1..n /\ n \in 0..n /\ \A i \in 1..n : bytes[i] \in Byte
  OBVIOUS
<1>2. IsWriting(f, surr, bytes)
  BY WritingExists
<1>3. WriteBytes(surr, bytes) = Cat(f[n].text, IF f[n].encoding THEN Close(surr) ELSE <<>>)
  BY WriteBytesIs DEF Cat
<1> HIDE DEF f
<1>4. f[0] = base /\ \A i \in 1..n : f[i] = WriteByte(surr, f[i - 1], bytes[i])
  <2>1. f = [i \in 0..n |-> IF i = 0 THEN base ELSE WriteByte(surr, f[i - 1], bytes[i])]
    BY <1>2 DEF IsWriting
  <2> HIDE DEF base, n
  <2>2. \A i \in 0..n : f[i] = IF i = 0 THEN base ELSE WriteByte(surr, f[i - 1], bytes[i])
    BY <2>1, Zenon
  <2>3. 0 \in 0..n /\ \A i \in 1..n : i \in 0..n /\ i # 0
    BY <1>1
  <2>4. QED
    BY <2>2, <2>3
<1>5. meanings \in Seq(Seq(Int)) /\ Len(meanings) = n /\ \A i \in 1..n : meanings[i] = Byte_(bytes[i])
  <2>1. \A i \in 1..n : Byte_(bytes[i]) \in Seq(Int)
    BY <1>1, ByteMeaning
  <2>2. meanings = [i \in 1..n |-> Byte_(bytes[i])]
    BY <1>1
  <2> HIDE DEF meanings, n
  <2>3. meanings \in [1..n -> Seq(Int)] /\ \A i \in 1..n : meanings[i] = Byte_(bytes[i])
    BY <2>1, <2>2
  <2>4. meanings \in Seq(Seq(Int)) /\ Len(meanings) = n
    BY <1>1, <2>3
  <2>5. QED
    BY <2>3, <2>4
<1> HIDE DEF meanings
<1>6. PICK h : Joins(h, meanings, n, Int)
  BY <1>5, JoinsExists
<1>7. FlattenSeq(meanings) = h[n]
  BY <1>5, <1>6, FlattenJoins
<1>8. /\ \A i \in 0..n : h[i] \in Seq(Int)
      /\ h[0] = <<>> /\ \A i \in 1..n : h[i] = Cat(h[i - 1], meanings[i])
  BY <1>6 DEF Joins
<1> DEFINE G == {i \in 0..n : f[i] \in Written /\ Passes(m, f[i].text, Within(surr, f[i].encoding), h[i])}
<1>9. 0 \in G
  <2>1. f[0] \in Written /\ f[0].text = <<>> /\ Within(surr, f[0].encoding) = m
    BY <1>4 DEF Written, Within
  <2>2. Passes(m, <<>>, m, <<>>)
    BY PassesNothing
  <2> HIDE DEF m, n
  <2>3. QED
    BY <1>1, <1>8, <2>1, <2>2
<1> HIDE DEF m, n, base
<1>10. ASSUME NEW i \in 1..n, i - 1 \in G PROVE i \in G
  <2> DEFINE old == f[i - 1]
             new == WriteByte(surr, old, bytes[i])
             p == h[i - 1]
             q == meanings[i]
  <2>1. i \in 0..n /\ i - 1 \in 0..n /\ bytes[i] \in Byte
    BY <1>1
  <2>2. f[i] = new /\ h[i] = Cat(p, q) /\ q = Byte_(bytes[i])
    BY <1>4, <1>5, <1>8
  <2>3. old \in Written /\ Passes(m, old.text, Within(surr, old.encoding), p)
    BY <1>10
  <2>4. p \in Seq(Int) /\ q \in Seq(Int)
    BY <1>5, <1>8, <2>1
  <2> HIDE DEF old, p, q
  <2>5. new \in Written
    BY <2>1, <2>3, WriteByteStep
  <2>6. PICK t \in Seq(Int) :
            /\ new.text = Cat(old.text, t)
            /\ Passes(Within(surr, old.encoding), t, Within(surr, new.encoding), Byte_(bytes[i]))
    BY <2>1, <2>3, WriteByteStep
  <2>7. old.text \in Seq(Int)
    BY <2>3 DEF Written
  <2> HIDE DEF new
  <2>8. Passes(Within(surr, old.encoding), t, Within(surr, new.encoding), q)
    BY <2>2, <2>6
  <2>9. Passes(m, Cat(old.text, t), Within(surr, new.encoding), Cat(p, q))
    BY <2>3, <2>4, <2>7, <2>8, PassesCat
  <2>10. QED
    BY <2>1, <2>2, <2>5, <2>6, <2>9
<1>11. n \in G
  <2>1. \A i \in 1..n : i - 1 \in G => i \in G
    BY <1>10
  <2> HIDE DEF G
  <2>2. \A i \in 0..n : i \in G
    BY <1>1, <1>9, <2>1, EveryPlace
  <2>3. QED
    BY <1>1, <2>2
<1> DEFINE end == f[n]
           last == IF end.encoding THEN Close(surr) ELSE <<>>
           w == h[n]
<1>12. end \in Written /\ Passes(m, end.text, Within(surr, end.encoding), w)
  BY <1>11
<1>13. end.text \in Seq(Int) /\ end.encoding \in BOOLEAN
  BY <1>12 DEF Written
<1>14. w \in Seq(Int)
  BY <1>1, <1>8
<1> HIDE DEF end, w
<1>15. last \in Seq(Int) /\ Passes(Within(surr, end.encoding), last, m, <<>>)
  <2>1. Within(surr, TRUE) = "ansi" /\ Within(surr, FALSE) = m
    BY DEF Within, m
  <2>2. CASE end.encoding = TRUE
    BY <2>1, <2>2, ClosePasses DEF m
  <2>3. CASE end.encoding = FALSE
    <3>1. last = <<>> /\ <<>> \in Seq(Int)
      BY <2>3
    <3>2. Passes(m, <<>>, m, <<>>)
      BY PassesNothing
    <3>3. QED
      BY <2>1, <2>3, <3>1, <3>2
  <2>4. QED
    BY <1>13, <2>2, <2>3
<1>16. WriteBytes(surr, bytes) = Cat(end.text, last)
  BY <1>3 DEF end
<1> HIDE DEF last
<1>17. Cat(end.text, last) \in Seq(Int)
  BY <1>13, <1>15, CatSeq
<1>18. Passes(m, Cat(end.text, last), m, w)
  <2> DEFINE none == <<>>
             v == Cat(w, none)
  <2>1. none \in Seq(Int) /\ v = w
    BY <1>14, CatNothing
  <2>2. Passes(Within(surr, end.encoding), last, m, none)
    BY <1>15
  <2> HIDE DEF none
  <2>3. Passes(m, Cat(end.text, last), m, v)
    BY <1>12, <1>13, <1>14, <1>15, <2>1, <2>2, PassesCat
  <2>4. QED
    BY <2>1, <2>3
<1>19. StandsFor(surr, Cat(end.text, last), w)
  BY <1>18, StandsPasses DEF m
<1>20. QED
  BY <1>7, <1>16, <1>17, <1>19 DEF w, meanings

LEMMA RawBytesFaithful ==
    ASSUME NEW bytes \in Seq(Byte)
    PROVE  Faithful(RawBytes(bytes))
<1> DEFINE a == RawBytes(bytes)
           n == Len(bytes)
           meanings == [i \in DOMAIN bytes |-> Byte_(bytes[i])]
           meaning == FlattenSeq(meanings)
<1>1. a.double = FALSE /\ a.meant = meaning
  BY DEF RawBytes, Byte_
<1>2. a.written["Single"] = WriteBytes("Single", bytes) /\ a.written["Double"] = WriteBytes("Double", bytes)
  BY DEF RawBytes, Both
<1> HIDE DEF a
<1>3. \A surr \in Quotings : a.written[surr] = WriteBytes(surr, bytes)
  BY <1>2 DEF Quotings
<1>4. \A surr \in Quotings : WriteBytes(surr, bytes) \in Seq(Int) /\ StandsFor(surr, WriteBytes(surr, bytes), meaning)
  BY WriteBytesStands
<1>5. meaning \in Seq(Int)
  <2>1. n \in Nat /\ DOMAIN bytes = 1..n /\ \A i \in 1..n : bytes[i] \in Byte
    OBVIOUS
  <2>2. \A i \in 1..n : Byte_(bytes[i]) \in Seq(Int)
    BY <2>1, ByteMeaning
  <2>3. meanings = [i \in 1..n |-> Byte_(bytes[i])]
    BY <2>1
  <2> HIDE DEF meanings, n
  <2>4. meanings \in [1..n -> Seq(Int)]
    BY <2>2, <2>3
  <2>5. meanings \in Seq(Seq(Int))
    BY <2>1, <2>4
  <2>6. QED
    BY <2>5, FlattenType
<1> HIDE DEF meaning
<1>6. Faithful(a)
  BY <1>1, <1>3, <1>4, <1>5 DEF Faithful
<1>7. QED
  BY <1>6 DEF a

-----------------------------------------------------------------------------
(***************************************************************************)
(* Parts of a command.  A part is read as what it means wherever an item   *)
(* may begin, and another item may begin after it.                         *)
(***************************************************************************)
IsPart(part) ==
    /\ part.text \in Seq(Int)
    /\ part.meant \in Seq(Int)
    /\ \A b \in Stack : Carries(b, "gap", part.text, part.meant)

LEMMA SurrIs ==
    ASSUME NEW a, Faithful(a)
    PROVE  Surr(a) \in Quotings /\ (a.double => Surr(a) = "Double")
BY DEF Surr, Quotings, Faithful

LEMMA QuotedType ==
    ASSUME NEW a, Faithful(a)
    PROVE  /\ Quoted(a) = Cat(Cat(<<Quote(Surr(a))>>, a.written[Surr(a)]), <<Quote(Surr(a))>>)
           /\ Quoted(a) \in Seq(Int) /\ a.meant \in Seq(Int)
<1> DEFINE q == <<Quote(Surr(a))>>
           w == a.written[Surr(a)]
<1>1. Quoted(a) = Cat(Cat(q, w), q)
  BY DEF Quoted, Cat
<1>2. w \in Seq(Int) /\ a.meant \in Seq(Int)
  BY SurrIs DEF Faithful
<1>3. q \in Seq(Int)
  BY SurrIs, QuotesAre
<1> HIDE DEF q, w
<1>4. Cat(q, w) \in Seq(Int)
  BY <1>2, <1>3, CatSeq
<1>5. Cat(Cat(q, w), q) \in Seq(Int)
  BY <1>3, <1>4, CatSeq
<1>6. QED
  BY <1>1, <1>2, <1>5 DEF q, w

\* A quoted argument, and the space that ends its word, where a quote begins a word.
LEMMA QuotedReads ==
    ASSUME NEW a, Faithful(a), NEW b \in Stack, NEW g \in Seq(Int), NEW r,
           Read(r, Quote(Surr(a))) = At(Append(b, "word"), Inside(Quote(Surr(a))), g, <<>>)
    PROVE  Reads(r, Cat(Quoted(a), <<SPACE>>), At(b, "gap", Cat(g, a.meant), <<>>))
<1> DEFINE surr == Surr(a)
           c == Quote(surr)
           m == Inside(c)
           d == Append(b, "word")
           w == a.written[surr]
           x == Cat(g, a.meant)
           one == <<c>>
           space == <<SPACE>>
           o == At(d, m, g, <<>>)
           p == At(d, m, x, <<>>)
           q == At(b, "word", x, <<>>)
           s == At(b, "gap", x, <<>>)
<1>1. surr \in Quotings /\ (a.double => surr = "Double")
  BY SurrIs
<1>2. w \in Seq(Int) /\ a.meant \in Seq(Int) /\ StandsFor(surr, w, a.meant)
  BY <1>1 DEF Faithful
<1>3. c \in Int /\ one \in Seq(Int) /\ space \in Seq(Int)
  BY <1>1, QuotesAre DEF SPACE
<1>4. "word" \in Modes
  BY ModesAre
<1>5. Quoted(a) = Cat(Cat(one, w), one)
  BY QuotedType
<1> HIDE DEF surr
<1>6. Reads(o, w, p)
  <2>1. Carries(d, m, w, a.meant)
    BY <1>2 DEF StandsFor
  <2> HIDE DEF d, m, w
  <2>2. QED
    BY <2>1 DEF Carries
<1> HIDE DEF x
<1>7. Read(p, c) = q
  BY <1>1, <1>4, QuoteEnd
<1>8. Read(q, SPACE) = s
  BY ReadWord
<1>9. Read(r, c) = o
  BY DEF surr
<1> HIDE DEF o, p, q, s, w, c
<1>10. Reads(r, one, o)
  BY <1>9, ReadsOne
<1>11. Reads(p, one, q)
  BY <1>7, ReadsOne
<1>12. Reads(q, space, s)
  BY <1>8, ReadsOne
<1> HIDE DEF one, space
<1>13. Reads(r, Cat(one, w), p)
  BY <1>2, <1>3, <1>6, <1>10, ReadsCat
<1>14. Cat(one, w) \in Seq(Int)
  BY <1>2, <1>3, CatSeq
<1> DEFINE t == Cat(one, w)
           u == Cat(t, one)
<1> HIDE DEF t
<1>15. Reads(r, u, q)
  BY <1>3, <1>11, <1>13, <1>14, ReadsCat DEF t
<1>16. u \in Seq(Int)
  BY <1>3, <1>14, CatSeq DEF t
<1> HIDE DEF u
<1>17. Reads(r, Cat(u, space), s)
  BY <1>3, <1>12, <1>15, <1>16, ReadsCat
<1>18. QED
  BY <1>5, <1>17 DEF u, t, s, x, space

LEMMA ArgPart ==
    ASSUME NEW a, Faithful(a)
    PROVE  IsPart(arg(a))
<1> DEFINE text == Cat(Quoted(a), <<SPACE>>)
           one == <<WORD>>
           meaning == Cat(one, a.meant)
           surr == Surr(a)
<1>1. arg(a).text = text /\ arg(a).meant = meaning
  BY DEF arg, Cat
<1>2. Quoted(a) \in Seq(Int) /\ a.meant \in Seq(Int) /\ one \in Seq(Int) /\ <<SPACE>> \in Seq(Int)
  <2>1. Quoted(a) \in Seq(Int) /\ a.meant \in Seq(Int)
    BY QuotedType
  <2>2. one \in Seq(Int) /\ <<SPACE>> \in Seq(Int)
    BY DEF WORD, SPACE
  <2>3. QED
    BY <2>1, <2>2
<1>3. Quote(surr) \in Quotes
  BY SurrIs, QuotesAre
<1>4. ASSUME NEW b \in Stack, NEW g \in Seq(Int)
      PROVE  Reads(At(b, "gap", g, <<>>), text, At(b, "gap", Cat(g, meaning), <<>>))
  <2> DEFINE x == Cat(g, one)
             r == At(b, "gap", g, <<>>)
             o == At(Append(b, "word"), Inside(Quote(surr)), x, <<>>)
  <2>1. Read(r, Quote(surr)) = o
    <3>1. Read(r, Quote(surr)) = InGap(r, Quote(surr))
      BY ReadGap
    <3>2. InGap(r, Quote(surr)) = o
      BY <1>3, GapQuote
    <3>3. QED
      BY <3>1, <3>2
  <2>2. x \in Seq(Int) /\ Cat(x, a.meant) = Cat(g, meaning)
    <3>1. x \in Seq(Int)
      BY <1>2, CatSeq
    <3>2. Cat(x, a.meant) = Cat(g, meaning)
      <4> HIDE DEF one
      <4>1. QED
        BY <1>2, CatCat
    <3>3. QED
      BY <3>1, <3>2
  <2> HIDE DEF x, r
  <2>3. Reads(r, text, At(b, "gap", Cat(x, a.meant), <<>>))
    BY <2>1, <2>2, QuotedReads
  <2>4. QED
    BY <2>2, <2>3 DEF r
<1>5. text \in Seq(Int) /\ meaning \in Seq(Int)
  BY <1>2, CatSeq
<1> HIDE DEF text, meaning
<1>6. \A b \in Stack : Carries(b, "gap", text, meaning)
  BY <1>4 DEF Carries
<1>7. QED
  BY <1>1, <1>5, <1>6 DEF IsPart

-----------------------------------------------------------------------------
(***************************************************************************)
(* Operators.                                                              *)
(***************************************************************************)
LEMMA PartIs ==
    ASSUME NEW part, NEW text \in Seq(Int), NEW meaning \in Seq(Int),
           part.text = text, part.meant = meaning,
           \A b \in Stack : \A g \in Seq(Int) :
               Reads(At(b, "gap", g, <<>>), text, At(b, "gap", Cat(g, meaning), <<>>))
    PROVE  IsPart(part)
<1>1. \A b \in Stack : Carries(b, "gap", text, meaning)
  BY DEF Carries
<1>2. QED
  BY <1>1 DEF IsPart

LEMMA SpaceInGap ==
    ASSUME NEW b \in Stack, NEW g, NEW h
    PROVE  Read(At(b, "gap", g, h), SPACE) = At(b, "gap", g, h)
<1> DEFINE r == At(b, "gap", g, h)
<1>1. InGap(r, SPACE) = r
  BY GapSpace
<1>2. Read(r, SPACE) = InGap(r, SPACE)
  BY ReadGap
<1>3. QED
  BY <1>1, <1>2

LEMMA GapOperatorRead ==
    ASSUME NEW b \in Stack, NEW g, NEW h
    PROVE  /\ Read(At(b, "gap", g, h), AMP) = At(b, "and", g, h)
           /\ Read(At(b, "gap", g, h), BAR) = At(b, "or", g, h)
           /\ Read(At(b, "gap", g, h), SEMI) = At(b, "gap", Cat(g, <<THEN_RUN>>), h)
BY ReadGap, GapOperator

LEMMA AndIsPart == IsPart(AndPart)
<1> DEFINE text == <<AMP, AMP, SPACE>>
           one == <<AND_IF>>
<1>1. text \in Seq(Int) /\ one \in Seq(Int) /\ AMP \in Int /\ SPACE \in Int
  BY DEF AMP, SPACE, AND_IF
<1>2. ASSUME NEW b \in Stack, NEW g \in Seq(Int)
      PROVE  Reads(At(b, "gap", g, <<>>), text, At(b, "gap", Cat(g, one), <<>>))
  <2> DEFINE r == At(b, "gap", g, <<>>)
             o == At(b, "and", g, <<>>)
             q == At(b, "gap", Cat(g, one), <<>>)
  <2>1. Read(r, AMP) = o
    BY GapOperatorRead
  <2>2. Read(o, AMP) = q
    BY ReadAnd
  <2>3. Read(q, SPACE) = q
    BY SpaceInGap
  <2> HIDE DEF r, o, q
  <2>4. Reads(r, text, q)
    BY <1>1, <2>1, <2>2, <2>3, ReadsThree
  <2>5. QED
    BY <2>4 DEF r, q
<1>3. AndPart.text = text /\ AndPart.meant = one
  BY DEF AndPart
<1> HIDE DEF text, one
<1>4. QED
  BY <1>1, <1>2, <1>3, PartIs

LEMMA OrIsPart == IsPart(OrPart)
<1> DEFINE text == <<BAR, BAR, SPACE>>
           one == <<OR_IF>>
<1>1. text \in Seq(Int) /\ one \in Seq(Int) /\ BAR \in Int /\ SPACE \in Int
  BY DEF BAR, SPACE, OR_IF
<1>2. ASSUME NEW b \in Stack, NEW g \in Seq(Int)
      PROVE  Reads(At(b, "gap", g, <<>>), text, At(b, "gap", Cat(g, one), <<>>))
  <2> DEFINE r == At(b, "gap", g, <<>>)
             o == At(b, "or", g, <<>>)
             q == At(b, "gap", Cat(g, one), <<>>)
  <2>1. Read(r, BAR) = o
    BY GapOperatorRead
  <2>2. Read(o, BAR) = q
    BY ReadOr
  <2>3. Read(q, SPACE) = q
    BY SpaceInGap
  <2> HIDE DEF r, o, q
  <2>4. Reads(r, text, q)
    BY <1>1, <2>1, <2>2, <2>3, ReadsThree
  <2>5. QED
    BY <2>4 DEF r, q
<1>3. OrPart.text = text /\ OrPart.meant = one
  BY DEF OrPart
<1> HIDE DEF text, one
<1>4. QED
  BY <1>1, <1>2, <1>3, PartIs

LEMMA PipeIsPart == IsPart(PipePart)
<1> DEFINE text == <<BAR, SPACE>>
           one == <<PIPED>>
<1>1. text \in Seq(Int) /\ one \in Seq(Int) /\ BAR \in Int /\ SPACE \in Int
  BY DEF BAR, SPACE, PIPED
<1>2. ASSUME NEW b \in Stack, NEW g \in Seq(Int)
      PROVE  Reads(At(b, "gap", g, <<>>), text, At(b, "gap", Cat(g, one), <<>>))
  <2> DEFINE r == At(b, "gap", g, <<>>)
             o == At(b, "or", g, <<>>)
             q == At(b, "gap", Cat(g, one), <<>>)
  <2>1. Read(r, BAR) = o
    BY GapOperatorRead
  <2>2. Read(o, SPACE) = q
    BY ReadOr
  <2> HIDE DEF r, o, q
  <2>3. Reads(r, text, q)
    BY <1>1, <2>1, <2>2, ReadsTwo
  <2>4. QED
    BY <2>3 DEF r, q
<1>3. PipePart.text = text /\ PipePart.meant = one
  BY DEF PipePart
<1> HIDE DEF text, one
<1>4. QED
  BY <1>1, <1>2, <1>3, PartIs

LEMMA TermIsPart == IsPart(TermPart)
<1> DEFINE text == <<SEMI, SPACE>>
           one == <<THEN_RUN>>
<1>1. text \in Seq(Int) /\ one \in Seq(Int) /\ SEMI \in Int /\ SPACE \in Int
  BY DEF SEMI, SPACE, THEN_RUN
<1>2. ASSUME NEW b \in Stack, NEW g \in Seq(Int)
      PROVE  Reads(At(b, "gap", g, <<>>), text, At(b, "gap", Cat(g, one), <<>>))
  <2> DEFINE r == At(b, "gap", g, <<>>)
             q == At(b, "gap", Cat(g, one), <<>>)
  <2>1. Read(r, SEMI) = q
    BY GapOperatorRead
  <2>2. Read(q, SPACE) = q
    BY SpaceInGap
  <2> HIDE DEF r, q
  <2>3. Reads(r, text, q)
    BY <1>1, <2>1, <2>2, ReadsTwo
  <2>4. QED
    BY <2>3 DEF r, q
<1>3. TermPart.text = text /\ TermPart.meant = one
  BY DEF TermPart
<1> HIDE DEF text, one
<1>4. QED
  BY <1>1, <1>2, <1>3, PartIs

LEMMA BackgroundIsPart == IsPart(BackgroundPart)
<1> DEFINE text == <<AMP, SPACE>>
           one == <<DETACH>>
<1>1. text \in Seq(Int) /\ one \in Seq(Int) /\ AMP \in Int /\ SPACE \in Int
  BY DEF AMP, SPACE, DETACH
<1>2. ASSUME NEW b \in Stack, NEW g \in Seq(Int)
      PROVE  Reads(At(b, "gap", g, <<>>), text, At(b, "gap", Cat(g, one), <<>>))
  <2> DEFINE r == At(b, "gap", g, <<>>)
             o == At(b, "and", g, <<>>)
             q == At(b, "gap", Cat(g, one), <<>>)
  <2>1. Read(r, AMP) = o
    BY GapOperatorRead
  <2>2. Read(o, SPACE) = q
    BY ReadAnd
  <2> HIDE DEF r, o, q
  <2>3. Reads(r, text, q)
    BY <1>1, <2>1, <2>2, ReadsTwo
  <2>4. QED
    BY <2>3 DEF r, q
<1>3. BackgroundPart.text = text /\ BackgroundPart.meant = one
  BY DEF BackgroundPart
<1> HIDE DEF text, one
<1>4. QED
  BY <1>1, <1>2, <1>3, PartIs

LEMMA NothingIsPart == IsPart(Nothing)
<1>1. Nothing.text = <<>> /\ Nothing.meant = <<>> /\ <<>> \in Seq(Int)
  BY DEF Nothing
<1>2. QED
  BY <1>1, CarriesNothing DEF IsPart

-----------------------------------------------------------------------------
(***************************************************************************)
(* Names and numbers, whose characters the shell holds back.               *)
(***************************************************************************)
\* A beginning of a sequence is the one before it and one more item.
LEMMA PrefixStep ==
    ASSUME NEW S, NEW s \in Seq(S), NEW k \in 1..Len(s)
    PROVE  /\ SubSeq(s, 1, k) \in Seq(S) /\ SubSeq(s, 1, k - 1) \in Seq(S) /\ s[k] \in S
           /\ SubSeq(s, 1, k) = Append(SubSeq(s, 1, k - 1), s[k])
           /\ SubSeq(s, 1, k) = Cat(SubSeq(s, 1, k - 1), <<s[k]>>)
<1> DEFINE x == SubSeq(s, 1, k - 1)
           y == SubSeq(s, 1, k)
           e == s[k]
           z == Append(x, e)
<1>1. Len(s) \in Nat /\ k \in Nat /\ k <= Len(s) /\ e \in S
  OBVIOUS
<1>2. x \in Seq(S) /\ Len(x) = k - 1 /\ \A j \in 1..(k - 1) : x[j] = s[j]
  BY <1>1
<1>3. y \in Seq(S) /\ Len(y) = k /\ \A j \in 1..k : y[j] = s[j]
  BY <1>1
<1>4. s[k] = e
  OBVIOUS
<1> HIDE DEF x, y, e
<1>5. z \in Seq(S) /\ Len(z) = k /\ z[k] = e /\ \A j \in 1..(k - 1) : z[j] = x[j]
  BY <1>1, <1>2
<1>6. z = Cat(x, <<e>>)
  BY <1>1, <1>2 DEF Cat
<1> HIDE DEF z
<1>7. \A j \in 1..k : y[j] = z[j]
  <2>1. \A j \in 1..k : j = k \/ j \in 1..(k - 1)
    BY <1>1
  <2>2. QED
    BY <1>2, <1>3, <1>4, <1>5, <2>1
<1>8. y = z
  BY <1>3, <1>5, <1>7, SeqEqual
<1>9. QED
  BY <1>1, <1>2, <1>3, <1>6, <1>8 DEF x, y, z, e

LEMMA HeldReads ==
    ASSUME NEW b, NEW m, NEW g, NEW r, NEW C, NEW s \in Seq(C), Len(s) >= 1,
           Read(r, s[1]) = At(b, m, g, <<s[1]>>),
           \A h : \A c \in C : Read(At(b, m, g, h), c) = At(b, m, g, Append(h, c))
    PROVE  Reads(r, s, At(b, m, g, s))
<1> DEFINE n == Len(s)
           Held(k) == SubSeq(s, 1, k)
           G == {k \in 0..n : k = 0 \/ Reads(r, Held(k), At(b, m, g, Held(k)))}
<1>1. n \in Nat /\ 1 \in 1..n /\ n \in 0..n /\ n # 0
  OBVIOUS
<1>2. Held(n) = s
  OBVIOUS
<1>3. Held(1) = <<s[1]>>
  <2>1. SubSeq(s, 1, 1) = Cat(SubSeq(s, 1, 1 - 1), <<s[1]>>) /\ s[1] \in C
    BY <1>1, PrefixStep
  <2>2. SubSeq(s, 1, 1 - 1) = <<>>
    OBVIOUS
  <2>3. <<s[1]>> \in Seq(C)
    BY <2>1
  <2>4. Cat(<<>>, <<s[1]>>) = <<s[1]>>
    BY <2>3, CatNothing
  <2>5. QED
    BY <2>1, <2>2, <2>4
<1>4. \A k \in 1..n : /\ Held(k) \in Seq(C) /\ Held(k - 1) \in Seq(C) /\ s[k] \in C
                      /\ Held(k) = Append(Held(k - 1), s[k])
                      /\ Held(k) = Cat(Held(k - 1), <<s[k]>>)
  BY PrefixStep
<1>5. Reads(r, <<s[1]>>, At(b, m, g, <<s[1]>>))
  <2>1. Reads(r, <<s[1]>>, Read(r, s[1]))
    BY ReadsOne
  <2>2. QED
    BY <2>1
<1> HIDE DEF Held, n
<1>6. ASSUME NEW k \in 1..n, k - 1 \in G PROVE k \in G
  <2>1. k \in 0..n
    BY <1>1
  <2>2. CASE k = 1
    BY <1>3, <1>5, <2>1, <2>2
  <2>3. CASE k # 1
    <3> DEFINE p == Held(k - 1)
               q == Held(k)
               c == s[k]
    <3>1. Reads(r, p, At(b, m, g, p))
      BY <1>1, <1>6, <2>3
    <3>2. p \in Seq(C) /\ c \in C /\ q = Append(p, c) /\ q = Cat(p, <<c>>)
      BY <1>4
    <3>3. <<c>> \in Seq(C)
      BY <3>2
    <3> HIDE DEF p, q, c
    <3>4. Read(At(b, m, g, p), c) = At(b, m, g, q)
      BY <3>2
    <3>5. Reads(At(b, m, g, p), <<c>>, At(b, m, g, q))
      BY <3>4, ReadsOne
    <3>6. Reads(r, Cat(p, <<c>>), At(b, m, g, q))
      BY <3>1, <3>2, <3>3, <3>5, ReadsCat
    <3>7. Reads(r, q, At(b, m, g, q))
      BY <3>2, <3>6
    <3>8. QED
      BY <2>1, <3>7 DEF q
  <2>4. QED
    BY <2>2, <2>3
<1>7. 0 \in G
  BY <1>1
<1>8. n \in G
  <2>1. \A k \in 1..n : k - 1 \in G => k \in G
    BY <1>6
  <2> HIDE DEF G
  <2>2. \A k \in 0..n : k \in G
    BY <1>1, <1>7, <2>1, EveryPlace
  <2>3. QED
    BY <1>1, <2>2
<1>9. QED
  BY <1>1, <1>2, <1>8

\* A name of an assignment: the longest beginning of a key that is one.
NameLike(p) == p # <<>> => p[1] \in NameStart /\ \A i \in DOMAIN p : p[i] \in NameChar

LEMMA NameIs ==
    ASSUME NEW key \in Seq(Byte), NEW n \in 0..Len(key), NameLike(SubSeq(key, 1, n)),
           \A k \in 0..Len(key) : NameLike(SubSeq(key, 1, k)) => k <= n
    PROVE  Name(key) = SubSeq(key, 1, n)
<1> DEFINE names == {p \in Prefixes(key) : NameLike(p)}
           Longest(p) == p \in names /\ \A other \in names : Len(other) <= Len(p)
           it == SubSeq(key, 1, n)
<1>1. \A k \in 0..Len(key) : Len(SubSeq(key, 1, k)) = k
  OBVIOUS
<1>2. \A p \in Prefixes(key) : \E k \in 0..Len(key) : p = SubSeq(key, 1, k) /\ Len(p) = k
  BY <1>1 DEF Prefixes
<1>3. it \in names /\ Len(it) = n
  BY <1>1 DEF Prefixes
<1> HIDE DEF it
<1>4. Longest(it)
  BY <1>2, <1>3
<1>5. ASSUME NEW p, Longest(p) PROVE p = it
  <2>1. PICK k \in 0..Len(key) : p = SubSeq(key, 1, k) /\ Len(p) = k
    BY <1>2, <1>5
  <2>2. k <= n
    BY <1>5, <2>1
  <2>3. n <= k
    BY <1>3, <1>5, <2>1
  <2>4. k = n
    BY <2>2, <2>3
  <2>5. QED
    BY <2>1, <2>4 DEF it
<1>6. Name(key) = CHOOSE p : Longest(p)
  BY DEF Name, NameLike
<1> HIDE DEF Longest
<1>7. QED
  BY <1>4, <1>5, <1>6 DEF it

-----------------------------------------------------------------------------
(***************************************************************************)
(* The name of an assignment.                                              *)
(***************************************************************************)
LEMMA LowerIs ==
    ASSUME NEW b \in Byte
    PROVE  Lower(b) \in 0..287 /\ (Lower(b) \in 97..122 <=> b \in 65..90 \/ b \in 97..122)
<1>1. b \in Int /\ b >= 0 /\ b <= 255
  BY DEF Byte
<1>2. /\ b <= 31 => b \div 32 = 0
      /\ b >= 32 /\ b <= 63 => b \div 32 = 1
      /\ b >= 64 /\ b <= 95 => b \div 32 = 2
      /\ b >= 96 /\ b <= 127 => b \div 32 = 3
      /\ b >= 128 => b \div 32 >= 4
  BY <1>1
<1>3. 0 % 2 = 0 /\ 1 % 2 = 1 /\ 2 % 2 = 0 /\ 3 % 2 = 1
  OBVIOUS
<1>4. Lower(b) = b \/ Lower(b) = b + 32
  BY DEF Lower
<1>5. b \in 64..95 => Lower(b) = b + 32
  BY <1>1, <1>2, <1>3 DEF Lower
<1>6. b \in (32..63) \cup (96..127) => Lower(b) = b
  BY <1>1, <1>2, <1>3 DEF Lower
<1>7. b \in 0..31 => Lower(b) = b + 32
  BY <1>1, <1>2, <1>3 DEF Lower
<1> DEFINE x == Lower(b)
<1>8. /\ x = b \/ x = b + 32
      /\ b >= 64 /\ b <= 95 => x = b + 32
      /\ (b >= 32 /\ b <= 63) \/ (b >= 96 /\ b <= 127) => x = b
      /\ b <= 31 => x = b + 32
  BY <1>1, <1>4, <1>5, <1>6, <1>7
<1> HIDE DEF x
<1>9. x \in 0..287
  BY <1>1, <1>8
<1>10. x \in 97..122 <=> b \in 65..90 \/ b \in 97..122
  <2>1. CASE b <= 31
    BY <1>1, <1>8, <2>1
  <2>2. CASE b >= 32 /\ b <= 63
    BY <1>1, <1>8, <2>2
  <2>3. CASE b >= 64 /\ b <= 95
    BY <1>1, <1>8, <2>3
  <2>4. CASE b >= 96 /\ b <= 127
    BY <1>1, <1>8, <2>4
  <2>5. CASE b >= 128
    BY <1>1, <1>8, <2>5
  <2>6. QED
    BY <1>1, <2>1, <2>2, <2>3, <2>4, <2>5
<1>11. QED
  BY <1>9, <1>10 DEF x

LEMMA MinusIs ==
    ASSUME NEW x \in 0..287, NEW n \in 0..127, NEW k \in 0..26
    PROVE  Minus(x, n) < k <=> (x - n \in 0..(k - 1) \/ x - n - 256 \in 0..(k - 1))
<1>1. x - n >= 0 /\ x - n < 256 => Minus(x, n) = x - n
  BY DEF Minus
<1>2. x - n < 0 => Minus(x, n) = x - n + 256
  BY DEF Minus
<1>3. x - n >= 256 => Minus(x, n) = x - n - 256
  BY DEF Minus
<1> DEFINE w == Minus(x, n)
           d == x - n
           Near == d \in 0..(k - 1) \/ d - 256 \in 0..(k - 1)
<1>4. d \in Int /\ d >= -127 /\ d <= 287 /\ k \in Nat /\ k <= 26
  OBVIOUS
<1>5. /\ d >= 0 /\ d < 256 => w = d
      /\ d < 0 => w = d + 256
      /\ d >= 256 => w = d - 256
  BY <1>1, <1>2, <1>3
<1> HIDE DEF d, w
<1>6. CASE d < 0
  <2>1. w = d + 256 /\ ~(w < k)
    BY <1>4, <1>5, <1>6
  <2>2. ~Near
    BY <1>4, <1>6
  <2>3. QED
    BY <2>1, <2>2 DEF w, d
<1>7. CASE d >= 0 /\ d < 256
  <2>1. w = d
    BY <1>5, <1>7
  <2>2. w < k <=> Near
    BY <1>4, <1>7, <2>1
  <2>3. QED
    BY <2>2 DEF w, d
<1>8. CASE d >= 256
  <2>1. w = d - 256
    BY <1>5, <1>8
  <2>2. w < k <=> Near
    BY <1>4, <1>8, <2>1
  <2>3. QED
    BY <2>2 DEF w, d
<1>9. QED
  BY <1>4, <1>6, <1>7, <1>8

LEMMA AlphabeticIs == ASSUME NEW b \in Byte PROVE Alphabetic(b) <=> b \in Letter
<1>1. Lower(b) \in 0..287 /\ (Lower(b) \in 97..122 <=> b \in Letter)
  <2>1. Lower(b) \in 0..287 /\ (Lower(b) \in 97..122 <=> b \in 65..90 \/ b \in 97..122)
    BY LowerIs
  <2>2. b \in Letter <=> b \in 65..90 \/ b \in 97..122
    BY DEF Letter
  <2>3. QED
    BY <2>1, <2>2
<1> DEFINE x == Lower(b)
           n == 97
           k == 26
<1>2. n \in 0..127 /\ k \in 0..26
  OBVIOUS
<1> HIDE DEF x, n, k
<1>3. x \in 0..287
  BY <1>1 DEF x
<1>4. Minus(x, n) < k <=> (x - n \in 0..(k - 1) \/ x - n - 256 \in 0..(k - 1))
  BY <1>2, <1>3, MinusIs
<1>5. (x - n \in 0..(k - 1) <=> x \in 97..122) /\ x - n - 256 \notin 0..(k - 1)
  BY <1>3 DEF n, k
<1>6. Minus(x, n) < k <=> x \in 97..122
  BY <1>4, <1>5, Zenon
<1>7. QED
  BY <1>1, <1>6 DEF Alphabetic, x, n, k

LEMMA NameByteIs == ASSUME NEW b \in Byte PROVE NameByte(b) <=> b \in NameChar
<1> DEFINE n == 48
           k == 10
<1>1. b \in 0..287 /\ b \in 0..255 /\ n \in 0..127 /\ k \in 0..26
  BY DEF Byte
<1> HIDE DEF n, k
<1>2. Minus(b, n) < k <=> (b - n \in 0..(k - 1) \/ b - n - 256 \in 0..(k - 1))
  BY <1>1, MinusIs
<1>3. (b - n \in 0..(k - 1) <=> b \in Digit) /\ b - n - 256 \notin 0..(k - 1)
  BY <1>1 DEF Digit, n, k
<1>4. Minus(b, n) < k <=> b \in Digit
  BY <1>2, <1>3, Zenon
<1>5. Minus(b, 48) < 10 <=> b \in Digit
  BY <1>4 DEF n, k
<1>6. QED
  BY <1>5, AlphabeticIs DEF NameByte, NameChar, NameStart

\* Where the name of a key ends.
LEMMA KeyName ==
    ASSUME NEW key \in Seq(Byte), key # <<>>, key[1] \in NameStart
    PROVE  /\ Cut(key) = Name(key) /\ Name(key) \in Seq(NameChar)
           /\ Len(Name(key)) >= 1 /\ Name(key)[1] \in NameStart
<1> DEFINE others == {i \in 2..Len(key) : ~NameByte(key[i])}
           First(x) == x \in others /\ \A y \in others : x <= y
<1>1. Len(key) \in Nat /\ Len(key) >= 1 /\ \A i \in 1..Len(key) : key[i] \in Byte
  OBVIOUS
<1>2. key[1] \in NameChar
  BY DEF NameChar
<1>3. \A i \in 2..Len(key) : i \in others <=> key[i] \notin NameChar
  BY <1>1, NameByteIs
<1>4. others \subseteq 2..Len(key)
  OBVIOUS
<1>5. ASSUME NEW n \in 1..Len(key), \A i \in 1..n : key[i] \in NameChar,
             n = Len(key) \/ (n + 1 \in 1..Len(key) /\ key[n + 1] \notin NameChar),
             Cut(key) = SubSeq(key, 1, n)
      PROVE  /\ Cut(key) = Name(key) /\ Name(key) \in Seq(NameChar)
             /\ Len(Name(key)) >= 1 /\ Name(key)[1] \in NameStart
  <2> DEFINE it == SubSeq(key, 1, n)
  <2>1. it \in Seq(NameChar) /\ Len(it) = n /\ it[1] = key[1] /\ \A i \in DOMAIN it : it[i] = key[i]
    <3>1. n \in 1..Len(key) /\ 1 \in 1..n
      BY <1>1
    <3>2. Len(it) = n /\ DOMAIN it = 1..n /\ it = [i \in 1..n |-> key[i]]
      BY <1>1, <3>1
    <3> HIDE DEF it
    <3>3. \A i \in 1..n : it[i] = key[i]
      BY <3>2
    <3>4. it \in [1..n -> NameChar] /\ n \in Nat
      BY <1>5, <3>1, <3>2
    <3>5. it \in Seq(NameChar)
      BY <3>4
    <3>6. QED
      BY <3>1, <3>2, <3>3, <3>5
  <2>2. NameLike(it)
    BY <1>5, <2>1 DEF NameLike
  <2>3. ASSUME NEW k \in 0..Len(key), NameLike(SubSeq(key, 1, k)) PROVE k <= n
    <3> SUFFICES ASSUME k > n PROVE FALSE
      BY <1>1
    <3> DEFINE p == SubSeq(key, 1, k)
    <3>1. n + 1 \in 1..k /\ n + 1 \in 1..Len(key)
      BY <1>1
    <3>2. Len(p) = k /\ p[n + 1] = key[n + 1] /\ DOMAIN p = 1..k
      BY <1>1, <3>1
    <3>3. p # <<>>
      BY <3>1, <3>2
    <3> HIDE DEF p
    <3>4. p[n + 1] \in NameChar
      BY <2>3, <3>1, <3>2, <3>3 DEF NameLike, p
    <3>5. n # Len(key)
      BY <3>1
    <3>6. QED
      BY <1>5, <3>2, <3>4, <3>5
  <2>4. Name(key) = it
    <3>1. n \in 0..Len(key)
      BY <1>1
    <3>2. QED
      BY <2>2, <2>3, <3>1, NameIs
  <2>5. n >= 1
    BY <1>1
  <2> HIDE DEF it
  <2>6. QED
    BY <1>5, <2>1, <2>4, <2>5 DEF it
<1>6. CASE others = {}
  <2>1. Cut(key) = key
    BY <1>6 DEF Cut
  <2>2. SubSeq(key, 1, Len(key)) = key /\ Len(key) \in 1..Len(key)
    BY <1>1
  <2>3. \A i \in 1..Len(key) : i = 1 \/ i \in 2..Len(key)
    BY <1>1
  <2>4. \A i \in 1..Len(key) : key[i] \in NameChar
    BY <1>2, <1>3, <1>6, <2>3
  <2>5. QED
    BY <1>5, <2>1, <2>2, <2>4
<1>7. CASE others # {}
  <2>1. \E x \in others : \A y \in others : ~(y < x)
    <3>1. others \subseteq Nat
      BY <1>1, <1>4
    <3> HIDE DEF others
    <3>2. QED
      BY <1>7, <3>1, Least
  <2>2. PICK x \in others : First(x)
    BY <1>1, <1>4, <2>1
  <2>3. Min(others) = CHOOSE y \in others : \A z \in others : y <= z
    BY DEF Min
  <2>4. Min(others) = x
    <3>1. \A y \in others : First(y) => y = x
      BY <1>1, <1>4, <2>2
    <3>2. First(Min(others))
      BY <2>2, <2>3
    <3>3. QED
      BY <3>1, <3>2
  <2>5. Cut(key) = SubSeq(key, 1, x - 1)
    BY <1>7, <2>4 DEF Cut
  <2>6. x \in 2..Len(key) /\ x - 1 \in 1..Len(key) /\ (x - 1) + 1 = x /\ x \in 1..Len(key)
    BY <1>1, <1>4, <2>2
  <2>7. key[x] \notin NameChar
    BY <1>3, <2>2, <2>6
  <2>8. \A i \in 1..(x - 1) : i = 1 \/ (i \in 2..Len(key) /\ ~(x <= i))
    BY <1>1, <2>6
  <2>9. \A i \in 1..(x - 1) : key[i] \in NameChar
    BY <1>2, <1>3, <2>2, <2>8
  <2> DEFINE n == x - 1
  <2>10. /\ n \in 1..Len(key) /\ n + 1 \in 1..Len(key) /\ key[n + 1] \notin NameChar
         /\ Cut(key) = SubSeq(key, 1, n) /\ \A i \in 1..n : key[i] \in NameChar
    BY <2>5, <2>6, <2>7, <2>9
  <2> HIDE DEF n, others
  <2>11. QED
    BY <1>5, <2>10
<1>8. QED
  BY <1>6, <1>7

LEMMA NoName ==
    ASSUME NEW key \in Seq(Byte), key = <<>> \/ key[1] \notin NameStart
    PROVE  Name(key) = <<>>
<1>1. SubSeq(key, 1, 0) = <<>> /\ Len(key) \in Nat
  OBVIOUS
<1>2. NameLike(SubSeq(key, 1, 0))
  BY <1>1 DEF NameLike
<1>3. ASSUME NEW k \in 0..Len(key), NameLike(SubSeq(key, 1, k)) PROVE k <= 0
  <2> SUFFICES ASSUME k > 0 PROVE FALSE
    BY <1>1
  <2>1. SubSeq(key, 1, k) # <<>> /\ SubSeq(key, 1, k)[1] = key[1] /\ key # <<>>
    BY <1>1
  <2>2. QED
    BY <1>3, <2>1 DEF NameLike
<1>4. QED
  <2>1. 0 \in 0..Len(key)
    BY <1>1
  <2>2. Name(key) = SubSeq(key, 1, 0)
    BY <1>2, <1>3, <2>1, NameIs
  <2>3. QED
    BY <1>1, <2>2

LEMMA Wider ==
    ASSUME NEW S, NEW T, S \subseteq T, NEW s \in Seq(S)
    PROVE  s \in Seq(T)
<1>1. Len(s) \in Nat /\ s = [i \in 1..Len(s) |-> s[i]] /\ \A i \in 1..Len(s) : s[i] \in S
  OBVIOUS
<1>2. \A i \in 1..Len(s) : s[i] \in T
  BY <1>1
<1>3. QED
  BY <1>1, <1>2

LEMMA NameReads ==
    ASSUME NEW b \in Stack, NEW g, NEW name \in Seq(NameChar), Len(name) >= 1, name[1] \in NameStart
    PROVE  Reads(At(b, "gap", g, <<>>), name, At(b, "name", g, name))
<1> DEFINE r == At(b, "gap", g, <<>>)
           c == name[1]
<1>1. Read(r, c) = At(b, "name", g, <<c>>)
  <2>1. InGap(r, c) = At(b, "name", g, <<c>>)
    BY GapName
  <2>2. Read(r, c) = InGap(r, c)
    BY ReadGap
  <2>3. QED
    BY <2>1, <2>2
<1>2. \A h : \A e \in NameChar : Read(At(b, "name", g, h), e) = At(b, "name", g, Append(h, e))
  BY ReadName
<1> HIDE DEF r
<1>3. QED
  <2>1. Reads(r, name, At(b, "name", g, name))
    BY <1>1, <1>2, HeldReads
  <2>2. QED
    BY <2>1 DEF r

LEMMA EnvPart ==
    ASSUME NEW key \in Seq(Byte), NEW value, Faithful(value)
    PROVE  IsPart(env(key, value))
<1> DEFINE part == env(key, value)
<1>1. CASE key = <<>> \/ key[1] \notin NameStart
  <2>1. Name(key) = <<>>
    BY <1>1, NoName
  <2>2. part.meant = <<>>
    BY <2>1 DEF env
  <2>3. part.text = <<>>
    <3>1. CASE key = <<>>
      BY <3>1 DEF env
    <3>2. CASE key # <<>>
      <4>1. key[1] \in Byte
        BY <3>2
      <4>2. ~(key[1] = UNDERSCORE \/ Alphabetic(key[1]))
        BY <1>1, <3>2, <4>1, AlphabeticIs DEF NameStart
      <4>3. QED
        BY <3>2, <4>2 DEF env
    <3>3. QED
      BY <3>1, <3>2
  <2>4. <<>> \in Seq(Int)
    OBVIOUS
  <2> HIDE DEF part
  <2>5. IsPart(part)
    BY <2>2, <2>3, <2>4, CarriesNothing DEF IsPart
  <2>6. QED
    BY <2>5 DEF part
<1>2. CASE key # <<>> /\ key[1] \in NameStart
  <2> DEFINE name == Name(key)
             assign == <<ASSIGN>>
             is == <<IS>>
             head == Cat(Cat(assign, name), is)
             meaning == Cat(head, value.meant)
             equal == <<EQUAL>>
             space == <<SPACE>>
             v == Quoted(value)
             text == Cat(Cat(Cat(name, equal), v), space)
             tail == Cat(v, space)
  <2>1. Cut(key) = name /\ name \in Seq(NameChar) /\ Len(name) >= 1 /\ name[1] \in NameStart
    BY <1>2, KeyName
  <2>2. key[1] = UNDERSCORE \/ Alphabetic(key[1])
    <3>1. key[1] \in Byte
      BY <1>2
    <3>2. QED
      BY <1>2, <3>1, AlphabeticIs DEF NameStart
  <2>3. name # <<>>
    BY <2>1
  <2>4. part.text = Cut(key) \o <<EQUAL>> \o Quoted(value) \o <<SPACE>>
    BY <1>2, <2>2 DEF env
  <2>5. part.text = text
    BY <2>1, <2>4 DEF Cat
  <2>6. part.meant = meaning
    BY <2>3 DEF env, Cat
  <2>7. v \in Seq(Int) /\ value.meant \in Seq(Int)
    BY QuotedType
  <2>8. /\ name \in Seq(Int) /\ equal \in Seq(Int) /\ space \in Seq(Int)
        /\ assign \in Seq(Int) /\ is \in Seq(Int)
    <3>1. NameChar \subseteq Int
      BY DEF NameChar, NameStart, Letter, Digit, UNDERSCORE
    <3>2. equal \in Seq(Int) /\ space \in Seq(Int) /\ assign \in Seq(Int) /\ is \in Seq(Int)
      BY DEF EQUAL, SPACE, ASSIGN, IS
    <3> HIDE DEF name, equal, space, assign, is
    <3>3. name \in Seq(Int)
      BY <2>1, <3>1, Wider
    <3>4. QED
      BY <3>2, <3>3
  <2>9. head \in Seq(Int)
    <3> HIDE DEF name, assign, is
    <3>1. Cat(assign, name) \in Seq(Int)
      BY <2>8, CatSeq
    <3>2. QED
      BY <2>8, <3>1, CatSeq
  <2>10. ASSUME NEW b \in Stack, NEW g \in Seq(Int)
         PROVE  Reads(At(b, "gap", g, <<>>), text, At(b, "gap", Cat(g, meaning), <<>>))
    <3> DEFINE x == Cat(g, head)
               r == At(b, "gap", g, <<>>)
               o == At(b, "name", g, name)
               p == At(b, "word", x, <<>>)
               c == Quote(Surr(value))
               q == At(b, "gap", Cat(x, value.meant), <<>>)
    <3>1. Reads(r, name, o)
      BY <2>1, NameReads
    <3>2. Read(o, EQUAL) = p
      BY ReadName
    <3>3. c \in Quotes
      BY SurrIs, QuotesAre
    <3>4. Read(p, c) = At(Append(b, "word"), Inside(c), x, <<>>)
      BY <3>3, ReadWord
    <3>5. x \in Seq(Int)
      <4> HIDE DEF head
      <4>1. QED
        BY <2>9, CatSeq
    <3>6. Cat(x, value.meant) = Cat(g, meaning)
      <4> HIDE DEF head
      <4>1. QED
        BY <2>7, <2>9, CatCat
    <3> HIDE DEF x, r, o, p
    <3>7. Reads(p, tail, q)
      BY <3>4, <3>5, QuotedReads
    <3>8. Reads(o, equal, p)
      BY <3>2, ReadsOne
    <3> HIDE DEF equal, space, name, v
    <3>9. Cat(name, equal) \in Seq(Int) /\ tail \in Seq(Int)
      BY <2>7, <2>8, CatSeq
    <3>10. Reads(r, Cat(name, equal), p)
      BY <2>8, <3>1, <3>8, ReadsCat
    <3> DEFINE t == Cat(name, equal)
    <3>11. text = Cat(t, tail)
      <4>1. t \in Seq(Int)
        BY <3>9
      <4> HIDE DEF t
      <4>2. Cat(Cat(t, v), space) = Cat(t, Cat(v, space))
        BY <2>7, <2>8, <4>1, CatCat
      <4>3. QED
        BY <4>2 DEF t
    <3> HIDE DEF tail, q
    <3>12. Reads(r, Cat(t, tail), q)
      <4> t \in Seq(Int) /\ Reads(r, t, p)
        BY <3>9, <3>10
      <4> HIDE DEF t
      <4>1. QED
        BY <3>7, <3>9, ReadsCat
    <3>13. QED
      BY <3>6, <3>11, <3>12 DEF r, q
  <2>11. text \in Seq(Int) /\ meaning \in Seq(Int)
    <3> HIDE DEF name, equal, v, space, head
    <3>1. Cat(name, equal) \in Seq(Int)
      BY <2>8, CatSeq
    <3>2. Cat(Cat(name, equal), v) \in Seq(Int)
      BY <2>7, <3>1, CatSeq
    <3>3. text \in Seq(Int)
      BY <2>8, <3>2, CatSeq
    <3>4. meaning \in Seq(Int)
      BY <2>7, <2>9, CatSeq
    <3>5. QED
      BY <3>3, <3>4
  <2> HIDE DEF part, text, meaning
  <2>12. IsPart(part)
    BY <2>5, <2>6, <2>10, <2>11, PartIs
  <2>13. QED
    BY <2>12 DEF part
<1>3. QED
  BY <1>1, <1>2

-----------------------------------------------------------------------------
(***************************************************************************)
(* Redirections: the descriptor with the first character of the operator,  *)
(* then the rest of the operator and the target.                           *)
(***************************************************************************)
LEMMA DecimalSmall ==
    ASSUME NEW n \in 0..9
    PROVE  Decimal(n) = <<48 + n>>
<1> DEFINE digits == CHOOSE f : IsDigits(f, n)
<1>1. IsDigits(digits, n)
  BY DigitsExist
<1>2. Decimal(n) = digits[n]
  <2>1. ~(n < 0)
    OBVIOUS
  <2>2. QED
    BY <2>1, DecimalIs
<1> HIDE DEF digits
<1>3. digits = [k \in 0..n |-> IF k < 10 THEN <<48 + k>> ELSE Append(digits[k \div 10], 48 + (k % 10))]
  BY <1>1 DEF IsDigits
<1>4. \A k \in 0..n : digits[k] = IF k < 10 THEN <<48 + k>> ELSE Append(digits[k \div 10], 48 + (k % 10))
  BY <1>3, Zenon
<1>5. n \in 0..n /\ n < 10
  OBVIOUS
<1>6. digits[n] = <<48 + n>>
  BY <1>4, <1>5
<1>7. QED
  BY <1>2, <1>6

\* head is read as the beginning of a redirection of the descriptor num.
Heads(head, m, num) ==
    \A b \in Stack : \A g \in Seq(Int) :
        Reads(At(b, "gap", g, <<>>), head, At(b, m, Cat(g, Cat(<<REDIR>>, num)), <<>>))

\* rest is read as its end.
Ends(m, rest, meaning) ==
    \A b \in Stack : \A g \in Seq(Int) :
        Reads(At(b, m, g, <<>>), rest, At(b, "gap", Cat(g, meaning), <<>>))

LEMMA RedirectionReads ==
    ASSUME NEW head \in Seq(Int), NEW m, NEW num \in Seq(Int), NEW rest \in Seq(Int),
           NEW meaning \in Seq(Int), Heads(head, m, num), Ends(m, rest, meaning),
           NEW b \in Stack, NEW g \in Seq(Int)
    PROVE  Reads(At(b, "gap", g, <<>>), Cat(head, rest),
                 At(b, "gap", Cat(g, Cat(Cat(<<REDIR>>, num), meaning)), <<>>))
<1> DEFINE one == <<REDIR>>
           x == Cat(one, num)
           y == Cat(g, x)
           o == At(b, m, y, <<>>)
<1>1. one \in Seq(Int)
  BY DEF REDIR
<1> HIDE DEF one
<1>2. x \in Seq(Int)
  BY <1>1, CatSeq
<1>3. Reads(At(b, "gap", g, <<>>), head, o)
  BY DEF Heads, one
<1> HIDE DEF x
<1>4. y \in Seq(Int) /\ Cat(y, meaning) = Cat(g, Cat(x, meaning))
  <2>1. y \in Seq(Int)
    BY <1>2, CatSeq
  <2>2. Cat(y, meaning) = Cat(g, Cat(x, meaning))
    BY <1>2, CatCat
  <2>3. QED
    BY <2>1, <2>2
<1> HIDE DEF y
<1>5. Reads(o, rest, At(b, "gap", Cat(y, meaning), <<>>))
  BY <1>4 DEF Ends
<1> DEFINE r == At(b, "gap", g, <<>>)
           q == At(b, "gap", Cat(y, meaning), <<>>)
<1> HIDE DEF o, r, q
<1>6. Reads(r, Cat(head, rest), q)
  BY <1>3, <1>5, ReadsCat DEF r, q
<1>7. QED
  BY <1>4, <1>6 DEF r, q, x, one

LEMMA LessHeads == <<LESS>> \in Seq(Int) /\ Heads(<<LESS>>, "less", <<48>>)
<1>1. <<REDIR, 48>> = Cat(<<REDIR>>, <<48>>)
  BY DEF Cat
<1>2. ASSUME NEW b \in Stack, NEW g \in Seq(Int)
      PROVE  Reads(At(b, "gap", g, <<>>), <<LESS>>, At(b, "less", Cat(g, <<REDIR, 48>>), <<>>))
  <2> DEFINE r == At(b, "gap", g, <<>>)
             q == At(b, "less", Cat(g, <<REDIR, 48>>), <<>>)
  <2>1. InGap(r, LESS) = q
    BY GapToLess
  <2>2. Read(r, LESS) = InGap(r, LESS)
    BY ReadGap
  <2> HIDE DEF r, q
  <2>3. Reads(r, <<LESS>>, q)
    BY <2>1, <2>2, ReadsOne
  <2>4. QED
    BY <2>3 DEF r, q
<1>3. <<LESS>> \in Seq(Int)
  BY DEF LESS
<1>4. QED
  BY <1>1, <1>2, <1>3 DEF Heads

LEMMA GreaterHeads == <<GREATER>> \in Seq(Int) /\ Heads(<<GREATER>>, "greater", <<49>>)
<1>1. <<REDIR, 49>> = Cat(<<REDIR>>, <<49>>)
  BY DEF Cat
<1>2. ASSUME NEW b \in Stack, NEW g \in Seq(Int)
      PROVE  Reads(At(b, "gap", g, <<>>), <<GREATER>>, At(b, "greater", Cat(g, <<REDIR, 49>>), <<>>))
  <2> DEFINE r == At(b, "gap", g, <<>>)
             q == At(b, "greater", Cat(g, <<REDIR, 49>>), <<>>)
  <2>1. InGap(r, GREATER) = q
    BY GapToGreater
  <2>2. Read(r, GREATER) = InGap(r, GREATER)
    BY ReadGap
  <2> HIDE DEF r, q
  <2>3. Reads(r, <<GREATER>>, q)
    BY <2>1, <2>2, ReadsOne
  <2>4. QED
    BY <2>3 DEF r, q
<1>3. <<GREATER>> \in Seq(Int)
  BY DEF GREATER
<1>4. QED
  BY <1>1, <1>2, <1>3 DEF Heads

LEMMA NumeralType ==
    ASSUME NEW num \in Numeral
    PROVE  num \in Seq(Int) /\ num \in Seq(Digit) /\ Len(num) >= 1 /\ num[1] \in Digit
<1>1. num \in Seq(Digit) /\ num # <<>>
  BY DEF Numeral
<1>2. Digit \subseteq Int
  BY DEF Digit
<1>3. num \in Seq(Int)
  BY <1>1, <1>2, Wider
<1>4. QED
  BY <1>1, <1>3

LEMMA NumberReads ==
    ASSUME NEW num \in Numeral, NEW b \in Stack, NEW g
    PROVE  Reads(At(b, "gap", g, <<>>), num, At(b, "digits", g, num))
<1> DEFINE r == At(b, "gap", g, <<>>)
           c == num[1]
<1>1. num \in Seq(Digit) /\ Len(num) >= 1 /\ c \in Digit
  BY NumeralType
<1>2. Read(r, c) = At(b, "digits", g, <<c>>)
  <2>1. InGap(r, c) = At(b, "digits", g, <<c>>)
    BY <1>1, GapNumber
  <2>2. Read(r, c) = InGap(r, c)
    BY ReadGap
  <2>3. QED
    BY <2>1, <2>2
<1>3. \A h : \A e \in Digit : Read(At(b, "digits", g, h), e) = At(b, "digits", g, Append(h, e))
  BY ReadDigits
<1> HIDE DEF r
<1>4. Reads(r, num, At(b, "digits", g, num))
  BY <1>1, <1>2, <1>3, HeldReads
<1>5. QED
  BY <1>4 DEF r

LEMMA NumberHeads ==
    ASSUME NEW num \in Numeral
    PROVE  /\ Heads(Cat(num, <<LESS>>), "less", num) /\ Cat(num, <<LESS>>) \in Seq(Int)
           /\ Heads(Cat(num, <<GREATER>>), "greater", num) /\ Cat(num, <<GREATER>>) \in Seq(Int)
<1> DEFINE less == <<LESS>>
           greater == <<GREATER>>
<1>1. num \in Seq(Int) /\ less \in Seq(Int) /\ greater \in Seq(Int)
  <2>1. less \in Seq(Int) /\ greater \in Seq(Int)
    BY DEF LESS, GREATER
  <2>2. QED
    BY <2>1, NumeralType
<1>2. ASSUME NEW b \in Stack, NEW g \in Seq(Int)
      PROVE  Reads(At(b, "gap", g, <<>>), Cat(num, less), At(b, "less", Cat(g, Cat(<<REDIR>>, num)), <<>>))
  <2> DEFINE r == At(b, "gap", g, <<>>)
             o == At(b, "digits", g, num)
             q == At(b, "less", Cat(g, Cat(<<REDIR>>, num)), <<>>)
  <2>1. Reads(r, num, o)
    BY NumberReads
  <2>2. Read(o, LESS) = q
    BY ReadDigits
  <2> HIDE DEF r, o, q
  <2>3. Reads(o, less, q)
    BY <2>2, ReadsOne
  <2> HIDE DEF less
  <2>4. Reads(r, Cat(num, less), q)
    BY <1>1, <2>1, <2>3, ReadsCat
  <2>5. QED
    BY <2>4 DEF r, q
<1>3. ASSUME NEW b \in Stack, NEW g \in Seq(Int)
      PROVE  Reads(At(b, "gap", g, <<>>), Cat(num, greater),
                   At(b, "greater", Cat(g, Cat(<<REDIR>>, num)), <<>>))
  <2> DEFINE r == At(b, "gap", g, <<>>)
             o == At(b, "digits", g, num)
             q == At(b, "greater", Cat(g, Cat(<<REDIR>>, num)), <<>>)
  <2>1. Reads(r, num, o)
    BY NumberReads
  <2>2. Read(o, GREATER) = q
    BY ReadDigits
  <2> HIDE DEF r, o, q
  <2>3. Reads(o, greater, q)
    BY <2>2, ReadsOne
  <2> HIDE DEF greater
  <2>4. Reads(r, Cat(num, greater), q)
    BY <1>1, <2>1, <2>3, ReadsCat
  <2>5. QED
    BY <2>4 DEF r, q
<1>4. Cat(num, less) \in Seq(Int) /\ Cat(num, greater) \in Seq(Int)
  BY <1>1, CatSeq
<1>5. QED
  BY <1>2, <1>3, <1>4 DEF Heads

LEMMA Regroup ==
    ASSUME NEW S, NEW g \in Seq(S), NEW x \in Seq(S), NEW y \in Seq(S), NEW z \in Seq(S)
    PROVE  /\ Cat(Cat(Cat(g, x), y), z) = Cat(g, Cat(x, Cat(y, z)))
           /\ Cat(Cat(g, x), y) \in Seq(S) /\ Cat(x, Cat(y, z)) \in Seq(S)
<1> DEFINE u == Cat(g, x)
           v == Cat(y, z)
<1>1. u \in Seq(S) /\ v \in Seq(S)
  BY CatSeq
<1>2. Cat(u, v) = Cat(g, Cat(x, v))
  <2> HIDE DEF v
  <2>1. QED
    BY <1>1, CatCat
<1> HIDE DEF u
<1>3. Cat(Cat(u, y), z) = Cat(u, v)
  BY <1>1, CatCat
<1>4. Cat(u, y) \in Seq(S)
  BY <1>1, CatSeq
<1> HIDE DEF v
<1>5. Cat(x, v) \in Seq(S)
  BY <1>1, CatSeq
<1>6. QED
  BY <1>2, <1>3, <1>4, <1>5 DEF u, v

LEMMA PathTail ==
    ASSUME NEW a, Faithful(a)
    PROVE  /\ Cat(Quoted(a), <<SPACE>>) \in Seq(Int) /\ a.meant \in Seq(Int)
           /\ <<PATH>> \in Seq(Int) /\ Quote(Surr(a)) \in Quotes
<1>1. Quoted(a) \in Seq(Int) /\ a.meant \in Seq(Int)
  BY QuotedType
<1>2. <<SPACE>> \in Seq(Int) /\ <<PATH>> \in Seq(Int)
  BY DEF SPACE, PATH
<1>3. Quote(Surr(a)) \in Quotes
  BY SurrIs, QuotesAre
<1>4. Cat(Quoted(a), <<SPACE>>) \in Seq(Int)
  BY <1>1, <1>2, CatSeq
<1>5. QED
  BY <1>1, <1>2, <1>3, <1>4

LEMMA PathEnds ==
    ASSUME NEW a, Faithful(a), NEW op \in Int, NEW m,
           \A b \in Stack : \A g : \A c \in Quotes :
               Read(At(b, m, g, <<>>), c)
               = At(Append(b, "word"), Inside(c), Cat(Cat(g, <<op>>), <<PATH>>), <<>>)
    PROVE  Ends(m, Cat(Quoted(a), <<SPACE>>), Cat(<<op>>, Cat(<<PATH>>, a.meant)))
<1> DEFINE tail == Cat(Quoted(a), <<SPACE>>)
           one == <<op>>
           path == <<PATH>>
           meaning == Cat(one, Cat(path, a.meant))
<1>1. tail \in Seq(Int) /\ a.meant \in Seq(Int) /\ path \in Seq(Int) /\ Quote(Surr(a)) \in Quotes
  BY PathTail
<1>2. one \in Seq(Int)
  OBVIOUS
<1>3. ASSUME NEW b \in Stack, NEW g \in Seq(Int)
      PROVE  Reads(At(b, m, g, <<>>), tail, At(b, "gap", Cat(g, meaning), <<>>))
  <2> DEFINE x == Cat(Cat(g, one), path)
             r == At(b, m, g, <<>>)
             c == Quote(Surr(a))
  <2>1. Read(r, c) = At(Append(b, "word"), Inside(c), x, <<>>)
    BY <1>1
  <2>2. x \in Seq(Int) /\ Cat(x, a.meant) = Cat(g, meaning)
    <3> HIDE DEF one, path
    <3>1. QED
      BY <1>1, <1>2, Regroup
  <2> HIDE DEF x, r
  <2>3. Reads(r, tail, At(b, "gap", Cat(x, a.meant), <<>>))
    BY <2>1, <2>2, QuotedReads
  <2>4. QED
    BY <2>2, <2>3 DEF r
<1>4. QED
  BY <1>3 DEF Ends

LEMMA FarPathEnds ==
    ASSUME NEW a, Faithful(a), NEW op \in Int, NEW m,
           \A b \in Stack : \A g :
               Read(At(b, m, g, <<>>), GREATER) = At(b, "target", Cat(g, <<op>>), <<>>)
    PROVE  Ends(m, Cat(<<GREATER>>, Cat(Quoted(a), <<SPACE>>)), Cat(<<op>>, Cat(<<PATH>>, a.meant)))
<1> DEFINE tail == Cat(Quoted(a), <<SPACE>>)
           one == <<op>>
           path == <<PATH>>
           greater == <<GREATER>>
           meaning == Cat(one, Cat(path, a.meant))
<1>1. tail \in Seq(Int) /\ a.meant \in Seq(Int) /\ path \in Seq(Int) /\ Quote(Surr(a)) \in Quotes
  BY PathTail
<1>2. one \in Seq(Int) /\ greater \in Seq(Int)
  BY DEF GREATER
<1>3. ASSUME NEW b \in Stack, NEW g \in Seq(Int)
      PROVE  Reads(At(b, m, g, <<>>), Cat(greater, tail), At(b, "gap", Cat(g, meaning), <<>>))
  <2> DEFINE y == Cat(g, one)
             x == Cat(y, path)
             r == At(b, m, g, <<>>)
             o == At(b, "target", y, <<>>)
             c == Quote(Surr(a))
             q == At(b, "gap", Cat(x, a.meant), <<>>)
  <2>1. Read(r, GREATER) = o
    OBVIOUS
  <2>2. Read(o, c) = At(Append(b, "word"), Inside(c), x, <<>>)
    BY <1>1, ReadTarget
  <2>3. x \in Seq(Int) /\ Cat(x, a.meant) = Cat(g, meaning)
    <3> HIDE DEF one, path
    <3>1. QED
      BY <1>1, <1>2, Regroup
  <2> HIDE DEF x, r, o
  <2>4. Reads(o, tail, q)
    BY <2>2, <2>3, QuotedReads
  <2>5. Reads(r, greater, o)
    BY <2>1, ReadsOne
  <2> HIDE DEF q, tail, greater
  <2>6. Reads(r, Cat(greater, tail), q)
    BY <1>1, <1>2, <2>4, <2>5, ReadsCat
  <2>7. QED
    BY <2>3, <2>6 DEF r, q
<1>4. QED
  BY <1>3 DEF Ends

LEMMA DupCarries ==
    ASSUME NEW b \in Stack, NEW num \in Seq(Digit), num \in Seq(Int)
    PROVE  Carries(b, "dup", num, num)
<1> DEFINE n == Len(num)
           ones == [i \in DOMAIN num |-> <<num[i]>>]
<1>1. \A i \in 1..n : num[i] \in Digit
  OBVIOUS
<1>2. ones \in Seq(Seq(Int)) /\ FlattenSeq(ones) = num
  BY Singles
<1>3. Len(ones) = n /\ \A i \in 1..n : ones[i] = <<num[i]>>
  OBVIOUS
<1>4. ASSUME NEW c \in Digit PROVE Carries(b, "dup", <<c>>, <<c>>)
  <2>1. \A g : Read(At(b, "dup", g, <<>>), c) = At(b, "dup", Cat(g, <<c>>), <<>>)
    BY ReadDup
  <2>2. \A g : Reads(At(b, "dup", g, <<>>), <<c>>, Read(At(b, "dup", g, <<>>), c))
    BY ReadsOne
  <2>3. QED
    BY <2>1, <2>2 DEF Carries
<1> HIDE DEF ones, n
<1>5. \A i \in 1..n : Carries(b, "dup", ones[i], ones[i])
  BY <1>1, <1>3, <1>4
<1>6. Carries(b, "dup", FlattenSeq(ones), FlattenSeq(ones))
  BY <1>2, <1>3, <1>5, FlattenCarries
<1>7. QED
  BY <1>2, <1>6

LEMMA DupEnds ==
    ASSUME NEW num \in Numeral, NEW op \in Int, NEW m,
           \A b \in Stack : \A g :
               Read(At(b, m, g, <<>>), AMP) = At(b, "dup", Cat(g, <<op, DUP>>), <<>>)
    PROVE  Ends(m, Cat(Cat(<<AMP>>, num), <<SPACE>>), Cat(<<op>>, Cat(<<DUP>>, num)))
<1> DEFINE one == <<op>>
           dup == <<DUP>>
           amp == <<AMP>>
           space == <<SPACE>>
           meaning == Cat(one, Cat(dup, num))
<1>1. num \in Seq(Int) /\ num \in Seq(Digit)
  BY NumeralType
<1>2. one \in Seq(Int) /\ dup \in Seq(Int) /\ amp \in Seq(Int) /\ space \in Seq(Int)
  BY DEF DUP, AMP, SPACE
<1>3. <<op, DUP>> = Cat(one, dup)
  BY DEF Cat
<1>4. ASSUME NEW b \in Stack, NEW g \in Seq(Int)
      PROVE  Reads(At(b, m, g, <<>>), Cat(Cat(amp, num), space), At(b, "gap", Cat(g, meaning), <<>>))
  <2> DEFINE x == Cat(g, Cat(one, dup))
             y == Cat(x, num)
             r == At(b, m, g, <<>>)
             o == At(b, "dup", x, <<>>)
             p == At(b, "dup", y, <<>>)
             q == At(b, "gap", y, <<>>)
  <2>1. Read(r, AMP) = o
    BY <1>3
  <2>2. x \in Seq(Int) /\ y = Cat(g, meaning)
    <3> HIDE DEF one, dup
    <3>1. Cat(Cat(Cat(g, one), dup), num) = Cat(g, Cat(one, Cat(dup, num)))
      BY <1>1, <1>2, Regroup
    <3>2. Cat(Cat(g, one), dup) \in Seq(Int)
      BY <1>1, <1>2, Regroup
    <3>3. Cat(Cat(g, one), dup) = x
      BY <1>2, CatCat
    <3>4. QED
      BY <3>1, <3>2, <3>3
  <2> HIDE DEF x
  <2>3. Reads(o, num, p)
    BY <1>1, <2>2, DupCarries DEF Carries
  <2> HIDE DEF y
  <2>4. Read(p, SPACE) = q
    BY ReadDup
  <2> HIDE DEF r, o, p, q
  <2>5. Reads(r, amp, o)
    BY <2>1, ReadsOne
  <2>6. Reads(p, space, q)
    BY <2>4, ReadsOne
  <2> HIDE DEF amp, space
  <2>7. Reads(r, Cat(amp, num), p) /\ Cat(amp, num) \in Seq(Int)
    <3>1. Reads(r, Cat(amp, num), p)
      BY <1>1, <1>2, <2>3, <2>5, ReadsCat
    <3>2. Cat(amp, num) \in Seq(Int)
      BY <1>1, <1>2, CatSeq
    <3>3. QED
      BY <3>1, <3>2
  <2> DEFINE t == Cat(amp, num)
  <2>8. t \in Seq(Int) /\ Reads(r, t, p)
    BY <2>7
  <2> HIDE DEF t
  <2>9. Reads(r, Cat(t, space), q)
    BY <1>2, <2>6, <2>8, ReadsCat
  <2>10. QED
    BY <2>2, <2>9 DEF r, q, t
<1>5. QED
  BY <1>4 DEF Ends

LEMMA RedirIs ==
    ASSUME NEW r, NEW head \in Seq(Int), NEW m, NEW num \in Seq(Int), NEW rest \in Seq(Int),
           NEW meaning \in Seq(Int), Heads(head, m, num), Ends(m, rest, meaning),
           redir(r).text = Cat(head, rest), redir(r).meant = Cat(Cat(<<REDIR>>, num), meaning)
    PROVE  IsPart(redir(r))
<1> DEFINE one == <<REDIR>>
           text == Cat(head, rest)
           x == Cat(one, num)
           y == Cat(x, meaning)
           part == redir(r)
<1>1. \A b \in Stack : \A g \in Seq(Int) :
          Reads(At(b, "gap", g, <<>>), text, At(b, "gap", Cat(g, y), <<>>))
  BY RedirectionReads
<1>2. one \in Seq(Int) /\ text \in Seq(Int)
  BY CatSeq DEF REDIR
<1> HIDE DEF one
<1>3. x \in Seq(Int)
  BY <1>2, CatSeq
<1> HIDE DEF x
<1>4. y \in Seq(Int)
  BY <1>3, CatSeq
<1>5. part.text = text /\ part.meant = y
  BY DEF x, one
<1> HIDE DEF y, text, part
<1>6. IsPart(part)
  BY <1>1, <1>2, <1>4, <1>5, PartIs
<1>7. QED
  BY <1>6 DEF part

\* The text and the meaning of a redirection, in the parts they are read in.
LEMMA RedirShape ==
    ASSUME NEW r
    PROVE  /\ redir(r).text = Cat(Cat(RedirText(r), r.to.text), <<SPACE>>)
           /\ redir(r).meant = Cat(RedirMeant(r), r.to.meant)
BY DEF redir, Cat

LEMMA NearRedir ==
    ASSUME NEW r, NEW head \in Seq(Int), NEW m, NEW num \in Seq(Int), NEW op \in Int,
           Heads(head, m, num), RedirText(r) = head,
           RedirMeant(r) = Cat(Cat(<<REDIR>>, num), <<op>>),
           r.to.text \in Seq(Int), r.to.meant \in Seq(Int),
           Ends(m, Cat(r.to.text, <<SPACE>>), Cat(<<op>>, r.to.meant))
    PROVE  IsPart(redir(r))
<1> DEFINE one == <<REDIR>>
           two == <<op>>
           space == <<SPACE>>
           t == r.to.text
           z == r.to.meant
           x == Cat(one, num)
<1>1. one \in Seq(Int) /\ two \in Seq(Int) /\ space \in Seq(Int) /\ t \in Seq(Int) /\ z \in Seq(Int)
  BY DEF REDIR, SPACE
<1>2. redir(r).text = Cat(Cat(head, t), space) /\ redir(r).meant = Cat(Cat(x, two), z)
  BY RedirShape
<1>3. Ends(m, Cat(t, space), Cat(two, z))
  OBVIOUS
<1> HIDE DEF one, two, space, t, z
<1>4. x \in Seq(Int)
  BY <1>1, CatSeq
<1> HIDE DEF x
<1>5. redir(r).text = Cat(head, Cat(t, space))
  BY <1>1, <1>2, CatCat
<1>6. redir(r).meant = Cat(x, Cat(two, z))
  BY <1>1, <1>2, <1>4, CatCat
<1>7. Cat(t, space) \in Seq(Int) /\ Cat(two, z) \in Seq(Int)
  BY <1>1, CatSeq
<1> DEFINE rest == Cat(t, space)
           meaning == Cat(two, z)
<1>8. /\ rest \in Seq(Int) /\ meaning \in Seq(Int) /\ Ends(m, rest, meaning)
      /\ redir(r).text = Cat(head, rest) /\ redir(r).meant = Cat(Cat(<<REDIR>>, num), meaning)
  BY <1>3, <1>5, <1>6, <1>7 DEF x, one
<1> HIDE DEF rest, meaning
<1>9. QED
  BY <1>8, RedirIs

LEMMA FarRedir ==
    ASSUME NEW r, NEW head \in Seq(Int), NEW m, NEW num \in Seq(Int), NEW op \in Int,
           Heads(head, m, num), RedirText(r) = Cat(head, <<GREATER>>),
           RedirMeant(r) = Cat(Cat(<<REDIR>>, num), <<op>>),
           r.to.text \in Seq(Int), r.to.meant \in Seq(Int),
           Ends(m, Cat(<<GREATER>>, Cat(r.to.text, <<SPACE>>)), Cat(<<op>>, r.to.meant))
    PROVE  IsPart(redir(r))
<1> DEFINE one == <<REDIR>>
           two == <<op>>
           greater == <<GREATER>>
           space == <<SPACE>>
           t == r.to.text
           z == r.to.meant
           x == Cat(one, num)
<1>1. /\ one \in Seq(Int) /\ two \in Seq(Int) /\ space \in Seq(Int) /\ t \in Seq(Int) /\ z \in Seq(Int)
      /\ greater \in Seq(Int)
  BY DEF REDIR, SPACE, GREATER
<1>2. /\ redir(r).text = Cat(Cat(Cat(head, greater), t), space)
      /\ redir(r).meant = Cat(Cat(x, two), z)
  BY RedirShape
<1>3. Ends(m, Cat(greater, Cat(t, space)), Cat(two, z))
  OBVIOUS
<1> HIDE DEF one, two, space, t, z, greater
<1>4. x \in Seq(Int)
  BY <1>1, CatSeq
<1> HIDE DEF x
<1> DEFINE rest == Cat(greater, Cat(t, space))
           meaning == Cat(two, z)
<1>5. Cat(Cat(Cat(head, greater), t), space) = Cat(head, rest)
  <2>1. Cat(Cat(Cat(head, greater), t), space) = Cat(head, Cat(greater, Cat(t, space)))
    BY <1>1, Regroup
  <2>2. QED
    BY <2>1
<1>6. redir(r).meant = Cat(x, meaning)
  BY <1>1, <1>2, <1>4, CatCat
<1>7. rest \in Seq(Int)
  BY <1>1, Regroup
<1>8. meaning \in Seq(Int)
  BY <1>1, CatSeq
<1>9. redir(r).text = Cat(head, rest)
  BY <1>2, <1>5
<1>10. Ends(m, rest, meaning) /\ redir(r).meant = Cat(Cat(<<REDIR>>, num), meaning)
  BY <1>3, <1>6 DEF x, one
<1> HIDE DEF rest, meaning
<1>11. QED
  BY <1>7, <1>8, <1>9, <1>10, RedirIs

\* A target after < or >, and one after >> or <>.
Target(to) ==
    /\ to.text \in Seq(Int) /\ to.meant \in Seq(Int)
    /\ Ends("less", Cat(to.text, <<SPACE>>), Cat(<<READ>>, to.meant))
    /\ Ends("greater", Cat(to.text, <<SPACE>>), Cat(<<WRITE>>, to.meant))

FarTarget(to) ==
    /\ to.text \in Seq(Int) /\ to.meant \in Seq(Int)
    /\ Ends("less", Cat(<<GREATER>>, Cat(to.text, <<SPACE>>)), Cat(<<READ_WRITE>>, to.meant))
    /\ Ends("greater", Cat(<<GREATER>>, Cat(to.text, <<SPACE>>)), Cat(<<APPEND>>, to.meant))

LEMMA PathIs ==
    ASSUME NEW a, Faithful(a)
    PROVE  /\ RedirectPath(a).text = Quoted(a) /\ RedirectPath(a).meant = Cat(<<PATH>>, a.meant)
           /\ RedirectPath(a).text \in Seq(Int) /\ RedirectPath(a).meant \in Seq(Int)
<1>1. RedirectPath(a).text = Quoted(a) /\ RedirectPath(a).meant = Cat(<<PATH>>, a.meant)
  BY DEF RedirectPath, Cat
<1>2. Quoted(a) \in Seq(Int) /\ a.meant \in Seq(Int)
  BY QuotedType
<1>3. <<PATH>> \in Seq(Int)
  BY DEF PATH
<1>4. Cat(<<PATH>>, a.meant) \in Seq(Int)
  BY <1>2, <1>3, CatSeq
<1>5. QED
  BY <1>1, <1>2, <1>4

LEMMA PathIsTarget ==
    ASSUME NEW a, Faithful(a)
    PROVE  Target(RedirectPath(a)) /\ FarTarget(RedirectPath(a))
<1>1. Ends("less", Cat(Quoted(a), <<SPACE>>), Cat(<<READ>>, Cat(<<PATH>>, a.meant)))
  <2>1. READ \in Int
    BY DEF READ
  <2>2. \A b \in Stack : \A g : \A c \in Quotes :
            Read(At(b, "less", g, <<>>), c)
            = At(Append(b, "word"), Inside(c), Cat(Cat(g, <<READ>>), <<PATH>>), <<>>)
    BY ReadLess
  <2>3. QED
    BY <2>1, <2>2, PathEnds
<1>2. Ends("greater", Cat(Quoted(a), <<SPACE>>), Cat(<<WRITE>>, Cat(<<PATH>>, a.meant)))
  <2>1. WRITE \in Int
    BY DEF WRITE
  <2>2. \A b \in Stack : \A g : \A c \in Quotes :
            Read(At(b, "greater", g, <<>>), c)
            = At(Append(b, "word"), Inside(c), Cat(Cat(g, <<WRITE>>), <<PATH>>), <<>>)
    BY ReadGreater
  <2>3. QED
    BY <2>1, <2>2, PathEnds
<1>3. Ends("less", Cat(<<GREATER>>, Cat(Quoted(a), <<SPACE>>)), Cat(<<READ_WRITE>>, Cat(<<PATH>>, a.meant)))
  <2>1. READ_WRITE \in Int
    BY DEF READ_WRITE
  <2>2. \A b \in Stack : \A g :
            Read(At(b, "less", g, <<>>), GREATER) = At(b, "target", Cat(g, <<READ_WRITE>>), <<>>)
    BY ReadLess
  <2>3. QED
    BY <2>1, <2>2, FarPathEnds
<1>4. Ends("greater", Cat(<<GREATER>>, Cat(Quoted(a), <<SPACE>>)), Cat(<<APPEND>>, Cat(<<PATH>>, a.meant)))
  <2>1. APPEND \in Int
    BY DEF APPEND
  <2>2. \A b \in Stack : \A g :
            Read(At(b, "greater", g, <<>>), GREATER) = At(b, "target", Cat(g, <<APPEND>>), <<>>)
    BY ReadGreater
  <2>3. QED
    BY <2>1, <2>2, FarPathEnds
<1>5. QED
  BY <1>1, <1>2, <1>3, <1>4, PathIs DEF Target, FarTarget

LEMMA DupIsTarget ==
    ASSUME NEW n \in Nat
    PROVE  Target(RedirectDup(n))
<1> DEFINE num == Decimal(n)
           to == RedirectDup(n)
<1>1. num \in Numeral
  BY DecimalNumeral
<1>2. to.text = Cat(<<AMP>>, num) /\ to.meant = Cat(<<DUP>>, num)
  BY DEF RedirectDup, Cat
<1> HIDE DEF num, to
<1>3. to.text \in Seq(Int) /\ to.meant \in Seq(Int)
  <2>1. num \in Seq(Int)
    BY <1>1, NumeralType
  <2>2. <<AMP>> \in Seq(Int) /\ <<DUP>> \in Seq(Int)
    BY DEF AMP, DUP
  <2>3. Cat(<<AMP>>, num) \in Seq(Int) /\ Cat(<<DUP>>, num) \in Seq(Int)
    BY <2>1, <2>2, CatSeq
  <2>4. QED
    BY <1>2, <2>3
<1>4. Ends("less", Cat(Cat(<<AMP>>, num), <<SPACE>>), Cat(<<READ>>, Cat(<<DUP>>, num)))
  <2>1. READ \in Int
    BY DEF READ
  <2>2. \A b \in Stack : \A g :
            Read(At(b, "less", g, <<>>), AMP) = At(b, "dup", Cat(g, <<READ, DUP>>), <<>>)
    BY ReadLess
  <2>3. QED
    BY <2>1, <2>2, <1>1, DupEnds
<1>5. Ends("greater", Cat(Cat(<<AMP>>, num), <<SPACE>>), Cat(<<WRITE>>, Cat(<<DUP>>, num)))
  <2>1. WRITE \in Int
    BY DEF WRITE
  <2>2. \A b \in Stack : \A g :
            Read(At(b, "greater", g, <<>>), AMP) = At(b, "dup", Cat(g, <<WRITE, DUP>>), <<>>)
    BY ReadGreater
  <2>3. QED
    BY <2>1, <2>2, <1>1, DupEnds
<1>6. Target(to)
  BY <1>2, <1>3, <1>4, <1>5 DEF Target
<1>7. QED
  BY <1>6 DEF to

LEMMA MeantIs ==
    ASSUME NEW r, NEW op, op = (CASE r.mode = "Append" \/ r.append -> APPEND
                                  [] r.mode = "Write" /\ ~r.append -> WRITE
                                  [] r.mode = "Read" -> READ
                                  [] r.mode = "ReadWrite" -> READ_WRITE)
    PROVE  RedirMeant(r) = Cat(Cat(<<REDIR>>, Decimal(r.fd)), <<op>>)
BY DEF RedirMeant, Cat

LEMMA StandardDescriptors ==
    /\ Decimal(0) = <<48>> /\ Decimal(1) = <<49>> /\ Decimal(2) = <<50>> /\ <<50>> \in Numeral
    /\ <<48>> \in Seq(Int) /\ <<49>> \in Seq(Int)
<1>1. Decimal(0) = <<48 + 0>> /\ Decimal(1) = <<48 + 1>> /\ Decimal(2) = <<48 + 2>>
  BY DecimalSmall
<1>2. Decimal(2) \in Numeral
  BY DecimalNumeral
<1>3. QED
  BY <1>1, <1>2

LEMMA OpsAre == READ \in Int /\ WRITE \in Int /\ APPEND \in Int /\ READ_WRITE \in Int
BY DEF READ, WRITE, APPEND, READ_WRITE

LEMMA StdinPart ==
    ASSUME NEW to, Target(to)
    PROVE  IsPart(redir(Stdin(to)))
<1> DEFINE r == Stdin(to)
<1>1. /\ r.kind = "Stdin" /\ r.to = to /\ r.append = FALSE /\ r.fd = 0 /\ r.mode = "Read"
  BY DEF Stdin
<1> HIDE DEF r
<1>2. RedirText(r) = <<LESS>>
  <2>1. RedirText(r) = <<LESS>>
    BY <1>1 DEF RedirText
  <2>2. <<LESS>> = <<LESS>>
    BY DEF Cat, GREATER
  <2>3. QED
    BY <2>1, <2>2
<1>3. RedirMeant(r) = Cat(Cat(<<REDIR>>, <<48>>), <<READ>>)
  <2>1. READ = (CASE r.mode = "Append" \/ r.append -> APPEND
                 [] r.mode = "Write" /\ ~r.append -> WRITE
                 [] r.mode = "Read" -> READ
                 [] r.mode = "ReadWrite" -> READ_WRITE)
    BY <1>1
  <2>2. RedirMeant(r) = Cat(Cat(<<REDIR>>, Decimal(r.fd)), <<READ>>)
    BY <2>1, MeantIs
  <2>3. QED
    BY <1>1, <2>2, StandardDescriptors
<1> DEFINE head == <<LESS>>
           num == <<48>>
<1>4. Heads(head, "less", num) /\ head \in Seq(Int)
  BY LessHeads, StandardDescriptors
<1>5. num \in Seq(Int)
  BY StandardDescriptors, NumeralType
<1>6. RedirText(r) = head /\ RedirMeant(r) = Cat(Cat(<<REDIR>>, num), <<READ>>)
  BY <1>2, <1>3
<1> HIDE DEF num, head
<1>7. IsPart(redir(r))
  BY <1>1, <1>4, <1>5, <1>6, OpsAre, NearRedir DEF Target
<1>8. QED
  BY <1>7 DEF r

LEMMA StdoutPart ==
    ASSUME NEW to, Target(to)
    PROVE  IsPart(redir(Stdout(to, FALSE)))
<1> DEFINE r == Stdout(to, FALSE)
<1>1. /\ r.kind = "Stdout" /\ r.to = to /\ r.append = FALSE /\ r.fd = 1 /\ r.mode = "Write"
  BY DEF Stdout
<1> HIDE DEF r
<1>2. RedirText(r) = <<GREATER>>
  <2>1. RedirText(r) = <<GREATER>>
    BY <1>1 DEF RedirText
  <2>2. <<GREATER>> = <<GREATER>>
    BY DEF Cat, GREATER
  <2>3. QED
    BY <2>1, <2>2
<1>3. RedirMeant(r) = Cat(Cat(<<REDIR>>, <<49>>), <<WRITE>>)
  <2>1. WRITE = (CASE r.mode = "Append" \/ r.append -> APPEND
                 [] r.mode = "Write" /\ ~r.append -> WRITE
                 [] r.mode = "Read" -> READ
                 [] r.mode = "ReadWrite" -> READ_WRITE)
    BY <1>1
  <2>2. RedirMeant(r) = Cat(Cat(<<REDIR>>, Decimal(r.fd)), <<WRITE>>)
    BY <2>1, MeantIs
  <2>3. QED
    BY <1>1, <2>2, StandardDescriptors
<1> DEFINE head == <<GREATER>>
           num == <<49>>
<1>4. Heads(head, "greater", num) /\ head \in Seq(Int)
  BY GreaterHeads, StandardDescriptors
<1>5. num \in Seq(Int)
  BY StandardDescriptors, NumeralType
<1>6. RedirText(r) = head /\ RedirMeant(r) = Cat(Cat(<<REDIR>>, num), <<WRITE>>)
  BY <1>2, <1>3
<1> HIDE DEF num, head
<1>7. IsPart(redir(r))
  BY <1>1, <1>4, <1>5, <1>6, OpsAre, NearRedir DEF Target
<1>8. QED
  BY <1>7 DEF r

LEMMA StdoutAppendPart ==
    ASSUME NEW to, FarTarget(to)
    PROVE  IsPart(redir(Stdout(to, TRUE)))
<1> DEFINE r == Stdout(to, TRUE)
<1>1. /\ r.kind = "Stdout" /\ r.to = to /\ r.append = TRUE /\ r.fd = 1 /\ r.mode = "Write"
  BY DEF Stdout
<1> HIDE DEF r
<1>2. RedirText(r) = Cat(<<GREATER>>, <<GREATER>>)
  <2>1. RedirText(r) = <<GREATER, GREATER>>
    BY <1>1 DEF RedirText
  <2>2. <<GREATER, GREATER>> = Cat(<<GREATER>>, <<GREATER>>)
    BY DEF Cat, GREATER
  <2>3. QED
    BY <2>1, <2>2
<1>3. RedirMeant(r) = Cat(Cat(<<REDIR>>, <<49>>), <<APPEND>>)
  <2>1. APPEND = (CASE r.mode = "Append" \/ r.append -> APPEND
                 [] r.mode = "Write" /\ ~r.append -> WRITE
                 [] r.mode = "Read" -> READ
                 [] r.mode = "ReadWrite" -> READ_WRITE)
    BY <1>1
  <2>2. RedirMeant(r) = Cat(Cat(<<REDIR>>, Decimal(r.fd)), <<APPEND>>)
    BY <2>1, MeantIs
  <2>3. QED
    BY <1>1, <2>2, StandardDescriptors
<1> DEFINE head == <<GREATER>>
           num == <<49>>
<1>4. Heads(head, "greater", num) /\ head \in Seq(Int)
  BY GreaterHeads, StandardDescriptors
<1>5. num \in Seq(Int)
  BY StandardDescriptors, NumeralType
<1>6. RedirText(r) = Cat(head, <<GREATER>>) /\ RedirMeant(r) = Cat(Cat(<<REDIR>>, num), <<APPEND>>)
  BY <1>2, <1>3
<1> HIDE DEF num, head
<1>7. IsPart(redir(r))
  BY <1>1, <1>4, <1>5, <1>6, OpsAre, FarRedir DEF FarTarget
<1>8. QED
  BY <1>7 DEF r

LEMMA StderrPart ==
    ASSUME NEW to, Target(to)
    PROVE  IsPart(redir(Stderr(to, FALSE)))
<1> DEFINE r == Stderr(to, FALSE)
<1>1. /\ r.kind = "Stderr" /\ r.to = to /\ r.append = FALSE /\ r.fd = 2 /\ r.mode = "Write"
  BY DEF Stderr
<1> HIDE DEF r
<1>2. RedirText(r) = Cat(<<50>>, <<GREATER>>)
  <2>1. RedirText(r) = <<50, GREATER>>
    BY <1>1 DEF RedirText
  <2>2. <<50, GREATER>> = Cat(<<50>>, <<GREATER>>)
    BY DEF Cat, GREATER
  <2>3. QED
    BY <2>1, <2>2
<1>3. RedirMeant(r) = Cat(Cat(<<REDIR>>, <<50>>), <<WRITE>>)
  <2>1. WRITE = (CASE r.mode = "Append" \/ r.append -> APPEND
                 [] r.mode = "Write" /\ ~r.append -> WRITE
                 [] r.mode = "Read" -> READ
                 [] r.mode = "ReadWrite" -> READ_WRITE)
    BY <1>1
  <2>2. RedirMeant(r) = Cat(Cat(<<REDIR>>, Decimal(r.fd)), <<WRITE>>)
    BY <2>1, MeantIs
  <2>3. QED
    BY <1>1, <2>2, StandardDescriptors
<1> DEFINE head == Cat(<<50>>, <<GREATER>>)
           num == <<50>>
<1>4. Heads(head, "greater", num) /\ head \in Seq(Int)
  BY NumberHeads, StandardDescriptors
<1>5. num \in Seq(Int)
  BY StandardDescriptors, NumeralType
<1>6. RedirText(r) = head /\ RedirMeant(r) = Cat(Cat(<<REDIR>>, num), <<WRITE>>)
  BY <1>2, <1>3
<1> HIDE DEF num, head
<1>7. IsPart(redir(r))
  BY <1>1, <1>4, <1>5, <1>6, OpsAre, NearRedir DEF Target
<1>8. QED
  BY <1>7 DEF r

LEMMA StderrAppendPart ==
    ASSUME NEW to, FarTarget(to)
    PROVE  IsPart(redir(Stderr(to, TRUE)))
<1> DEFINE r == Stderr(to, TRUE)
<1>1. /\ r.kind = "Stderr" /\ r.to = to /\ r.append = TRUE /\ r.fd = 2 /\ r.mode = "Write"
  BY DEF Stderr
<1> HIDE DEF r
<1>2. RedirText(r) = Cat(Cat(<<50>>, <<GREATER>>), <<GREATER>>)
  <2>1. RedirText(r) = <<50, GREATER, GREATER>>
    BY <1>1 DEF RedirText
  <2>2. <<50, GREATER, GREATER>> = Cat(Cat(<<50>>, <<GREATER>>), <<GREATER>>)
    BY DEF Cat, GREATER
  <2>3. QED
    BY <2>1, <2>2
<1>3. RedirMeant(r) = Cat(Cat(<<REDIR>>, <<50>>), <<APPEND>>)
  <2>1. APPEND = (CASE r.mode = "Append" \/ r.append -> APPEND
                 [] r.mode = "Write" /\ ~r.append -> WRITE
                 [] r.mode = "Read" -> READ
                 [] r.mode = "ReadWrite" -> READ_WRITE)
    BY <1>1
  <2>2. RedirMeant(r) = Cat(Cat(<<REDIR>>, Decimal(r.fd)), <<APPEND>>)
    BY <2>1, MeantIs
  <2>3. QED
    BY <1>1, <2>2, StandardDescriptors
<1> DEFINE head == Cat(<<50>>, <<GREATER>>)
           num == <<50>>
<1>4. Heads(head, "greater", num) /\ head \in Seq(Int)
  BY NumberHeads, StandardDescriptors
<1>5. num \in Seq(Int)
  BY StandardDescriptors, NumeralType
<1>6. RedirText(r) = Cat(head, <<GREATER>>) /\ RedirMeant(r) = Cat(Cat(<<REDIR>>, num), <<APPEND>>)
  BY <1>2, <1>3
<1> HIDE DEF num, head
<1>7. IsPart(redir(r))
  BY <1>1, <1>4, <1>5, <1>6, OpsAre, FarRedir DEF FarTarget
<1>8. QED
  BY <1>7 DEF r

LEMMA CustomReadPart ==
    ASSUME NEW to, Target(to), NEW fd \in Nat
    PROVE  IsPart(redir(Custom(fd, to, "Read")))
<1> DEFINE r == Custom(fd, to, "Read")
<1>1. /\ r.kind = "Custom" /\ r.to = to /\ r.append = FALSE /\ r.fd = fd /\ r.mode = "Read"
  BY DEF Custom
<1> HIDE DEF r
<1> DEFINE num == Decimal(fd)
<1>2. num \in Numeral /\ num \in Seq(Int)
  <2>1. num \in Numeral
    BY DecimalNumeral
  <2>2. QED
    BY <2>1, NumeralType
<1>3. RedirText(r) = Cat(num, <<LESS>>)
  <2>1. RedirText(r) = Decimal(r.fd) \o ModeText[r.mode]
    BY <1>1 DEF RedirText
  <2>2. ModeText[r.mode] = <<LESS>>
    BY <1>1 DEF ModeText
  <2> HIDE DEF num
  <2>3. num \o <<LESS>> = Cat(num, <<LESS>>)
    BY <1>2 DEF Cat, GREATER
  <2>4. QED
    BY <1>1, <2>1, <2>2, <2>3 DEF num
<1>4. RedirMeant(r) = Cat(Cat(<<REDIR>>, num), <<READ>>)
  <2>1. READ = (CASE r.mode = "Append" \/ r.append -> APPEND
                 [] r.mode = "Write" /\ ~r.append -> WRITE
                 [] r.mode = "Read" -> READ
                 [] r.mode = "ReadWrite" -> READ_WRITE)
    BY <1>1
  <2>2. RedirMeant(r) = Cat(Cat(<<REDIR>>, Decimal(r.fd)), <<READ>>)
    BY <2>1, MeantIs
  <2>3. QED
    BY <1>1, <2>2
<1> DEFINE head == Cat(num, <<LESS>>)
<1>5. Heads(head, "less", num) /\ head \in Seq(Int)
  BY <1>2, NumberHeads
<1> HIDE DEF num, head
<1>6. RedirText(r) = head
  BY <1>3 DEF head
<1>7. IsPart(redir(r))
  BY <1>1, <1>2, <1>4, <1>5, <1>6, OpsAre, NearRedir DEF Target
<1>8. QED
  BY <1>7 DEF r

LEMMA CustomWritePart ==
    ASSUME NEW to, Target(to), NEW fd \in Nat
    PROVE  IsPart(redir(Custom(fd, to, "Write")))
<1> DEFINE r == Custom(fd, to, "Write")
<1>1. /\ r.kind = "Custom" /\ r.to = to /\ r.append = FALSE /\ r.fd = fd /\ r.mode = "Write"
  BY DEF Custom
<1> HIDE DEF r
<1> DEFINE num == Decimal(fd)
<1>2. num \in Numeral /\ num \in Seq(Int)
  <2>1. num \in Numeral
    BY DecimalNumeral
  <2>2. QED
    BY <2>1, NumeralType
<1>3. RedirText(r) = Cat(num, <<GREATER>>)
  <2>1. RedirText(r) = Decimal(r.fd) \o ModeText[r.mode]
    BY <1>1 DEF RedirText
  <2>2. ModeText[r.mode] = <<GREATER>>
    BY <1>1 DEF ModeText
  <2> HIDE DEF num
  <2>3. num \o <<GREATER>> = Cat(num, <<GREATER>>)
    BY <1>2 DEF Cat, GREATER
  <2>4. QED
    BY <1>1, <2>1, <2>2, <2>3 DEF num
<1>4. RedirMeant(r) = Cat(Cat(<<REDIR>>, num), <<WRITE>>)
  <2>1. WRITE = (CASE r.mode = "Append" \/ r.append -> APPEND
                 [] r.mode = "Write" /\ ~r.append -> WRITE
                 [] r.mode = "Read" -> READ
                 [] r.mode = "ReadWrite" -> READ_WRITE)
    BY <1>1
  <2>2. RedirMeant(r) = Cat(Cat(<<REDIR>>, Decimal(r.fd)), <<WRITE>>)
    BY <2>1, MeantIs
  <2>3. QED
    BY <1>1, <2>2
<1> DEFINE head == Cat(num, <<GREATER>>)
<1>5. Heads(head, "greater", num) /\ head \in Seq(Int)
  BY <1>2, NumberHeads
<1> HIDE DEF num, head
<1>6. RedirText(r) = head
  BY <1>3 DEF head
<1>7. IsPart(redir(r))
  BY <1>1, <1>2, <1>4, <1>5, <1>6, OpsAre, NearRedir DEF Target
<1>8. QED
  BY <1>7 DEF r

LEMMA CustomAppendPart ==
    ASSUME NEW to, FarTarget(to), NEW fd \in Nat
    PROVE  IsPart(redir(Custom(fd, to, "Append")))
<1> DEFINE r == Custom(fd, to, "Append")
<1>1. /\ r.kind = "Custom" /\ r.to = to /\ r.append = FALSE /\ r.fd = fd /\ r.mode = "Append"
  BY DEF Custom
<1> HIDE DEF r
<1> DEFINE num == Decimal(fd)
<1>2. num \in Numeral /\ num \in Seq(Int)
  <2>1. num \in Numeral
    BY DecimalNumeral
  <2>2. QED
    BY <2>1, NumeralType
<1>3. RedirText(r) = Cat(Cat(num, <<GREATER>>), <<GREATER>>)
  <2>1. RedirText(r) = Decimal(r.fd) \o ModeText[r.mode]
    BY <1>1 DEF RedirText
  <2>2. ModeText[r.mode] = <<GREATER, GREATER>>
    BY <1>1 DEF ModeText
  <2> HIDE DEF num
  <2>3. num \o <<GREATER, GREATER>> = Cat(Cat(num, <<GREATER>>), <<GREATER>>)
    BY <1>2 DEF Cat, GREATER
  <2>4. QED
    BY <1>1, <2>1, <2>2, <2>3 DEF num
<1>4. RedirMeant(r) = Cat(Cat(<<REDIR>>, num), <<APPEND>>)
  <2>1. APPEND = (CASE r.mode = "Append" \/ r.append -> APPEND
                 [] r.mode = "Write" /\ ~r.append -> WRITE
                 [] r.mode = "Read" -> READ
                 [] r.mode = "ReadWrite" -> READ_WRITE)
    BY <1>1
  <2>2. RedirMeant(r) = Cat(Cat(<<REDIR>>, Decimal(r.fd)), <<APPEND>>)
    BY <2>1, MeantIs
  <2>3. QED
    BY <1>1, <2>2
<1> DEFINE head == Cat(num, <<GREATER>>)
<1>5. Heads(head, "greater", num) /\ head \in Seq(Int)
  BY <1>2, NumberHeads
<1> HIDE DEF num, head
<1>6. RedirText(r) = Cat(head, <<GREATER>>)
  BY <1>3 DEF head
<1>7. IsPart(redir(r))
  BY <1>1, <1>2, <1>4, <1>5, <1>6, OpsAre, FarRedir DEF FarTarget
<1>8. QED
  BY <1>7 DEF r

LEMMA CustomReadWritePart ==
    ASSUME NEW to, FarTarget(to), NEW fd \in Nat
    PROVE  IsPart(redir(Custom(fd, to, "ReadWrite")))
<1> DEFINE r == Custom(fd, to, "ReadWrite")
<1>1. /\ r.kind = "Custom" /\ r.to = to /\ r.append = FALSE /\ r.fd = fd /\ r.mode = "ReadWrite"
  BY DEF Custom
<1> HIDE DEF r
<1> DEFINE num == Decimal(fd)
<1>2. num \in Numeral /\ num \in Seq(Int)
  <2>1. num \in Numeral
    BY DecimalNumeral
  <2>2. QED
    BY <2>1, NumeralType
<1>3. RedirText(r) = Cat(Cat(num, <<LESS>>), <<GREATER>>)
  <2>1. RedirText(r) = Decimal(r.fd) \o ModeText[r.mode]
    BY <1>1 DEF RedirText
  <2>2. ModeText[r.mode] = <<LESS, GREATER>>
    BY <1>1 DEF ModeText
  <2> HIDE DEF num
  <2>3. num \o <<LESS, GREATER>> = Cat(Cat(num, <<LESS>>), <<GREATER>>)
    BY <1>2 DEF Cat, GREATER
  <2>4. QED
    BY <1>1, <2>1, <2>2, <2>3 DEF num
<1>4. RedirMeant(r) = Cat(Cat(<<REDIR>>, num), <<READ_WRITE>>)
  <2>1. READ_WRITE = (CASE r.mode = "Append" \/ r.append -> APPEND
                 [] r.mode = "Write" /\ ~r.append -> WRITE
                 [] r.mode = "Read" -> READ
                 [] r.mode = "ReadWrite" -> READ_WRITE)
    BY <1>1
  <2>2. RedirMeant(r) = Cat(Cat(<<REDIR>>, Decimal(r.fd)), <<READ_WRITE>>)
    BY <2>1, MeantIs
  <2>3. QED
    BY <1>1, <2>2
<1> DEFINE head == Cat(num, <<LESS>>)
<1>5. Heads(head, "less", num) /\ head \in Seq(Int)
  BY <1>2, NumberHeads
<1> HIDE DEF num, head
<1>6. RedirText(r) = Cat(head, <<GREATER>>)
  BY <1>3 DEF head
<1>7. IsPart(redir(r))
  BY <1>1, <1>2, <1>4, <1>5, <1>6, OpsAre, FarRedir DEF FarTarget
<1>8. QED
  BY <1>7 DEF r

-----------------------------------------------------------------------------
(***************************************************************************)
(* Parts one after the other, and the expansion made of them.              *)
(***************************************************************************)
LEMMA InTurnPart ==
    ASSUME NEW parts, NEW n \in Nat, DOMAIN parts = 1..n, \A i \in 1..n : IsPart(parts[i])
    PROVE  IsPart(InTurn(parts))
<1> DEFINE texts == [i \in 1..n |-> parts[i].text]
           meanings == [i \in 1..n |-> parts[i].meant]
           part == InTurn(parts)
<1>1. part.text = FlattenSeq(texts) /\ part.meant = FlattenSeq(meanings)
  BY DEF InTurn
<1>2. \A i \in 1..n : /\ parts[i].text \in Seq(Int) /\ parts[i].meant \in Seq(Int)
                      /\ \A b \in Stack : Carries(b, "gap", parts[i].text, parts[i].meant)
  BY DEF IsPart
<1>3. /\ texts \in [1..n -> Seq(Int)] /\ meanings \in [1..n -> Seq(Int)]
      /\ \A b \in Stack : \A i \in 1..n : Carries(b, "gap", texts[i], meanings[i])
  BY <1>2
<1> HIDE DEF texts, meanings, part
<1>4. /\ texts \in Seq(Seq(Int)) /\ Len(texts) = n
      /\ meanings \in Seq(Seq(Int)) /\ Len(meanings) = n
  BY <1>3
<1>5. ASSUME NEW b \in Stack PROVE Carries(b, "gap", FlattenSeq(texts), FlattenSeq(meanings))
  <2>1. \A i \in 1..Len(texts) : Carries(b, "gap", texts[i], meanings[i])
    BY <1>3, <1>4
  <2>2. QED
    BY <1>4, <2>1, FlattenCarries
<1>6. FlattenSeq(texts) \in Seq(Int) /\ FlattenSeq(meanings) \in Seq(Int)
  BY <1>4, FlattenType
<1>7. IsPart(part)
  BY <1>1, <1>5, <1>6 DEF IsPart
<1>8. QED
  BY <1>7 DEF part

LEMMA EnvsPart ==
    ASSUME NEW list, NEW n \in Nat, DOMAIN list = 1..n,
           \A i \in 1..n : list[i].key \in Seq(Byte) /\ Faithful(list[i].value)
    PROVE  IsPart(envs(list))
<1> DEFINE parts == [i \in DOMAIN list |-> env(list[i].key, list[i].value)]
<1>1. DOMAIN parts = 1..n /\ \A i \in 1..n : parts[i] = env(list[i].key, list[i].value)
  OBVIOUS
<1>2. envs(list) = InTurn(parts)
  BY DEF envs
<1> HIDE DEF parts
<1>3. \A i \in 1..n : IsPart(env(list[i].key, list[i].value))
  BY EnvPart
<1>4. \A i \in 1..n : IsPart(parts[i])
  BY <1>1, <1>3
<1>5. QED
  BY <1>1, <1>2, <1>4, InTurnPart

LEMMA ArgsPart ==
    ASSUME NEW list, NEW n \in Nat, DOMAIN list = 1..n, \A i \in 1..n : Faithful(list[i])
    PROVE  IsPart(args(list))
<1> DEFINE parts == [i \in DOMAIN list |-> arg(list[i])]
<1>1. DOMAIN parts = 1..n /\ \A i \in 1..n : parts[i] = arg(list[i])
  OBVIOUS
<1>2. args(list) = InTurn(parts)
  BY DEF args
<1> HIDE DEF parts
<1>3. \A i \in 1..n : IsPart(arg(list[i]))
  BY ArgPart
<1>4. \A i \in 1..n : IsPart(parts[i])
  BY <1>1, <1>3
<1>5. QED
  BY <1>1, <1>2, <1>4, InTurnPart

LEMMA SubstStands ==
    ASSUME NEW inner, IsPart(inner)
    PROVE  StandsFor("Double", Cat(Cat(<<DOLLAR, LPAR>>, inner.text), <<RPAR>>),
                     Cat(Cat(<<SUBST>>, inner.meant), <<END_SUBST>>))
<1> DEFINE open == <<DOLLAR, LPAR>>
           close == <<RPAR>>
           begin == <<SUBST>>
           end == <<END_SUBST>>
           it == inner.text
           means == inner.meant
           text == Cat(Cat(open, it), close)
           meaning == Cat(Cat(begin, means), end)
<1>1. /\ open \in Seq(Int) /\ close \in Seq(Int) /\ begin \in Seq(Int) /\ end \in Seq(Int)
  BY DEF DOLLAR, LPAR, RPAR, SUBST, END_SUBST
<1>2. it \in Seq(Int) /\ means \in Seq(Int) /\ \A b \in Stack : Carries(b, "gap", it, means)
  BY DEF IsPart
<1> HIDE DEF it, means
<1>3. ASSUME NEW b \in Stack, NEW g \in Seq(Int)
      PROVE  Reads(At(Append(b, "word"), "double", g, <<>>), text,
                   At(Append(b, "word"), "double", Cat(g, meaning), <<>>))
  <2> DEFINE d == Append(b, "word")
             e == Append(d, "double")
             x == Cat(g, begin)
             y == Cat(x, means)
             z == Cat(y, end)
             r == At(d, "double", g, <<>>)
             o == At(e, "dollar_in_double", g, <<>>)
             p == At(e, "gap", x, <<>>)
             q == At(e, "gap", y, <<>>)
             s == At(d, "double", z, <<>>)
  <2>1. d \in Stack /\ "double" \in Modes
    BY StackIs, ModesAre
  <2> HIDE DEF d
  <2>2. e \in Stack
    BY <2>1, StackIs
  <2>3. Read(r, DOLLAR) = o
    BY <2>1, DoubleDollar
  <2>4. Read(q, RPAR) = s
    <3>1. InGap(q, RPAR) = s
      BY <2>1, GapEnd
    <3> HIDE DEF e
    <3>2. Read(q, RPAR) = InGap(q, RPAR)
      BY <2>2, ReadGap
    <3>3. QED
      BY <3>1, <3>2
  <2> HIDE DEF e
  <2>5. Read(o, LPAR) = p
    BY <2>2, ReadDollarInDouble
  <2>6. DOLLAR \in Int /\ LPAR \in Int
    BY DEF DOLLAR, LPAR
  <2>7. x \in Seq(Int)
    BY <1>1, CatSeq
  <2>8. Reads(p, it, q)
    BY <1>2, <2>2, <2>7 DEF Carries
  <2>9. z = Cat(g, meaning)
    <3> HIDE DEF begin, end
    <3>1. Cat(Cat(g, begin), means) = Cat(g, Cat(begin, means))
      BY <1>1, <1>2, CatCat
    <3> DEFINE w == Cat(begin, means)
    <3>2. w \in Seq(Int)
      BY <1>1, <1>2, CatSeq
    <3>3. y = Cat(g, w)
      BY <3>1
    <3> HIDE DEF w, y
    <3>4. Cat(y, end) = Cat(g, Cat(w, end))
      BY <1>1, <3>2, <3>3, CatCat
    <3>5. QED
      BY <3>4 DEF w
  <2> HIDE DEF r, o, p, q, s
  <2>10. Reads(r, open, p)
    BY <2>3, <2>5, <2>6, ReadsTwo
  <2>11. Reads(q, close, s)
    BY <2>4, ReadsOne
  <2> HIDE DEF open, close
  <2>12. Reads(r, Cat(open, it), q)
    BY <1>1, <1>2, <2>8, <2>10, ReadsCat
  <2>13. Cat(open, it) \in Seq(Int)
    BY <1>1, <1>2, CatSeq
  <2>14. Reads(r, text, s)
    BY <1>1, <2>11, <2>12, <2>13, ReadsCat
  <2>15. QED
    BY <2>9, <2>14 DEF r, s, d
<1> HIDE DEF text, meaning
<1>4. StandsFor("Double", text, meaning)
  BY <1>3, Insides DEF StandsFor, Carries
<1>5. QED
  BY <1>4 DEF text, meaning, it, means

LEMMA ExpansionFaithful ==
    ASSUME NEW parts, NEW n \in Nat, DOMAIN parts = 1..n, \A i \in 1..n : IsPart(parts[i])
    PROVE  Faithful(Expansion(parts))
<1> DEFINE inner == InTurn(parts)
           open == <<DOLLAR, LPAR>>
           close == <<RPAR>>
           begin == <<SUBST>>
           end == <<END_SUBST>>
           it == inner.text
           means == inner.meant
           text == Cat(Cat(open, it), close)
           meaning == Cat(Cat(begin, means), end)
           a == Expansion(parts)
<1>1. IsPart(inner)
  BY InTurnPart
<1>2. /\ open \in Seq(Int) /\ close \in Seq(Int) /\ begin \in Seq(Int) /\ end \in Seq(Int)
  BY DEF DOLLAR, LPAR, RPAR, SUBST, END_SUBST
<1>3. a.double = TRUE /\ a.meant = meaning
  BY DEF Expansion, Cat
<1>4. a.written["Single"] = text /\ a.written["Double"] = text
  BY DEF Expansion, Both, Cat
<1> HIDE DEF inner
<1>5. StandsFor("Double", text, meaning)
  BY <1>1, SubstStands
<1>6. it \in Seq(Int) /\ means \in Seq(Int)
  BY <1>1 DEF IsPart
<1> HIDE DEF a, open, close, begin, end, it, means
<1>7. text \in Seq(Int) /\ meaning \in Seq(Int)
  <2>1. Cat(open, it) \in Seq(Int) /\ Cat(begin, means) \in Seq(Int)
    BY <1>2, <1>6, CatSeq
  <2>2. QED
    BY <1>2, <2>1, CatSeq
<1> HIDE DEF text, meaning
<1>8. \A surr \in Quotings : a.written[surr] = text
  BY <1>4 DEF Quotings
<1>9. Faithful(a)
  BY <1>3, <1>5, <1>7, <1>8 DEF Faithful
<1>10. QED
  BY <1>9 DEF a

-----------------------------------------------------------------------------
(***************************************************************************)
(* What the calls are given.                                               *)
(***************************************************************************)
LEMMA ByteInt == Byte \subseteq Int
BY DEF Byte

LEMMA SimpleFaithful ==
    ASSUME NEW a \in Simple
    PROVE  Faithful(a)
<1>1. CASE a \in {Str(t) : t \in Texts}
  <2>1. PICK t \in Texts : a = Str(t)
    BY <1>1
  <2>2. t \in Seq(Byte)
    BY IngredientAssumption
  <2>3. t \in Seq(Int)
    BY <2>2, ByteInt, Wider
  <2>4. QED
    BY <2>1, <2>3, StrFaithful
<1>2. CASE a \in {RawBytes(t) : t \in Texts}
  <2>1. PICK t \in Texts : a = RawBytes(t)
    BY <1>2
  <2>2. t \in Seq(Byte)
    BY IngredientAssumption
  <2>3. QED
    BY <2>1, <2>2, RawBytesFaithful
<1>3. CASE a \in {Char(c) : c \in Byte}
  <2>1. PICK c \in Byte : a = Char(c)
    BY <1>3
  <2>2. QED
    BY <2>1, ByteInt, CharFaithful
<1>4. CASE a \in {Display(p) : p \in Pieces}
  <2>1. PICK p \in Pieces : a = Display(p)
    BY <1>4
  <2>2. p \in Seq(Texts) /\ Texts \subseteq Seq(Byte)
    BY IngredientAssumption
  <2>3. Seq(Byte) \subseteq Seq(Int)
    BY ByteInt, Wider
  <2>4. Texts \subseteq Seq(Int)
    BY <2>2, <2>3
  <2>5. p \in Seq(Seq(Int))
    BY <2>2, <2>4, Wider
  <2>6. QED
    BY <2>1, <2>5, DisplayFaithful
<1>5. CASE a \in {Int_(n) : n \in Numbers}
  <2>1. PICK n \in Numbers : a = Int_(n)
    BY <1>5
  <2>2. n \in Int
    BY IngredientAssumption
  <2>3. QED
    BY <2>1, <2>2, IntFaithful
<1>6. CASE a \in {Bool(b) : b \in BOOLEAN}
  <2>1. PICK b \in BOOLEAN : a = Bool(b)
    BY <1>6
  <2>2. QED
    BY <2>1, BoolFaithful
<1>7. CASE a \in {Env(t) : t \in {x \in Texts : \A i \in DOMAIN x : x[i] # RBRACE}}
  <2>1. PICK t \in {x \in Texts : \A i \in DOMAIN x : x[i] # RBRACE} : a = Env(t)
    BY <1>7
  <2>2. t \in Seq(Byte) /\ \A i \in DOMAIN t : t[i] # RBRACE
    BY <2>1, IngredientAssumption
  <2>3. t \in Seq(Int)
    BY <2>2, ByteInt, Wider
  <2>4. /\ Len(t) \in Nat /\ t = [i \in 1..Len(t) |-> t[i]]
        /\ \A i \in 1..Len(t) : t[i] \in Int \ {RBRACE}
    BY <2>2, <2>3
  <2>5. t \in Seq(Int \ {RBRACE})
    BY <2>4
  <2>6. QED
    BY <2>1, <2>5, EnvFaithful
<1>8. QED
  BY <1>1, <1>2, <1>3, <1>4, <1>5, <1>6, <1>7 DEF Simple

LEMMA MadeFaithful ==
    ASSUME NEW level, \A a \in level : Faithful(a), NEW a \in MadeOf(level)
    PROVE  Faithful(a)
<1>1. ASSUME NEW list \in Seq(level), NEW double \in BOOLEAN,
             \A i \in DOMAIN list : list[i].double => double,
             a = [double |-> double, written |-> Both(LAMBDA q : InOrder(list, q)), meant |-> Meaning(list)]
      PROVE  Faithful(a)
  <2>1. Len(list) \in Nat /\ DOMAIN list = 1..Len(list) /\ \A i \in 1..Len(list) : list[i] \in level
    OBVIOUS
  <2>2. \A i \in 1..Len(list) : Faithful(list[i])
    BY <2>1
  <2>3. Faithful([double |-> double, written |-> Both(LAMBDA q : InOrder(list, q)), meant |-> Meaning(list)])
    BY <1>1, <2>1, <2>2, ListFaithful
  <2>4. QED
    BY <1>1, <2>3
<1> DEFINE lists == {list \in Lists : list \in Seq(level)}
           OneType(d) == {list \in lists : \A i \in DOMAIN list : list[i].double = d}
<1>2. CASE \E list \in lists : a = Tuple(list)
  <2>1. PICK list \in lists : a = Tuple(list)
    BY <1>2
  <2> DEFINE double == \E i \in DOMAIN list : list[i].double
  <2>2. /\ list \in Seq(level) /\ double \in BOOLEAN
        /\ \A i \in DOMAIN list : list[i].double => double
    BY <2>1
  <2>3. a = [double |-> double, written |-> Both(LAMBDA q : InOrder(list, q)), meant |-> Meaning(list)]
    BY <2>1 DEF Tuple
  <2> HIDE DEF double
  <2>4. QED
    BY <1>1, <2>2, <2>3
<1>3. CASE \E d \in BOOLEAN : \E list \in OneType(d) : a = Slice(d, list)
  <2>1. PICK d \in BOOLEAN : \E list \in OneType(d) : a = Slice(d, list)
    BY <1>3
  <2>2. PICK list \in OneType(d) : a = Slice(d, list)
    BY <2>1
  <2>3. list \in Seq(level) /\ \A i \in DOMAIN list : list[i].double => d
    BY <2>2
  <2>4. a = [double |-> d, written |-> Both(LAMBDA q : InOrder(list, q)), meant |-> Meaning(list)]
    BY <2>2 DEF Slice
  <2>5. QED
    BY <1>1, <2>3, <2>4
<1>4. CASE \E d \in BOOLEAN : \E list \in OneType(d) : a = Concat(d, list)
  <2>1. PICK d \in BOOLEAN : \E list \in OneType(d) : a = Concat(d, list)
    BY <1>4
  <2>2. PICK list \in OneType(d) : a = Concat(d, list)
    BY <2>1
  <2>3. list \in Seq(level) /\ \A i \in DOMAIN list : list[i].double => d
    BY <2>2
  <2>4. a = [double |-> d, written |-> Both(LAMBDA q : InOrder(list, q)), meant |-> Meaning(list)]
    BY <2>2 DEF Concat
  <2>5. QED
    BY <1>1, <2>3, <2>4
<1> DEFINE tuples == {Tuple(list) : list \in lists}
           Slices(d) == {Slice(d, list) : list \in OneType(d)}
           Concats(d) == {Concat(d, list) : list \in OneType(d)}
<1>5. MadeOf(level) = tuples \cup (Slices(TRUE) \cup Concats(TRUE)) \cup (Slices(FALSE) \cup Concats(FALSE))
  BY DEF MadeOf
<1>6. a \in tuples => \E list \in lists : a = Tuple(list)
  OBVIOUS
<1>7. \A d \in BOOLEAN : a \in Slices(d) => \E list \in OneType(d) : a = Slice(d, list)
  OBVIOUS
<1>8. \A d \in BOOLEAN : a \in Concats(d) => \E list \in OneType(d) : a = Concat(d, list)
  OBVIOUS
<1> HIDE DEF tuples, lists, OneType, Slices, Concats
<1>9. a \in tuples \/ \E d \in BOOLEAN : a \in Slices(d) \/ a \in Concats(d)
  BY <1>5
<1>10. PICK d \in BOOLEAN : a \in tuples \/ a \in Slices(d) \/ a \in Concats(d)
  BY <1>9
<1>11. QED
  BY <1>2, <1>3, <1>4, <1>6, <1>7, <1>8, <1>10

LEMMA ArgumentFaithful ==
    ASSUME NEW a \in Arguments
    PROVE  Faithful(a)
<1> DEFINE n == Len(Levels)
           G == {k \in 0..n : k = 0 \/ \A x \in Levels[k] : Faithful(x)}
<1>1. n \in Nat /\ DOMAIN Levels = 1..n
  BY LevelAssumption
<1>2. \A k \in 1..n : Levels[k] \subseteq Simple \cup (IF k = 1 THEN {} ELSE MadeOf(Levels[k - 1]))
  BY LevelAssumption
<1> HIDE DEF n
<1>3. 0 \in G
  BY <1>1
<1>4. \A k \in 1..n : k - 1 \in G => k \in G
  <2> SUFFICES ASSUME NEW k \in 1..n, k - 1 \in G PROVE k \in G
    OBVIOUS
  <2>1. k \in 0..n
    BY <1>1
  <2>2. CASE k = 1
    <3>1. Levels[k] \subseteq Simple
      BY <1>2, <2>2
    <3>2. \A x \in Levels[k] : Faithful(x)
      BY <3>1, SimpleFaithful
    <3>3. QED
      BY <2>1, <3>2
  <2>3. CASE k # 1
    <3>1. \A x \in Levels[k - 1] : Faithful(x)
      BY <1>1, <2>3
    <3>2. Levels[k] \subseteq Simple \cup MadeOf(Levels[k - 1])
      BY <1>2, <2>3
    <3>3. \A x \in MadeOf(Levels[k - 1]) : Faithful(x)
      <4> DEFINE level == Levels[k - 1]
      <4> HIDE DEF level
      <4>1. \A x \in level : Faithful(x)
        BY <3>1 DEF level
      <4>2. \A x \in MadeOf(level) : Faithful(x)
        BY <4>1, MadeFaithful
      <4>3. QED
        BY <4>2 DEF level
    <3>4. \A x \in Levels[k] : Faithful(x)
      BY <3>2, <3>3, SimpleFaithful
    <3>5. QED
      BY <2>1, <3>4
  <2>4. QED
    BY <2>2, <2>3
<1> HIDE DEF G
<1>5. \A k \in 0..n : k \in G
  BY <1>1, <1>3, <1>4, EveryPlace
<1>6. PICK k \in 1..n : a \in Levels[k]
  BY <1>1 DEF Arguments
<1>7. k \in G /\ k # 0
  BY <1>1, <1>5
<1>8. QED
  BY <1>6, <1>7 DEF G

LEMMA PathTarget ==
    ASSUME NEW to \in Paths
    PROVE  Target(to) /\ FarTarget(to)
<1>1. PICK a \in Arguments : to = RedirectPath(a)
  BY DEF Paths
<1>2. QED
  BY <1>1, ArgumentFaithful, PathIsTarget

LEMMA AnyTarget ==
    ASSUME NEW to \in Targets
    PROVE  Target(to)
<1>1. CASE to \in Paths
  BY <1>1, PathTarget
<1>2. CASE to \in {RedirectDup(n) : n \in Descriptors}
  <2>1. PICK n \in Descriptors : to = RedirectDup(n)
    BY <1>2
  <2>2. n \in Nat
    BY IngredientAssumption DEF Descriptors
  <2>3. QED
    BY <2>1, <2>2, DupIsTarget
<1>3. QED
  BY <1>1, <1>2 DEF Targets

LEMMA RedirectionPart ==
    ASSUME NEW r \in Redirections
    PROVE  IsPart(redir(r))
<1>1. ASSUME NEW to \in Targets, r = Stdin(to) \/ r = Stdout(to, FALSE) \/ r = Stderr(to, FALSE)
      PROVE  IsPart(redir(r))
  <2>1. Target(to)
    BY AnyTarget
  <2>2. QED
    BY <1>1, <2>1, StdinPart, StdoutPart, StderrPart
<1>2. ASSUME NEW to \in Paths, r = Stdout(to, TRUE) \/ r = Stderr(to, TRUE)
      PROVE  IsPart(redir(r))
  <2>1. FarTarget(to)
    BY PathTarget
  <2>2. QED
    BY <1>2, <2>1, StdoutAppendPart, StderrAppendPart
<1>3. \A fd \in Descriptors : fd \in Nat
  BY IngredientAssumption DEF Descriptors
<1>4. ASSUME NEW fd \in Descriptors, NEW to \in Targets, NEW m \in {"Read", "Write"}, r = Custom(fd, to, m)
      PROVE  IsPart(redir(r))
  <2>1. Target(to) /\ fd \in Nat
    BY <1>3, AnyTarget
  <2>2. QED
    BY <1>4, <2>1, CustomReadPart, CustomWritePart
<1>5. ASSUME NEW fd \in Descriptors, NEW to \in Paths, NEW m \in {"Append", "ReadWrite"}, r = Custom(fd, to, m)
      PROVE  IsPart(redir(r))
  <2>1. FarTarget(to) /\ fd \in Nat
    BY <1>3, PathTarget
  <2>2. QED
    BY <1>5, <2>1, CustomAppendPart, CustomReadWritePart
<1>6. CASE r \in {Stdin(to) : to \in Targets}
  BY <1>1, <1>6
<1>7. CASE r \in {Stdout(to, FALSE) : to \in Targets}
  BY <1>1, <1>7
<1>8. CASE r \in {Stderr(to, FALSE) : to \in Targets}
  BY <1>1, <1>8
<1>9. CASE r \in {Stdout(to, TRUE) : to \in Paths}
  BY <1>2, <1>9
<1>10. CASE r \in {Stderr(to, TRUE) : to \in Paths}
  BY <1>2, <1>10
<1>11. CASE r \in {Custom(fd, to, m) : fd \in Descriptors, to \in Targets, m \in {"Read", "Write"}}
  BY <1>4, <1>11
<1>12. CASE r \in {Custom(fd, to, m) : fd \in Descriptors, to \in Paths, m \in {"Append", "ReadWrite"}}
  BY <1>5, <1>12
<1> DEFINE near == {Custom(fd, to, m) : fd \in Descriptors, to \in Targets, m \in {"Read", "Write"}}
           far == {Custom(fd, to, m) : fd \in Descriptors, to \in Paths, m \in {"Append", "ReadWrite"}}
<1>13. Redirections = {Stdin(to) : to \in Targets} \cup {Stdout(to, FALSE) : to \in Targets}
                      \cup {Stderr(to, FALSE) : to \in Targets}
                      \cup {Stdout(to, TRUE) : to \in Paths} \cup {Stderr(to, TRUE) : to \in Paths}
                      \cup near \cup far
  BY DEF Redirections
<1>14. r \in near => IsPart(redir(r))
  BY <1>11
<1>15. r \in far => IsPart(redir(r))
  BY <1>12
<1> HIDE DEF near, far
<1>16. QED
  BY <1>6, <1>7, <1>8, <1>9, <1>10, <1>13, <1>14, <1>15

-----------------------------------------------------------------------------
(***************************************************************************)
(* The invariant of the builder.                                           *)
(***************************************************************************)
\* The text so far is read as what the calls ask for.
TextOK ==
    /\ buf \in Seq(Int) /\ meant \in Seq(Int)
    /\ Reads(Start, buf, At(<<>>, "gap", meant, <<>>))

\* The expansion that is held is one the shell reads as it is meant.
HeldOK == held = <<>> \/ (held = <<held[1]>> /\ Faithful(held[1]))

\* So is every part of the one under construction.
SubOK ==
    \E S : sub.parts \in Seq(S) /\ \A part \in S : IsPart(part)

IInv == TextOK /\ HeldOK /\ SubOK

LEMMA TextGrows ==
    ASSUME NEW s \in Seq(Int), NEW x \in Seq(Int), NEW part, IsPart(part),
           Reads(Start, s, At(<<>>, "gap", x, <<>>))
    PROVE  /\ s \o part.text \in Seq(Int) /\ x \o part.meant \in Seq(Int)
           /\ Reads(Start, s \o part.text, At(<<>>, "gap", x \o part.meant, <<>>))
<1> DEFINE t == part.text
           y == part.meant
           b == <<>>
           o == At(b, "gap", x, <<>>)
           q == At(b, "gap", Cat(x, y), <<>>)
<1>1. t \in Seq(Int) /\ y \in Seq(Int) /\ \A c \in Stack : Carries(c, "gap", t, y)
  BY DEF IsPart
<1>2. b \in Stack
  BY DEF Stack
<1> HIDE DEF t, y, b
<1>3. Reads(o, t, q)
  BY <1>1, <1>2 DEF Carries
<1>4. Reads(Start, s, o)
  BY DEF b
<1> HIDE DEF o, q
<1>5. Reads(Start, Cat(s, t), q)
  BY <1>1, <1>3, <1>4, ReadsCat
<1>6. Cat(s, t) \in Seq(Int) /\ Cat(x, y) \in Seq(Int)
  BY <1>1, CatSeq
<1>7. Cat(s, t) = s \o part.text /\ Cat(x, y) = x \o part.meant
  BY DEF Cat, t, y
<1>8. q = At(<<>>, "gap", x \o part.meant, <<>>)
  BY <1>7 DEF q, b
<1>9. QED
  BY <1>5, <1>6, <1>7, <1>8

LEMMA ExtendKeeps ==
    ASSUME IInv, NEW from, NEW to, NEW part, IsPart(part), Extend(from, to, part)
    PROVE  IInv'
<1>1. /\ buf' = buf \o part.text /\ meant' = meant \o part.meant
      /\ held' = <<>> /\ sub' = sub
  BY DEF Extend
<1>2. TextOK'
  <2>1. buf \in Seq(Int) /\ meant \in Seq(Int) /\ Reads(Start, buf, At(<<>>, "gap", meant, <<>>))
    BY DEF IInv, TextOK
  <2>2. /\ buf \o part.text \in Seq(Int) /\ meant \o part.meant \in Seq(Int)
        /\ Reads(Start, buf \o part.text, At(<<>>, "gap", meant \o part.meant, <<>>))
    BY <2>1, TextGrows
  <2>3. QED
    BY <1>1, <2>2 DEF TextOK
<1>3. HeldOK'
  BY <1>1 DEF HeldOK
<1>4. SubOK'
  BY <1>1 DEF IInv, SubOK
<1>5. QED
  BY <1>2, <1>3, <1>4 DEF IInv

LEMMA Appended ==
    ASSUME NEW S, NEW parts \in Seq(S), \A p \in S : IsPart(p), NEW part, IsPart(part)
    PROVE  \E T : Append(parts, part) \in Seq(T) /\ \A p \in T : IsPart(p)
<1> DEFINE T == S \cup {part}
<1>1. S \subseteq T /\ part \in T /\ \A p \in T : IsPart(p)
  OBVIOUS
<1> HIDE DEF T
<1>2. parts \in Seq(T)
  BY <1>1, Wider
<1>3. Append(parts, part) \in Seq(T)
  BY <1>1, <1>2
<1>4. QED
  BY <1>1, <1>3

LEMMA ThenKeeps ==
    ASSUME IInv, NEW from, NEW to, NEW part, IsPart(part), Then(from, to, part)
    PROVE  IInv'
<1>1. /\ sub' = [st |-> to, parts |-> Append(sub.parts, part)]
      /\ held' = <<>> /\ buf' = buf /\ meant' = meant
  BY DEF Then
<1>2. TextOK'
  BY <1>1 DEF IInv, TextOK
<1>3. HeldOK'
  BY <1>1 DEF HeldOK
<1>4. SubOK'
  <2>1. PICK S : sub.parts \in Seq(S) /\ \A p \in S : IsPart(p)
    BY DEF IInv, SubOK
  <2>2. \E T : Append(sub.parts, part) \in Seq(T) /\ \A p \in T : IsPart(p)
    BY <2>1, Appended
  <2>3. sub'.parts = Append(sub.parts, part)
    BY <1>1
  <2>4. QED
    BY <2>2, <2>3 DEF SubOK
<1>5. QED
  BY <1>2, <1>3, <1>4 DEF IInv

LEMMA OfferedFaithful ==
    ASSUME IInv, NEW a \in Offered
    PROVE  Faithful(a)
<1>1. held # <<>> /\ (a = held[1] \/ a = Tuple(<<Str(<<SQ, DOLLAR>>), held[1]>>))
  BY DEF Offered
<1>2. Faithful(held[1])
  BY <1>1 DEF IInv, HeldOK
<1>3. CASE a = Tuple(<<Str(<<SQ, DOLLAR>>), held[1]>>)
  <2> DEFINE first == Str(<<SQ, DOLLAR>>)
             second == held[1]
             list == <<first, second>>
             double == \E i \in DOMAIN list : list[i].double
  <2>1. Faithful(first)
    <3>1. <<SQ, DOLLAR>> \in Seq(Int)
      BY DEF SQ, DOLLAR
    <3>2. QED
      BY <3>1, StrFaithful
  <2>2. a = [double |-> double, written |-> Both(LAMBDA q : InOrder(list, q)), meant |-> Meaning(list)]
    BY <1>3 DEF Tuple
  <2> HIDE DEF first, second
  <2>3. DOMAIN list = 1..2 /\ list[1] = first /\ list[2] = second /\ \A i \in 1..2 : i = 1 \/ i = 2
    OBVIOUS
  <2>4. \A i \in 1..2 : Faithful(list[i])
    BY <1>2, <2>1, <2>3 DEF second
  <2>5. double \in BOOLEAN /\ \A i \in 1..2 : list[i].double => double
    BY <2>3
  <2> HIDE DEF list, double
  <2>6. Faithful([double |-> double, written |-> Both(LAMBDA q : InOrder(list, q)), meant |-> Meaning(list)])
    BY <2>3, <2>4, <2>5, ListFaithful
  <2>7. QED
    BY <2>2, <2>6
<1>4. QED
  BY <1>1, <1>2, <1>3

LEMMA UsableFaithful ==
    ASSUME IInv, NEW odd \in BOOLEAN, NEW a \in Usable(odd)
    PROVE  Faithful(a)
<1>1. a \in Args \/ a \in OddArgs \/ a \in Offered
  BY DEF Usable
<1>2. a \in Arguments \/ a \in Offered
  BY <1>1, CallAssumption
<1>3. QED
  BY <1>2, ArgumentFaithful, OfferedFaithful

LEMMA NamesAre ==
    ASSUME NEW odd \in BOOLEAN, NEW key \in Names(odd)
    PROVE  key \in Seq(Byte)
BY CallAssumption DEF Names

LEMMA RedirectedPart ==
    ASSUME IInv, NEW odd \in BOOLEAN, NEW r \in Redirected(odd)
    PROVE  IsPart(redir(r))
<1>1. CASE r \in Redirects \cup OddRedirects
  BY <1>1, CallAssumption, RedirectionPart
<1>2. CASE r \in {Stdout(RedirectPath(a), FALSE) : a \in Offered}
  <2>1. PICK a \in Offered : r = Stdout(RedirectPath(a), FALSE)
    BY <1>2
  <2>2. Target(RedirectPath(a))
    BY OfferedFaithful, PathIsTarget
  <2>3. QED
    BY <2>1, <2>2, StdoutPart
<1>3. QED
  BY <1>1, <1>2 DEF Redirected

LEMMA EnvListPart ==
    ASSUME NEW list \in EnvLists
    PROVE  IsPart(envs(list))
<1>1. list \in Seq([key : Seq(Byte), value : Arguments])
  BY CallAssumption
<1>2. Len(list) \in Nat /\ DOMAIN list = 1..Len(list)
  BY <1>1
<1> DEFINE Pair == [key : Seq(Byte), value : Arguments]
<1>p. \A p \in Pair : p.key \in Seq(Byte) /\ p.value \in Arguments
  OBVIOUS
<1> HIDE DEF Pair
<1>e. \A i \in 1..Len(list) : list[i] \in Pair
  <2>1. list \in Seq(Pair)
    BY <1>1 DEF Pair
  <2>2. QED
    BY <2>1
<1>3. \A i \in 1..Len(list) : list[i].key \in Seq(Byte) /\ list[i].value \in Arguments
  BY <1>p, <1>e
<1>4. \A i \in 1..Len(list) : list[i].key \in Seq(Byte) /\ Faithful(list[i].value)
  BY <1>3, ArgumentFaithful
<1>5. QED
  BY <1>2, <1>4, EnvsPart

LEMMA ArgListPart ==
    ASSUME NEW list \in ArgLists
    PROVE  IsPart(args(list))
<1>1. list \in Seq(Arguments)
  BY CallAssumption
<1>2. Len(list) \in Nat /\ DOMAIN list = 1..Len(list) /\ \A i \in 1..Len(list) : list[i] \in Arguments
  BY <1>1
<1>3. \A i \in 1..Len(list) : Faithful(list[i])
  BY <1>2, ArgumentFaithful
<1>4. QED
  BY <1>2, <1>3, ArgsPart

LEMMA AffordableIs == Affordable \subseteq BOOLEAN
BY DEF Affordable

\* Nothing is read in an empty text.
LEMMA StartReads == Reads(Start, <<>>, At(<<>>, "gap", <<>>, <<>>))
<1>1. Append(<<>>, "gap") = <<"gap">>
  OBVIOUS
<1>2. Start = At(<<>>, "gap", <<>>, <<>>)
  BY <1>1 DEF Start, At
<1>3. Reads(Start, <<>>, Start)
  BY ReadsNothing
<1>4. QED
  BY <1>2, <1>3

LEMMA NoParts == \E S : <<>> \in Seq(S) /\ \A p \in S : IsPart(p)
<1>1. <<>> \in Seq({}) /\ \A p \in {} : IsPart(p)
  OBVIOUS
<1> DEFINE none == {}
           empty == <<>>
<1>2. empty \in Seq(none) /\ \A p \in none : IsPart(p)
  BY <1>1
<1> HIDE DEF none, empty
<1>3. \E S : empty \in Seq(S) /\ \A p \in S : IsPart(p)
  BY <1>2
<1>4. QED
  BY <1>3 DEF empty

LEMMA InitIInv == Init => IInv
<1> SUFFICES ASSUME Init PROVE IInv
  OBVIOUS
<1>1. HeldOK
  BY DEF Init, HeldOK
<1>2. SubOK
  <2>1. sub.parts = <<>>
    BY DEF Init, NoSub
  <2>2. \E S : sub.parts \in Seq(S) /\ \A p \in S : IsPart(p)
    BY <2>1, NoParts
  <2>3. QED
    BY <2>2 DEF SubOK
<1>3. CASE buf = <<>> /\ meant = <<>>
  <2>1. TextOK
    BY <1>3, StartReads DEF TextOK
  <2>2. QED
    BY <1>1, <1>2, <2>1 DEF IInv
<1>4. CASE \E raw \in Raws : buf = raw.text /\ meant = raw.meant
  <2>1. PICK raw \in Raws : buf = raw.text /\ meant = raw.meant
    BY <1>4
  <2> DEFINE q == [modes |-> <<"gap">>, got |-> meant, held |-> <<>>]
  <2>2. buf \in Seq(Byte) /\ meant \in Seq(Int) /\ Reading(buf) = q
    BY <2>1, RawAssumption
  <2>3. buf \in Seq(Int)
    BY <2>2, ByteInt, Wider
  <2>4. q = At(<<>>, "gap", meant, <<>>)
    <3>1. Append(<<>>, "gap") = <<"gap">>
      OBVIOUS
    <3>2. QED
      BY <3>1 DEF At
  <2> HIDE DEF q
  <2>5. Reads(Start, buf, q)
    <3>1. Len(buf) \in Nat
      BY <2>3
    <3>2. QED
      BY <2>2, <3>1, ReadingReads
  <2>6. TextOK
    BY <2>2, <2>3, <2>4, <2>5 DEF TextOK
  <2>7. QED
    BY <1>1, <1>2, <2>6 DEF IInv
<1>5. QED
  BY <1>3, <1>4 DEF Init

\* One call: from one state to the next the invariant stays.
LEMMA NextIInv == IInv /\ [Next]_vars => IInv'
<1> SUFFICES ASSUME IInv, [Next]_vars PROVE IInv'
  OBVIOUS
<1>1. ASSUME Command_env PROVE IInv'
  <2>1. PICK odd \in Affordable, oddName \in Affordable :
               \E key \in Names(oddName), value \in Usable(odd) :
                   Extend({"NeedProg"}, "NeedProg", env(key, value))
    BY <1>1 DEF Command_env
  <2>2. PICK key \in Names(oddName), value \in Usable(odd) :
               Extend({"NeedProg"}, "NeedProg", env(key, value))
    BY <2>1
  <2>3. odd \in BOOLEAN /\ oddName \in BOOLEAN
    BY AffordableIs
  <2>4. key \in Seq(Byte) /\ Faithful(value)
    BY <2>3, NamesAre, UsableFaithful
  <2>5. IsPart(env(key, value))
    BY <2>4, EnvPart
  <2>6. QED
    BY <2>2, <2>5, ExtendKeeps
<1>2. ASSUME Command_envs PROVE IInv'
  <2>1. PICK list \in EnvLists : Extend({"NeedProg"}, "NeedProg", envs(list))
    BY <1>2 DEF Command_envs
  <2>2. QED
    BY <2>1, EnvListPart, ExtendKeeps
<1>3. ASSUME Command_redirect PROVE IInv'
  <2>1. PICK s \in {"NeedProg", "NeedTerm"}, odd \in Affordable :
               \E r \in Redirected(odd) : Extend({s}, s, redir(r))
    BY <1>3 DEF Command_redirect
  <2>2. PICK r \in Redirected(odd) : Extend({s}, s, redir(r))
    BY <2>1
  <2>3. IsPart(redir(r))
    BY AffordableIs, RedirectedPart
  <2>4. QED
    BY <2>2, <2>3, ExtendKeeps
<1>4. ASSUME Command_prog PROVE IInv'
  <2>1. PICK odd \in Affordable : \E a \in Usable(odd) : Extend({"NeedProg"}, "NeedTerm", arg(a))
    BY <1>4 DEF Command_prog
  <2>2. PICK a \in Usable(odd) : Extend({"NeedProg"}, "NeedTerm", arg(a))
    BY <2>1
  <2>3. IsPart(arg(a))
    <3>1. Faithful(a)
      BY AffordableIs, UsableFaithful
    <3>2. QED
      BY <3>1, ArgPart
  <2>4. QED
    BY <2>2, <2>3, ExtendKeeps
<1>5. ASSUME Command_arg PROVE IInv'
  <2>1. PICK odd \in Affordable : \E a \in Usable(odd) : Extend({"NeedTerm"}, "NeedTerm", arg(a))
    BY <1>5 DEF Command_arg
  <2>2. PICK a \in Usable(odd) : Extend({"NeedTerm"}, "NeedTerm", arg(a))
    BY <2>1
  <2>3. IsPart(arg(a))
    <3>1. Faithful(a)
      BY AffordableIs, UsableFaithful
    <3>2. QED
      BY <3>1, ArgPart
  <2>4. QED
    BY <2>2, <2>3, ExtendKeeps
<1>6. ASSUME Command_args PROVE IInv'
  <2>1. PICK list \in ArgLists : Extend({"NeedTerm"}, "NeedTerm", args(list))
    BY <1>6 DEF Command_args
  <2>2. QED
    BY <2>1, ArgListPart, ExtendKeeps
<1>7. ASSUME Command_and PROVE IInv'
  <2>1. Extend({"NeedTerm"}, "NeedProg", AndPart)
    BY <1>7 DEF Command_and
  <2>2. QED
    BY <2>1, AndIsPart, ExtendKeeps
<1>8. ASSUME Command_or PROVE IInv'
  <2>1. Extend({"NeedTerm"}, "NeedProg", OrPart)
    BY <1>8 DEF Command_or
  <2>2. QED
    BY <2>1, OrIsPart, ExtendKeeps
<1>9. ASSUME Command_pipe PROVE IInv'
  <2>1. Extend({"NeedTerm"}, "NeedProg", PipePart)
    BY <1>9 DEF Command_pipe
  <2>2. QED
    BY <2>1, PipeIsPart, ExtendKeeps
<1>10. ASSUME Command_complete PROVE IInv'
  <2>1. PICK bg \in BOOLEAN :
               Extend({"NeedTerm"}, "Completed", IF bg THEN BackgroundPart ELSE TermPart)
    BY <1>10 DEF Command_complete
  <2>2. CASE bg
    <3>1. Extend({"NeedTerm"}, "Completed", BackgroundPart)
      BY <2>1, <2>2
    <3>2. QED
      BY <3>1, BackgroundIsPart, ExtendKeeps
  <2>3. CASE ~bg
    <3>1. Extend({"NeedTerm"}, "Completed", TermPart)
      BY <2>1, <2>3
    <3>2. QED
      BY <3>1, TermIsPart, ExtendKeeps
  <2>4. QED
    BY <2>2, <2>3
<1>11. ASSUME Command_chain PROVE IInv'
  <2>1. Extend({"Completed"}, "NeedProg", Nothing)
    BY <1>11 DEF Command_chain
  <2>2. QED
    BY <2>1, NothingIsPart, ExtendKeeps
<1>12. ASSUME Command_take_inner PROVE IInv'
  <2>1. buf' = <<>> /\ meant' = <<>> /\ sub' = sub /\ held' = held
    BY <1>12 DEF Command_take_inner
  <2>2. TextOK'
    BY <2>1, StartReads DEF TextOK
  <2>3. HeldOK' /\ SubOK'
    BY <2>1 DEF IInv, HeldOK, SubOK
  <2>4. QED
    BY <2>2, <2>3 DEF IInv
<1>13. ASSUME Expand_env PROVE IInv'
  <2>1. PICK odd \in Affordable, oddName \in Affordable :
               \E key \in Names(oddName), value \in Usable(odd) :
                   Then({"NeedProg"}, "NeedProg", env(key, value))
    BY <1>13 DEF Expand_env
  <2>2. PICK key \in Names(oddName), value \in Usable(odd) :
               Then({"NeedProg"}, "NeedProg", env(key, value))
    BY <2>1
  <2>3. odd \in BOOLEAN /\ oddName \in BOOLEAN
    BY AffordableIs
  <2>4. key \in Seq(Byte) /\ Faithful(value)
    BY <2>3, NamesAre, UsableFaithful
  <2>5. IsPart(env(key, value))
    BY <2>4, EnvPart
  <2>6. QED
    BY <2>2, <2>5, ThenKeeps
<1>14. ASSUME Expand_envs PROVE IInv'
  <2>1. PICK list \in EnvLists : Then({"NeedProg"}, "NeedProg", envs(list))
    BY <1>14 DEF Expand_envs
  <2>2. QED
    BY <2>1, EnvListPart, ThenKeeps
<1>15. ASSUME Expand_redirect PROVE IInv'
  <2>1. PICK s \in {"NeedProg", "NeedTerm"}, odd \in Affordable :
               \E r \in Redirected(odd) : Then({s}, s, redir(r))
    BY <1>15 DEF Expand_redirect
  <2>2. PICK r \in Redirected(odd) : Then({s}, s, redir(r))
    BY <2>1
  <2>3. IsPart(redir(r))
    BY AffordableIs, RedirectedPart
  <2>4. QED
    BY <2>2, <2>3, ThenKeeps
<1>16. ASSUME Expand_prog PROVE IInv'
  <2>1. PICK odd \in Affordable : \E a \in Usable(odd) : Then({"NeedProg"}, "NeedTerm", arg(a))
    BY <1>16 DEF Expand_prog
  <2>2. PICK a \in Usable(odd) : Then({"NeedProg"}, "NeedTerm", arg(a))
    BY <2>1
  <2>3. IsPart(arg(a))
    <3>1. Faithful(a)
      BY AffordableIs, UsableFaithful
    <3>2. QED
      BY <3>1, ArgPart
  <2>4. QED
    BY <2>2, <2>3, ThenKeeps
<1>17. ASSUME Expand_arg PROVE IInv'
  <2>1. PICK odd \in Affordable : \E a \in Usable(odd) : Then({"NeedTerm"}, "NeedTerm", arg(a))
    BY <1>17 DEF Expand_arg
  <2>2. PICK a \in Usable(odd) : Then({"NeedTerm"}, "NeedTerm", arg(a))
    BY <2>1
  <2>3. IsPart(arg(a))
    <3>1. Faithful(a)
      BY AffordableIs, UsableFaithful
    <3>2. QED
      BY <3>1, ArgPart
  <2>4. QED
    BY <2>2, <2>3, ThenKeeps
<1>18. ASSUME Expand_args PROVE IInv'
  <2>1. PICK list \in ArgLists : Then({"NeedTerm"}, "NeedTerm", args(list))
    BY <1>18 DEF Expand_args
  <2>2. QED
    BY <2>1, ArgListPart, ThenKeeps
<1>19. ASSUME Expand_and PROVE IInv'
  <2>1. Then({"NeedTerm"}, "NeedProg", AndPart)
    BY <1>19 DEF Expand_and
  <2>2. QED
    BY <2>1, AndIsPart, ThenKeeps
<1>20. ASSUME Expand_or PROVE IInv'
  <2>1. Then({"NeedTerm"}, "NeedProg", OrPart)
    BY <1>20 DEF Expand_or
  <2>2. QED
    BY <2>1, OrIsPart, ThenKeeps
<1>21. ASSUME Expand_pipe PROVE IInv'
  <2>1. Then({"NeedTerm"}, "NeedProg", PipePart)
    BY <1>21 DEF Expand_pipe
  <2>2. QED
    BY <2>1, PipeIsPart, ThenKeeps
<1>22. ASSUME Expand_new PROVE IInv'
  <2>1. sub'.parts = <<>> /\ buf' = buf /\ meant' = meant /\ held' = held
    BY <1>22 DEF Expand_new
  <2>2. TextOK' /\ HeldOK'
    BY <2>1 DEF IInv, TextOK, HeldOK
  <2>3. SubOK'
    <3>1. \E S : sub'.parts \in Seq(S) /\ \A p \in S : IsPart(p)
      BY <2>1, NoParts
    <3>2. QED
      BY <3>1 DEF SubOK
  <2>4. QED
    BY <2>2, <2>3 DEF IInv
<1>23. ASSUME Expand_complete PROVE IInv'
  <2> DEFINE longer == Append(sub.parts, TermPart)
  <2>1. held' = <<Expansion(longer)>> /\ sub' = NoSub /\ buf' = buf /\ meant' = meant
    BY <1>23 DEF Expand_complete
  <2>2. TextOK'
    BY <2>1 DEF IInv, TextOK
  <2>3. SubOK'
    <3>1. sub'.parts = <<>>
      BY <2>1 DEF NoSub
    <3>2. \E S : sub'.parts \in Seq(S) /\ \A p \in S : IsPart(p)
      BY <3>1, NoParts
    <3>3. QED
      BY <3>2 DEF SubOK
  <2>4. PICK S : sub.parts \in Seq(S) /\ \A p \in S : IsPart(p)
    BY DEF IInv, SubOK
  <2>5. PICK T : longer \in Seq(T) /\ \A p \in T : IsPart(p)
    BY <2>4, TermIsPart, Appended
  <2> HIDE DEF longer
  <2>6. Len(longer) \in Nat /\ DOMAIN longer = 1..Len(longer) /\ \A i \in 1..Len(longer) : IsPart(longer[i])
    BY <2>5
  <2>7. Faithful(Expansion(longer))
    BY <2>6, ExpansionFaithful
  <2>8. HeldOK'
    <3> DEFINE e == Expansion(longer)
    <3>1. held' = <<e>> /\ Faithful(e)
      BY <2>1, <2>7
    <3> HIDE DEF e
    <3>2. held'[1] = e
      BY <3>1
    <3>3. QED
      BY <3>1, <3>2 DEF HeldOK
  <2>9. QED
    BY <2>2, <2>3, <2>8 DEF IInv
<1>24. ASSUME UNCHANGED vars PROVE IInv'
  BY <1>24 DEF vars, IInv, TextOK, HeldOK, SubOK
<1>25. QED
  BY <1>1, <1>2, <1>3, <1>4, <1>5, <1>6, <1>7, <1>8, <1>9, <1>10,
     <1>11, <1>12, <1>13, <1>14, <1>15, <1>16, <1>17, <1>18, <1>19, <1>20,
     <1>21, <1>22, <1>23, <1>24 DEF Next

\* A text of which the invariant holds is read as it is meant.
LEMMA ReadsWhatIsMeant == IInv => ReadsAsMeant
<1> SUFFICES ASSUME IInv PROVE ReadsAsMeant
  OBVIOUS
<1>1. buf \in Seq(Int) /\ Reads(Start, buf, At(<<>>, "gap", meant, <<>>))
  BY DEF IInv, TextOK
<1>2. Reading(buf) = At(<<>>, "gap", meant, <<>>)
  <2>1. Len(buf) \in Nat
    BY <1>1
  <2>2. QED
    BY <1>1, <2>1, ReadsIsReading
<1>3. At(<<>>, "gap", meant, <<>>) = [modes |-> <<"gap">>, got |-> meant, held |-> <<>>]
  <2>1. Append(<<>>, "gap") = <<"gap">>
    OBVIOUS
  <2>2. QED
    BY <2>1 DEF At
<1>4. QED
  BY <1>2, <1>3 DEF ReadsAsMeant

\* After every call the shell reads the text as it was asked for: whatever the
\* arguments, keys and redirections are, and however deep they are nested.
THEOREM TextReadsAsMeant == Spec => []ReadsAsMeant
BY ReadsWhatIsMeant, InitIInv, NextIInv, PTL DEF Spec

-----------------------------------------------------------------------------
(***************************************************************************)
(* Judging what is read, as a relation: a list that stands at r stands     *)
(* at q after the marks.  The lemmas are those of Reads.                   *)
(***************************************************************************)
Judging(f, r, marks) ==
    /\ DOMAIN f = 0..Len(marks)
    /\ f[0] = r
    /\ \A i \in 1..Len(marks) : f[i] = Judge(f[i - 1], marks[i])

Judged(r, marks, q) == \E f : Judging(f, r, marks) /\ f[Len(marks)] = q

LEMMA JudgedNothing ==
    ASSUME NEW r
    PROVE  Judged(r, <<>>, r)
<1> DEFINE f == [i \in 0..0 |-> r]
<1>1. DOMAIN f = 0..0 /\ f[0] = r /\ 1..0 = {} /\ Len(<<>>) = 0
  OBVIOUS
<1> HIDE DEF f
<1>2. Judging(f, r, <<>>) /\ f[Len(<<>>)] = r
  BY <1>1 DEF Judging
<1>3. QED
  BY <1>2 DEF Judged

LEMMA JudgedOne ==
    ASSUME NEW r, NEW c
    PROVE  Judged(r, <<c>>, Judge(r, c))
<1> DEFINE q == Judge(r, c)
<1> HIDE DEF q
<1> DEFINE f == [i \in 0..1 |-> IF i = 0 THEN r ELSE q]
           marks == <<c>>
<1>1. DOMAIN f = 0..1 /\ f[0] = r /\ f[1] = q
  OBVIOUS
<1>2. Len(marks) = 1 /\ marks[1] = c /\ \A i \in 1..1 : i = 1 /\ i - 1 = 0
  OBVIOUS
<1> HIDE DEF f, marks
<1>3. Judging(f, r, marks) /\ f[Len(marks)] = q
  BY <1>1, <1>2 DEF Judging, q
<1>4. Judged(r, marks, q)
  BY <1>3 DEF Judged
<1>5. QED
  BY <1>4 DEF marks, q

LEMMA JudgedCat ==
    ASSUME NEW S, NEW s \in Seq(S), NEW t \in Seq(S), NEW r, NEW p, NEW q,
           Judged(r, s, p), Judged(p, t, q)
    PROVE  Judged(r, Cat(s, t), q)
<1>1. PICK f : Judging(f, r, s) /\ f[Len(s)] = p
  BY DEF Judged
<1>2. PICK g : Judging(g, p, t) /\ g[Len(t)] = q
  BY DEF Judged
<1> DEFINE m == Len(s)
           n == Len(t)
           u == Cat(s, t)
           h == [i \in 0..(m + n) |-> IF i <= m THEN f[i] ELSE g[i - m]]
<1>3. /\ m \in Nat /\ n \in Nat /\ Len(u) = m + n
      /\ \A i \in 1..m : u[i] = s[i]
      /\ \A i \in 1..n : u[m + i] = t[i]
  BY DEF Cat
<1>4. /\ f[0] = r /\ f[m] = p /\ g[0] = p /\ g[n] = q
      /\ \A i \in 1..m : f[i] = Judge(f[i - 1], s[i])
      /\ \A i \in 1..n : g[i] = Judge(g[i - 1], t[i])
  BY <1>1, <1>2 DEF Judging
<1> HIDE DEF m, n, u
<1>5. /\ DOMAIN h = 0..(m + n)
      /\ \A i \in 0..m : h[i] = f[i]
      /\ \A i \in 1..n : h[m + i] = g[i]
  BY <1>3
<1>6. h[m] = g[0]
  BY <1>3, <1>4, <1>5
<1> HIDE DEF h
<1>7. \A i \in 0..n : h[m + i] = g[i]
  <2>1. \A i \in 0..n : (i = 0 /\ m + i = m) \/ i \in 1..n
    BY <1>3
  <2>2. QED
    BY <1>5, <1>6, <2>1
<1>8. \A i \in 1..(m + n) : h[i] = Judge(h[i - 1], u[i])
  <2> SUFFICES ASSUME NEW i \in 1..(m + n) PROVE h[i] = Judge(h[i - 1], u[i])
    OBVIOUS
  <2>1. CASE i \in 1..m
    <3>1. i \in 0..m /\ i - 1 \in 0..m
      BY <1>3, <2>1
    <3>2. QED
      BY <1>3, <1>4, <1>5, <2>1, <3>1
  <2>2. CASE i \notin 1..m
    <3> DEFINE j == i - m
    <3>1. j \in 1..n /\ j - 1 \in 0..n /\ j \in 0..n /\ m + j = i /\ m + (j - 1) = i - 1
      BY <1>3, <2>2
    <3> HIDE DEF j
    <3>2. h[i] = g[j] /\ h[i - 1] = g[j - 1] /\ u[i] = t[j]
      BY <1>3, <1>7, <3>1
    <3>3. QED
      BY <1>4, <3>1, <3>2
  <2>3. QED
    BY <2>1, <2>2
<1>9. 0 \in 0..m /\ n \in 0..n
  BY <1>3
<1>10. h[0] = r /\ h[Len(u)] = q
  BY <1>3, <1>4, <1>5, <1>7, <1>9
<1>11. Judging(h, r, u)
  BY <1>3, <1>5, <1>8, <1>10 DEF Judging
<1>12. Judged(r, u, q)
  BY <1>10, <1>11 DEF Judged
<1>13. QED
  BY <1>12 DEF u

LEMMA JudgedSame ==
    ASSUME NEW marks, Len(marks) \in Nat, NEW r, NEW p, NEW q, Judged(r, marks, p), Judged(r, marks, q)
    PROVE  p = q
<1>1. PICK f : Judging(f, r, marks) /\ f[Len(marks)] = p
  BY DEF Judged
<1>2. PICK g : Judging(g, r, marks) /\ g[Len(marks)] = q
  BY DEF Judged
<1> DEFINE n == Len(marks)
           G == {i \in 0..n : f[i] = g[i]}
<1>3. /\ n \in Nat /\ f[0] = r /\ g[0] = r /\ f[n] = p /\ g[n] = q
      /\ \A i \in 1..n : f[i] = Judge(f[i - 1], marks[i])
      /\ \A i \in 1..n : g[i] = Judge(g[i - 1], marks[i])
  BY <1>1, <1>2 DEF Judging
<1> HIDE DEF n
<1>4. 0 \in G
  BY <1>3
<1>5. \A i \in 1..n : i - 1 \in G => i \in G
  <2> SUFFICES ASSUME NEW i \in 1..n, i - 1 \in G PROVE i \in G
    OBVIOUS
  <2>1. f[i - 1] = g[i - 1] /\ i \in 0..n
    BY <1>3
  <2>2. f[i] = g[i]
    BY <1>3, <2>1
  <2>3. QED
    BY <2>1, <2>2
<1> HIDE DEF G
<1>6. \A i \in 0..n : i \in G
  BY <1>3, <1>4, <1>5, EveryPlace
<1>7. n \in G
  BY <1>3, <1>6
<1>8. QED
  BY <1>3, <1>7 DEF G

\* The equation of the function inside Judgement.
IsJudgement(f, marks) ==
    f = [i \in 0..Len(marks) |-> IF i = 0 THEN AtFirst ELSE Judge(f[i - 1], marks[i])]

LEMMA JudgementIs == ASSUME NEW marks PROVE Judgement(marks) = (CHOOSE f : IsJudgement(f, marks))[Len(marks)]
BY DEF Judgement, IsJudgement

LEMMA JudgedIsJudgement ==
    ASSUME NEW marks, Len(marks) \in Nat, NEW q, Judged(AtFirst, marks, q)
    PROVE  Judgement(marks) = q
<1> DEFINE n == Len(marks)
           h == CHOOSE f : IsJudgement(f, marks)
<1>1. PICK g : Judging(g, AtFirst, marks) /\ g[n] = q
  BY DEF Judged
<1>2. /\ n \in Nat /\ DOMAIN g = 0..n /\ g[0] = AtFirst
      /\ \A i \in 1..n : g[i] = Judge(g[i - 1], marks[i])
  BY <1>1 DEF Judging
<1>3. \E f : IsJudgement(f, marks)
  <2> DEFINE f == [i \in 0..n |-> g[i]]
  <2>1. f = [i \in 0..n |-> f[i]] /\ \A i \in 0..n : f[i] = g[i]
    OBVIOUS
  <2> HIDE DEF f, n
  <2>2. \A i \in 0..n : f[i] = IF i = 0 THEN AtFirst ELSE Judge(f[i - 1], marks[i])
    <3>1. \A i \in 0..n : i = 0 \/ (i # 0 /\ i \in 1..n /\ i - 1 \in 0..n)
      BY <1>2
    <3>2. QED
      BY <1>2, <2>1, <3>1
  <2>3. f = [i \in 0..n |-> IF i = 0 THEN AtFirst ELSE Judge(f[i - 1], marks[i])]
    BY <2>1, <2>2
  <2>4. IsJudgement(f, marks)
    BY <2>3 DEF IsJudgement, n
  <2>5. QED
    BY <2>4
<1>4. IsJudgement(h, marks)
  BY <1>3
<1>5. Judgement(marks) = h[n]
  BY JudgementIs
<1> HIDE DEF h
<1>6. Judged(AtFirst, marks, h[n])
  <2>1. h = [i \in 0..n |-> IF i = 0 THEN AtFirst ELSE Judge(h[i - 1], marks[i])]
    BY <1>4 DEF IsJudgement
  <2>2. DOMAIN h = 0..n /\ h[0] = AtFirst
    BY <1>2, <2>1
  <2>3. \A i \in 1..n : i \in 0..n /\ i # 0
    OBVIOUS
  <2>4. \A i \in 1..n : h[i] = Judge(h[i - 1], marks[i])
    BY <2>1, <2>3
  <2>5. Judging(h, AtFirst, marks)
    BY <2>2, <2>4 DEF Judging
  <2>6. QED
    BY <2>5 DEF Judged
<1>7. QED
  BY <1>5, <1>6, JudgedSame

LEMMA JudgingExists ==
    ASSUME NEW r, NEW S, NEW marks \in Seq(S)
    PROVE  \E q : Judged(r, marks, q)
<1> DEFINE n == Len(marks)
           Begins(f, k) == /\ DOMAIN f = 0..k /\ f[0] = r
                           /\ \A i \in 1..k : f[i] = Judge(f[i - 1], marks[i])
           G == {k \in 0..n : \E f : Begins(f, k)}
<1>1. n \in Nat
  OBVIOUS
<1>2. 0 \in G
  <2> DEFINE f == [i \in 0..0 |-> r]
  <2>1. DOMAIN f = 0..0 /\ f[0] = r /\ 1..0 = {}
    OBVIOUS
  <2> HIDE DEF f
  <2>2. Begins(f, 0)
    BY <2>1
  <2> HIDE DEF Begins
  <2>3. QED
    BY <1>1, <2>2
<1>3. ASSUME NEW k \in 1..n, k - 1 \in G PROVE k \in G
  <2>1. PICK g : Begins(g, k - 1)
    BY <1>3
  <2>2. /\ DOMAIN g = 0..(k - 1) /\ g[0] = r
        /\ \A i \in 1..(k - 1) : g[i] = Judge(g[i - 1], marks[i])
    BY <2>1
  <2>3. k \in Nat /\ k - 1 \in 0..(k - 1) /\ 0 # k /\ 0 \in 0..k /\ k \in 0..n
    BY <1>1
  <2> DEFINE next == Judge(g[k - 1], marks[k])
             f == [i \in 0..k |-> IF i = k THEN next ELSE g[i]]
  <2>4. Judge(g[k - 1], marks[k]) = next
    OBVIOUS
  <2> HIDE DEF next
  <2>5. DOMAIN f = 0..k /\ f[0] = r /\ f[k] = next /\ \A i \in 0..(k - 1) : f[i] = g[i]
    BY <2>2, <2>3
  <2> HIDE DEF f
  <2>6. ASSUME NEW i \in 1..k PROVE f[i] = Judge(f[i - 1], marks[i])
    <3>1. CASE i = k
      <4>1. f[i - 1] = g[k - 1]
        BY <2>3, <2>5, <3>1
      <4>2. QED
        BY <2>4, <2>5, <3>1, <4>1
    <3>2. CASE i # k
      <4>1. i \in 1..(k - 1) /\ i \in 0..(k - 1) /\ i - 1 \in 0..(k - 1)
        BY <2>3, <3>2
      <4>2. QED
        BY <2>2, <2>5, <4>1
    <3>3. QED
      BY <3>1, <3>2
  <2>7. Begins(f, k)
    BY <2>5, <2>6
  <2> HIDE DEF Begins
  <2>8. QED
    BY <2>3, <2>7
<1>4. n \in G
  <2>1. \A k \in 1..n : k - 1 \in G => k \in G
    BY <1>3
  <2> HIDE DEF G, n
  <2>2. \A k \in 0..n : k \in G
    BY <1>1, <1>2, <2>1, EveryPlace
  <2>3. QED
    BY <1>1, <2>2
<1>5. PICK f : Begins(f, n)
  BY <1>4
<1>6. Judging(f, r, marks)
  BY <1>5 DEF Judging
<1>7. QED
  BY <1>6 DEF Judged

LEMMA JudgementJudged ==
    ASSUME NEW S, NEW marks \in Seq(S)
    PROVE  Judged(AtFirst, marks, Judgement(marks))
<1>1. Len(marks) \in Nat
  OBVIOUS
<1>2. PICK q : Judged(AtFirst, marks, q)
  BY JudgingExists
<1>3. QED
  BY <1>1, <1>2, JudgedIsJudgement

-----------------------------------------------------------------------------
(***************************************************************************)
(* What each mark does to a list, at whatever depth it is.                 *)
(***************************************************************************)
Status == {"done", "begun", "named"}

\* Marks that begin no item, and bytes.
Quiet == Int \ {WORD, ASSIGN, REDIR, AND_IF, OR_IF, PIPED, THEN_RUN, DETACH, SUBST, END_SUBST}

LEMMA LevelTop ==
    ASSUME NEW b \in Seq(Status), NEW s \in Status
    PROVE  /\ Append(b, s) # <<>> /\ Append(b, s) \in Seq(Status)
           /\ Now(Append(b, s)) = s
           /\ SubSeq(Append(b, s), 1, Len(Append(b, s)) - 1) = b
<1> DEFINE d == Append(b, s)
<1>1. d \in Seq(Status) /\ Len(d) = Len(b) + 1 /\ d[Len(b) + 1] = s /\ SubSeq(d, 1, Len(b)) = b
  BY OnTop
<1>2. Len(b) \in Nat
  OBVIOUS
<1>3. d # <<>>
  OBVIOUS
<1> HIDE DEF d
<1>4. Len(d) - 1 = Len(b)
  BY <1>1, <1>2
<1>5. QED
  BY <1>1, <1>3, <1>4 DEF Now, d

LEMMA LevelBecomes ==
    ASSUME NEW b \in Seq(Status), NEW s \in Status, NEW t \in Status
    PROVE  Become(Append(b, s), t) = Append(b, t)
<1> DEFINE d == Append(b, s)
           e == Append(b, t)
<1>1. Len(d) = Len(b) + 1 /\ [d EXCEPT ![Len(b) + 1] = t] = e
  BY OnTop
<1> HIDE DEF d, e
<1>2. Become(d, t) = e
  BY <1>1 DEF Become
<1>3. QED
  BY <1>2 DEF d, e

\* Judge by the innermost level, with the list as an atom.
LEMMA JudgeIs ==
    ASSUME NEW d, d # <<>>, NEW mark
    PROVE  Judge(d, mark) =
             CASE mark = WORD -> Become(d, "named")
               [] mark = ASSIGN -> IF Now(d) = "named" THEN <<>> ELSE Become(d, "begun")
               [] mark = REDIR -> IF Now(d) = "named" THEN d ELSE Become(d, "begun")
               [] mark \in {AND_IF, OR_IF, PIPED} -> IfNamed(d, "begun")
               [] mark \in {THEN_RUN, DETACH} -> IfNamed(d, "done")
               [] mark = SUBST -> Append(d, "begun")
               [] mark = END_SUBST ->
                    IF Now(d) = "done" THEN SubSeq(d, 1, Len(d) - 1) ELSE <<>>
               [] OTHER -> d
BY DEF Judge

LEMMA MarksDiffer ==
    /\ WORD = 256 /\ ASSIGN = 257 /\ SUBST = 261 /\ END_SUBST = 262 /\ REDIR = 263
    /\ AND_IF = 270 /\ OR_IF = 271 /\ PIPED = 272 /\ THEN_RUN = 273 /\ DETACH = 274
BY DEF WORD, ASSIGN, SUBST, END_SUBST, REDIR, AND_IF, OR_IF, PIPED, THEN_RUN, DETACH

LEMMA JudgeWord ==
    ASSUME NEW b \in Seq(Status), NEW s \in Status
    PROVE  Judge(Append(b, s), WORD) = Append(b, "named")
<1> DEFINE d == Append(b, s)
           e == Append(b, "named")
<1>1. "named" \in Status
  BY DEF Status
<1>2. d # <<>> /\ Become(d, "named") = e
  BY <1>1, LevelTop, LevelBecomes
<1> HIDE DEF d, e
<1>3. Judge(d, WORD) = Become(d, "named")
  BY <1>2, JudgeIs, MarksDiffer
<1>4. QED
  BY <1>2, <1>3 DEF d, e

LEMMA JudgeAssign ==
    ASSUME NEW b \in Seq(Status), NEW s \in Status, s # "named"
    PROVE  Judge(Append(b, s), ASSIGN) = Append(b, "begun")
<1> DEFINE d == Append(b, s)
           e == Append(b, "begun")
<1>1. "begun" \in Status
  BY DEF Status
<1>2. d # <<>> /\ Become(d, "begun") = e /\ Now(d) = s
  BY <1>1, LevelTop, LevelBecomes
<1> HIDE DEF d, e
<1>3. Judge(d, ASSIGN) = Become(d, "begun")
  BY <1>2, JudgeIs, MarksDiffer
<1>4. QED
  BY <1>2, <1>3 DEF d, e

LEMMA JudgeRedir ==
    ASSUME NEW b \in Seq(Status), NEW s \in Status
    PROVE  Judge(Append(b, s), REDIR) = Append(b, IF s = "named" THEN "named" ELSE "begun")
<1> DEFINE d == Append(b, s)
           e == Append(b, "begun")
<1>1. "begun" \in Status
  BY DEF Status
<1>2. d # <<>> /\ Become(d, "begun") = e /\ Now(d) = s
  BY <1>1, LevelTop, LevelBecomes
<1> HIDE DEF d, e
<1>3. Judge(d, REDIR) = IF s = "named" THEN d ELSE e
  BY <1>2, JudgeIs, MarksDiffer
<1>4. QED
  BY <1>3 DEF d, e

LEMMA JudgeJoin ==
    ASSUME NEW b \in Seq(Status), NEW mark \in {AND_IF, OR_IF, PIPED}
    PROVE  Judge(Append(b, "named"), mark) = Append(b, "begun")
<1> DEFINE d == Append(b, "named")
           e == Append(b, "begun")
<1>1. "begun" \in Status /\ "named" \in Status
  BY DEF Status
<1>2. d # <<>> /\ Become(d, "begun") = e /\ Now(d) = "named"
  BY <1>1, LevelTop, LevelBecomes
<1> HIDE DEF d, e
<1>3. Judge(d, mark) = IfNamed(d, "begun")
  BY <1>2, JudgeIs, MarksDiffer
<1>4. IfNamed(d, "begun") = e
  BY <1>2 DEF IfNamed
<1>5. QED
  BY <1>3, <1>4 DEF d, e

LEMMA JudgeEnd ==
    ASSUME NEW b \in Seq(Status), NEW mark \in {THEN_RUN, DETACH}
    PROVE  Judge(Append(b, "named"), mark) = Append(b, "done")
<1> DEFINE d == Append(b, "named")
           e == Append(b, "done")
<1>1. "done" \in Status /\ "named" \in Status
  BY DEF Status
<1>2. d # <<>> /\ Become(d, "done") = e /\ Now(d) = "named"
  BY <1>1, LevelTop, LevelBecomes
<1> HIDE DEF d, e
<1>3. Judge(d, mark) = IfNamed(d, "done")
  BY <1>2, JudgeIs, MarksDiffer
<1>4. IfNamed(d, "done") = e
  BY <1>2 DEF IfNamed
<1>5. QED
  BY <1>3, <1>4 DEF d, e

LEMMA JudgeSubst ==
    ASSUME NEW b \in Seq(Status), NEW s \in Status
    PROVE  Judge(Append(b, s), SUBST) = Append(Append(b, s), "begun")
<1> DEFINE d == Append(b, s)
           e == Append(d, "begun")
<1>1. d # <<>>
  BY LevelTop
<1>2. e = Append(d, "begun")
  OBVIOUS
<1> HIDE DEF d, e
<1>3. Judge(d, SUBST) = Append(d, "begun")
  BY <1>1, JudgeIs, MarksDiffer
<1>4. QED
  BY <1>3 DEF d

LEMMA JudgeEndSubst ==
    ASSUME NEW b \in Seq(Status)
    PROVE  Judge(Append(b, "done"), END_SUBST) = b
<1> DEFINE d == Append(b, "done")
           back == SubSeq(d, 1, Len(d) - 1)
<1>1. "done" \in Status
  BY DEF Status
<1>2. d # <<>> /\ Now(d) = "done" /\ back = b
  BY <1>1, LevelTop
<1> HIDE DEF d
<1>3. Judge(d, END_SUBST) = back
  <2>1. Now(d) = "done" /\ d # <<>>
    BY <1>2
  <2>2. Judge(d, END_SUBST) = IF Now(d) = "done" THEN SubSeq(d, 1, Len(d) - 1) ELSE <<>>
    BY <2>1, JudgeIs, MarksDiffer
  <2>3. QED
    BY <2>1, <2>2
<1> HIDE DEF back
<1>4. QED
  BY <1>2, <1>3 DEF d

LEMMA JudgeQuiet ==
    ASSUME NEW b \in Seq(Status), NEW s \in Status, NEW mark \in Quiet
    PROVE  Judge(Append(b, s), mark) = Append(b, s)
<1> DEFINE d == Append(b, s)
<1>1. d # <<>>
  BY LevelTop
<1>2. /\ mark # WORD /\ mark # ASSIGN /\ mark # REDIR /\ mark \notin {AND_IF, OR_IF, PIPED}
      /\ mark \notin {THEN_RUN, DETACH} /\ mark # SUBST /\ mark # END_SUBST
  BY DEF Quiet
<1> HIDE DEF d
<1>3. Judge(d, mark) = d
  BY <1>1, <1>2, JudgeIs
<1>4. QED
  BY <1>3 DEF d

-----------------------------------------------------------------------------
(***************************************************************************)
(* A meaning leads from one type of the builders to another: wherever a    *)
(* list stands as the first type says, at any depth, it stands as the      *)
(* second says after it.                                                   *)
(***************************************************************************)
Types == {"NeedProg", "NeedTerm", "Completed"}

Stage == [NeedProg |-> {"done", "begun"}, NeedTerm |-> {"named"}, Completed |-> {"done"}]

Leads(x, meaning, y) ==
    \A b \in Seq(Status), s \in Stage[x] :
        \E t \in Stage[y] : Judged(Append(b, s), meaning, Append(b, t))

\* It leaves every list as it is, as an argument's does.
Still(meaning) ==
    \A b \in Seq(Status), s \in Status : Judged(Append(b, s), meaning, Append(b, s))

LEMMA StageIs ==
    /\ Stage["NeedProg"] = {"done", "begun"} /\ Stage["NeedTerm"] = {"named"}
    /\ Stage["Completed"] = {"done"}
    /\ \A x \in Types : Stage[x] \subseteq Status
BY DEF Stage, Types, Status

LEMMA LeadsCat ==
    ASSUME NEW x, NEW y, NEW z, NEW m \in Seq(Int), NEW n \in Seq(Int), Leads(x, m, y), Leads(y, n, z)
    PROVE  Leads(x, Cat(m, n), z)
<1> SUFFICES ASSUME NEW b \in Seq(Status), NEW s \in Stage[x]
             PROVE  \E t \in Stage[z] : Judged(Append(b, s), Cat(m, n), Append(b, t))
  BY DEF Leads
<1>1. PICK t \in Stage[y] : Judged(Append(b, s), m, Append(b, t))
  BY DEF Leads
<1>2. PICK u \in Stage[z] : Judged(Append(b, t), n, Append(b, u))
  BY DEF Leads
<1> DEFINE p == Append(b, s)
           q == Append(b, t)
           r == Append(b, u)
<1>3. Judged(p, m, q) /\ Judged(q, n, r)
  BY <1>1, <1>2
<1> HIDE DEF p, q, r
<1>4. Judged(p, Cat(m, n), r)
  BY <1>3, JudgedCat
<1>5. QED
  BY <1>4 DEF p, r

LEMMA StillCat ==
    ASSUME NEW m \in Seq(Int), NEW n \in Seq(Int), Still(m), Still(n)
    PROVE  Still(Cat(m, n))
<1> SUFFICES ASSUME NEW b \in Seq(Status), NEW s \in Status
             PROVE  Judged(Append(b, s), Cat(m, n), Append(b, s))
  BY DEF Still
<1> DEFINE p == Append(b, s)
<1>1. Judged(p, m, p) /\ Judged(p, n, p)
  BY DEF Still
<1> HIDE DEF p
<1>2. Judged(p, Cat(m, n), p)
  BY <1>1, JudgedCat
<1>3. QED
  BY <1>2 DEF p

LEMMA StillQuiet ==
    ASSUME NEW m \in Seq(Quiet)
    PROVE  Still(m)
<1> SUFFICES ASSUME NEW b \in Seq(Status), NEW s \in Status
             PROVE  Judged(Append(b, s), m, Append(b, s))
  BY DEF Still
<1> DEFINE p == Append(b, s)
           n == Len(m)
           f == [i \in 0..n |-> p]
<1>1. n \in Nat /\ \A i \in 1..n : m[i] \in Quiet
  OBVIOUS
<1>2. \A c \in Quiet : Judge(p, c) = p
  BY JudgeQuiet
<1> HIDE DEF p, n
<1>3. DOMAIN f = 0..n /\ \A i \in 0..n : f[i] = p
  OBVIOUS
<1>4. 0 \in 0..n /\ n \in 0..n /\ \A i \in 1..n : i \in 0..n /\ i - 1 \in 0..n
  BY <1>1
<1> HIDE DEF f
<1>5. \A i \in 1..n : f[i] = Judge(f[i - 1], m[i])
  BY <1>1, <1>2, <1>3, <1>4
<1>6. Judging(f, p, m)
  BY <1>3, <1>4, <1>5 DEF Judging, n
<1>7. f[Len(m)] = p
  BY <1>3, <1>4 DEF n
<1>8. Judged(p, m, p)
  BY <1>6, <1>7 DEF Judged
<1>9. QED
  BY <1>8 DEF p

LEMMA StillLeads ==
    ASSUME NEW m, Still(m), NEW x \in Types
    PROVE  Leads(x, m, x)
<1>1. Stage[x] \subseteq Status
  BY StageIs
<1>2. QED
  BY <1>1 DEF Still, Leads

\* Meanings that lead from a type to the same do so one after the other.
LEMMA LeadsFlatten ==
    ASSUME NEW x \in Types, NEW seqs \in Seq(Seq(Int)),
           \A i \in 1..Len(seqs) : Leads(x, seqs[i], x)
    PROVE  Leads(x, FlattenSeq(seqs), x)
<1> DEFINE n == Len(seqs)
           none == <<>>
<1>1. n \in Nat /\ \A i \in 1..n : seqs[i] \in Seq(Int)
  OBVIOUS
<1>2. PICK f : Joins(f, seqs, n, Int)
  BY JoinsExists
<1>3. FlattenSeq(seqs) = f[n]
  BY <1>2, FlattenJoins
<1>4. \A i \in 1..n : Leads(x, seqs[i], x)
  OBVIOUS
<1>5. /\ \A i \in 0..n : f[i] \in Seq(Int)
      /\ f[0] = none
      /\ \A i \in 1..n : f[i] = Cat(f[i - 1], seqs[i])
  BY <1>2 DEF Joins
<1>6. none \in Seq(Quiet)
  OBVIOUS
<1>7. Leads(x, none, x)
  BY <1>6, StillQuiet, StillLeads
<1> HIDE DEF none
<1> DEFINE G == {i \in 0..n : Leads(x, f[i], x)}
<1> HIDE DEF n
<1>8. 0 \in G
  BY <1>1, <1>5, <1>7
<1>9. ASSUME NEW i \in 1..n, i - 1 \in G PROVE i \in G
  <2>1. i - 1 \in 0..n /\ i \in 0..n
    BY <1>1
  <2> DEFINE s == f[i - 1]
             t == seqs[i]
  <2>2. s \in Seq(Int) /\ t \in Seq(Int)
    BY <1>1, <1>5, <2>1
  <2>3. Leads(x, s, x) /\ Leads(x, t, x)
    BY <1>4, <1>9
  <2>4. f[i] = Cat(s, t)
    BY <1>5
  <2> HIDE DEF s, t
  <2>5. Leads(x, Cat(s, t), x)
    BY <2>2, <2>3, LeadsCat
  <2>6. QED
    BY <2>1, <2>4, <2>5
<1>10. n \in G
  <2>1. \A i \in 1..n : i - 1 \in G => i \in G
    BY <1>9
  <2> HIDE DEF G
  <2>2. \A i \in 0..n : i \in G
    BY <1>1, <1>8, <2>1, EveryPlace
  <2>3. QED
    BY <1>1, <2>2
<1>11. QED
  BY <1>3, <1>10

-----------------------------------------------------------------------------
(***************************************************************************)
(* Arguments mean nothing to a list.                                       *)
(***************************************************************************)
LEMMA ByteQuiet == Byte \subseteq Quiet /\ Digit \subseteq Quiet
BY DEF Byte, Quiet, Digit, WORD, ASSIGN, REDIR, AND_IF, OR_IF, PIPED, THEN_RUN, DETACH, SUBST, END_SUBST

LEMMA QuietMarks ==
    /\ {PATH, DUP, IS, PARAM, END_PARAM, READ, WRITE, APPEND, READ_WRITE} \subseteq Quiet
    /\ 45 \in Quiet /\ Quiet \subseteq Int
BY DEF Quiet, WORD, ASSIGN, REDIR, AND_IF, OR_IF, PIPED, THEN_RUN, DETACH, SUBST, END_SUBST,
       PATH, DUP, IS, PARAM, END_PARAM, READ, WRITE, APPEND, READ_WRITE

LEMMA DecimalQuiet ==
    ASSUME NEW n \in Int
    PROVE  Decimal(n) \in Seq(Quiet)
<1> DEFINE s == Decimal(n)
<1>1. Digit \subseteq Quiet /\ 45 \in Quiet
  BY ByteQuiet, QuietMarks
<1>2. CASE n >= 0
  <2>1. s \in Seq(Digit)
    BY <1>2, DecimalNumeral DEF Numeral
  <2> HIDE DEF s
  <2>2. s \in Seq(Quiet)
    BY <1>1, <2>1, Wider
  <2>3. QED
    BY <2>2 DEF s
<1>3. CASE n < 0
  <2> DEFINE m == -n
             digits == CHOOSE f : IsDigits(f, m)
             t == digits[m]
             minus == <<45>>
  <2>1. m \in Nat
    BY <1>3
  <2>2. s = <<45>> \o t
    BY <1>3, DecimalIs
  <2>3. s = Cat(minus, t)
    BY <2>2 DEF Cat
  <2> HIDE DEF m
  <2>4. IsDigits(digits, m)
    BY <2>1, DigitsExist
  <2> HIDE DEF digits
  <2>5. t \in Seq(Digit)
    BY <2>1, <2>4, DigitsAre DEF Numeral
  <2>6. minus \in Seq(Quiet)
    BY <1>1
  <2> HIDE DEF t, s, minus
  <2>7. t \in Seq(Quiet)
    BY <1>1, <2>5, Wider
  <2>8. Cat(minus, t) \in Seq(Quiet)
    BY <2>6, <2>7, CatSeq
  <2>9. QED
    BY <2>3, <2>8 DEF s
<1>4. QED
  BY <1>2, <1>3

LEMMA RawBytesQuiet ==
    ASSUME NEW bytes \in Seq(Byte)
    PROVE  RawBytes(bytes).meant \in Seq(Quiet)
<1> DEFINE n == Len(bytes)
           meanings == [i \in DOMAIN bytes |-> Byte_(bytes[i])]
<1>1. RawBytes(bytes).meant = FlattenSeq(meanings)
  BY DEF RawBytes, Byte_
<1>2. n \in Nat /\ DOMAIN bytes = 1..n /\ \A i \in 1..n : bytes[i] \in Byte
  OBVIOUS
<1>3. ASSUME NEW c \in Byte PROVE Byte_(c) \in Seq(Quiet)
  <2>1. c \in Quiet
    BY ByteQuiet
  <2>2. <<c>> \in Seq(Quiet) /\ <<>> \in Seq(Quiet)
    BY <2>1
  <2>3. QED
    BY <2>2 DEF Byte_
<1>4. meanings = [i \in 1..n |-> Byte_(bytes[i])]
  BY <1>2
<1> HIDE DEF meanings, n
<1>5. meanings \in [1..n -> Seq(Quiet)]
  BY <1>2, <1>3, <1>4
<1>6. meanings \in Seq(Seq(Quiet))
  BY <1>2, <1>5
<1>7. QED
  BY <1>1, <1>6, FlattenType

LEMMA SimpleQuiet ==
    ASSUME NEW a \in Simple
    PROVE  a.meant \in Seq(Quiet)
<1>1. \A t \in Texts : t \in Seq(Byte)
  BY IngredientAssumption
<1>2. \A t \in Texts : t \in Seq(Quiet)
  <2>1. Byte \subseteq Quiet
    BY ByteQuiet
  <2> SUFFICES ASSUME NEW t \in Texts PROVE t \in Seq(Quiet)
    OBVIOUS
  <2>2. QED
    BY <1>1, <2>1, Wider
<1>3. CASE a \in {Str(t) : t \in Texts}
  <2>1. PICK t \in Texts : a = Str(t)
    BY <1>3
  <2>2. a.meant = t
    BY <2>1 DEF Str
  <2>3. QED
    BY <1>2, <2>2
<1>4. CASE a \in {RawBytes(t) : t \in Texts}
  BY <1>1, <1>4, RawBytesQuiet
<1>5. CASE a \in {Char(c) : c \in Byte}
  <2>1. PICK c \in Byte : a = Char(c)
    BY <1>5
  <2>2. c \in Quiet
    BY ByteQuiet
  <2>3. <<c>> \in Seq(Quiet) /\ a.meant = <<c>>
    BY <2>1, <2>2 DEF Char
  <2>4. QED
    BY <2>3
<1>6. CASE a \in {Display(p) : p \in Pieces}
  <2>1. PICK p \in Pieces : a = Display(p)
    BY <1>6
  <2>2. p \in Seq(Texts) /\ Texts \subseteq Seq(Quiet)
    BY <1>2, IngredientAssumption
  <2>3. p \in Seq(Seq(Quiet))
    BY <2>2, Wider
  <2>4. FlattenSeq(p) \in Seq(Quiet)
    BY <2>3, FlattenType
  <2>5. a.meant = FlattenSeq(p)
    BY <2>1 DEF Display
  <2>6. QED
    BY <2>4, <2>5
<1>7. CASE a \in {Int_(n) : n \in Numbers}
  <2>1. PICK n \in Numbers : a = Int_(n)
    BY <1>7
  <2>2. n \in Int
    BY IngredientAssumption
  <2>3. Decimal(n) \in Seq(Quiet)
    BY <2>2, DecimalQuiet
  <2>4. a.meant = Decimal(n)
    BY <2>1 DEF Int_
  <2>5. QED
    BY <2>3, <2>4
<1>8. CASE a \in {Bool(b) : b \in BOOLEAN}
  <2>1. PICK b \in BOOLEAN : a = Bool(b)
    BY <1>8
  <2>2. a.meant = IF b THEN <<116, 114, 117, 101>> ELSE <<102, 97, 108, 115, 101>>
    BY <2>1 DEF Bool
  <2>3. <<116, 114, 117, 101>> \in Seq(Byte) /\ <<102, 97, 108, 115, 101>> \in Seq(Byte)
    BY DEF Byte
  <2>4. a.meant \in Seq(Byte)
    BY <2>2, <2>3
  <2>5. QED
    BY <2>4, ByteQuiet, Wider
<1>9. CASE a \in {Env(t) : t \in {x \in Texts : \A i \in DOMAIN x : x[i] # RBRACE}}
  <2>1. PICK t \in {x \in Texts : \A i \in DOMAIN x : x[i] # RBRACE} : a = Env(t)
    BY <1>9
  <2> DEFINE begin == <<PARAM>>
             end == <<END_PARAM>>
  <2>2. begin \in Seq(Quiet) /\ end \in Seq(Quiet) /\ t \in Seq(Quiet)
    <3>1. PARAM \in Quiet /\ END_PARAM \in Quiet
      BY QuietMarks
    <3>2. t \in Texts
      BY <2>1
    <3>3. QED
      BY <1>2, <3>1, <3>2
  <2>3. a.meant = Cat(Cat(begin, t), end)
    BY <2>1 DEF Env, Cat
  <2> HIDE DEF begin, end
  <2>4. Cat(begin, t) \in Seq(Quiet)
    BY <2>2, CatSeq
  <2>5. Cat(Cat(begin, t), end) \in Seq(Quiet)
    BY <2>2, <2>4, CatSeq
  <2>6. QED
    BY <2>3, <2>5
<1>10. QED
  BY <1>3, <1>4, <1>5, <1>6, <1>7, <1>8, <1>9 DEF Simple

LEMMA MeaningQuiet ==
    ASSUME NEW level, \A a \in level : a.meant \in Seq(Quiet), NEW list \in Seq(level)
    PROVE  Meaning(list) \in Seq(Quiet)
<1> DEFINE n == Len(list)
           meanings == [i \in DOMAIN list |-> list[i].meant]
<1>1. n \in Nat /\ DOMAIN list = 1..n /\ \A i \in 1..n : list[i] \in level
  OBVIOUS
<1>2. Meaning(list) = FlattenSeq(meanings)
  BY DEF Meaning
<1>3. \A i \in 1..n : list[i].meant \in Seq(Quiet)
  BY <1>1
<1>4. meanings = [i \in 1..n |-> list[i].meant]
  BY <1>1
<1> HIDE DEF n, meanings
<1>5. meanings \in [1..n -> Seq(Quiet)]
  BY <1>3, <1>4
<1>6. meanings \in Seq(Seq(Quiet))
  BY <1>1, <1>5
<1>7. QED
  BY <1>2, <1>6, FlattenType

LEMMA MadeQuiet ==
    ASSUME NEW level, \A a \in level : a.meant \in Seq(Quiet), NEW a \in MadeOf(level)
    PROVE  a.meant \in Seq(Quiet)
<1>1. ASSUME NEW list \in Seq(level), a.meant = Meaning(list) PROVE a.meant \in Seq(Quiet)
  BY <1>1, MeaningQuiet
<1> DEFINE lists == {list \in Lists : list \in Seq(level)}
           OneType(d) == {list \in lists : \A i \in DOMAIN list : list[i].double = d}
           tuples == {Tuple(list) : list \in lists}
           Slices(d) == {Slice(d, list) : list \in OneType(d)}
           Concats(d) == {Concat(d, list) : list \in OneType(d)}
<1>2. CASE a \in tuples
  <2>1. PICK list \in lists : a = Tuple(list)
    BY <1>2
  <2>2. list \in Seq(level) /\ a.meant = Meaning(list)
    BY <2>1 DEF Tuple
  <2>3. QED
    BY <1>1, <2>2
<1>3. ASSUME NEW d \in BOOLEAN, a \in Slices(d) PROVE a.meant \in Seq(Quiet)
  <2>1. PICK list \in OneType(d) : a = Slice(d, list)
    BY <1>3
  <2>2. list \in Seq(level) /\ a.meant = Meaning(list)
    BY <2>1 DEF Slice
  <2>3. QED
    BY <1>1, <2>2
<1>4. ASSUME NEW d \in BOOLEAN, a \in Concats(d) PROVE a.meant \in Seq(Quiet)
  <2>1. PICK list \in OneType(d) : a = Concat(d, list)
    BY <1>4
  <2>2. list \in Seq(level) /\ a.meant = Meaning(list)
    BY <2>1 DEF Concat
  <2>3. QED
    BY <1>1, <2>2
<1>5. MadeOf(level) = tuples \cup (Slices(TRUE) \cup Concats(TRUE)) \cup (Slices(FALSE) \cup Concats(FALSE))
  BY DEF MadeOf
<1> HIDE DEF tuples, lists, OneType, Slices, Concats
<1>6. a \in tuples \/ \E d \in BOOLEAN : a \in Slices(d) \/ a \in Concats(d)
  BY <1>5
<1>7. QED
  BY <1>2, <1>3, <1>4, <1>6

LEMMA ArgumentQuiet ==
    ASSUME NEW a \in Arguments
    PROVE  a.meant \in Seq(Quiet)
<1> DEFINE n == Len(Levels)
           G == {k \in 0..n : k = 0 \/ \A x \in Levels[k] : x.meant \in Seq(Quiet)}
<1>1. n \in Nat /\ DOMAIN Levels = 1..n
  BY LevelAssumption
<1>2. \A k \in 1..n : Levels[k] \subseteq Simple \cup (IF k = 1 THEN {} ELSE MadeOf(Levels[k - 1]))
  BY LevelAssumption
<1> HIDE DEF n
<1>3. 0 \in G
  BY <1>1
<1>4. \A k \in 1..n : k - 1 \in G => k \in G
  <2> SUFFICES ASSUME NEW k \in 1..n, k - 1 \in G PROVE k \in G
    OBVIOUS
  <2>1. k \in 0..n
    BY <1>1
  <2>2. CASE k = 1
    <3>1. Levels[k] \subseteq Simple
      BY <1>2, <2>2
    <3>2. \A x \in Levels[k] : x.meant \in Seq(Quiet)
      BY <3>1, SimpleQuiet
    <3>3. QED
      BY <2>1, <3>2
  <2>3. CASE k # 1
    <3>1. \A x \in Levels[k - 1] : x.meant \in Seq(Quiet)
      BY <1>1, <2>3
    <3>2. Levels[k] \subseteq Simple \cup MadeOf(Levels[k - 1])
      BY <1>2, <2>3
    <3>3. \A x \in MadeOf(Levels[k - 1]) : x.meant \in Seq(Quiet)
      <4> DEFINE level == Levels[k - 1]
      <4> HIDE DEF level
      <4>1. \A x \in level : x.meant \in Seq(Quiet)
        BY <3>1 DEF level
      <4>2. \A x \in MadeOf(level) : x.meant \in Seq(Quiet)
        BY <4>1, MadeQuiet
      <4>3. QED
        BY <4>2 DEF level
    <3>4. \A x \in Levels[k] : x.meant \in Seq(Quiet)
      BY <3>2, <3>3, SimpleQuiet
    <3>5. QED
      BY <2>1, <3>4
  <2>4. QED
    BY <2>2, <2>3
<1> HIDE DEF G
<1>5. \A k \in 0..n : k \in G
  BY <1>1, <1>3, <1>4, EveryPlace
<1>6. PICK k \in 1..n : a \in Levels[k]
  BY <1>1 DEF Arguments
<1>7. k \in G /\ k # 0
  BY <1>1, <1>5
<1>8. QED
  BY <1>6, <1>7 DEF G

-----------------------------------------------------------------------------
(***************************************************************************)
(* What each part of a command does to a list.                             *)
(***************************************************************************)
\* An argument's meaning is a sequence and leaves every list as it is.
Silent(meaning) == meaning \in Seq(Int) /\ Still(meaning)

LEMMA QuietSilent ==
    ASSUME NEW m \in Seq(Quiet)
    PROVE  Silent(m)
<1>1. m \in Seq(Int)
  BY QuietMarks, Wider
<1>2. QED
  BY <1>1, StillQuiet DEF Silent

LEMMA SilentCat ==
    ASSUME NEW m, NEW n, Silent(m), Silent(n)
    PROVE  Silent(Cat(m, n))
BY CatSeq, StillCat DEF Silent

\* One mark, and what is silent after it.
LEMMA MarkLeads ==
    ASSUME NEW mark \in Int, NEW x, NEW y \in Types, NEW m, Silent(m),
           \A b \in Seq(Status), s \in Stage[x] :
               \E t \in Stage[y] : Judge(Append(b, s), mark) = Append(b, t)
    PROVE  Leads(x, Cat(<<mark>>, m), y)
<1> DEFINE one == <<mark>>
<1>1. one \in Seq(Int)
  OBVIOUS
<1>2. Leads(x, one, y)
  <2> SUFFICES ASSUME NEW b \in Seq(Status), NEW s \in Stage[x]
               PROVE  \E t \in Stage[y] : Judged(Append(b, s), one, Append(b, t))
    BY DEF Leads
  <2>1. PICK t \in Stage[y] : Judge(Append(b, s), mark) = Append(b, t)
    OBVIOUS
  <2> DEFINE p == Append(b, s)
  <2> HIDE DEF p
  <2>2. Judged(p, one, Judge(p, mark))
    BY JudgedOne
  <2>3. QED
    BY <2>1, <2>2 DEF p
<1>3. m \in Seq(Int) /\ Leads(y, m, y)
  BY StillLeads DEF Silent
<1> HIDE DEF one
<1>4. Leads(x, Cat(one, m), y)
  BY <1>1, <1>2, <1>3, LeadsCat
<1>5. QED
  BY <1>4 DEF one

LEMMA NothingSilent == Silent(<<>>)
<1>1. <<>> \in Seq(Quiet)
  OBVIOUS
<1>2. QED
  BY <1>1, QuietSilent

LEMMA MarkAlone ==
    ASSUME NEW mark \in Int
    PROVE  Cat(<<mark>>, <<>>) = <<mark>>
<1> DEFINE one == <<mark>>
<1>1. one \in Seq(Int)
  OBVIOUS
<1> HIDE DEF one
<1>2. Cat(one, <<>>) = one
  BY <1>1, CatNothing
<1>3. QED
  BY <1>2 DEF one

LEMMA TypesAre ==
    "NeedProg" \in Types /\ "NeedTerm" \in Types /\ "Completed" \in Types
BY DEF Types

LEMMA JoinLeads ==
    ASSUME NEW mark \in {AND_IF, OR_IF, PIPED}
    PROVE  Leads("NeedTerm", <<mark>>, "NeedProg")
<1>1. mark \in Int
  BY MarksDiffer
<1>2. \A b \in Seq(Status), s \in Stage["NeedTerm"] :
          \E t \in Stage["NeedProg"] : Judge(Append(b, s), mark) = Append(b, t)
  BY JudgeJoin, StageIs
<1>3. Leads("NeedTerm", Cat(<<mark>>, <<>>), "NeedProg")
  BY <1>1, <1>2, NothingSilent, TypesAre, MarkLeads
<1>4. QED
  BY <1>1, <1>3, MarkAlone

LEMMA EndLeads ==
    ASSUME NEW mark \in {THEN_RUN, DETACH}
    PROVE  Leads("NeedTerm", <<mark>>, "Completed")
<1>1. mark \in Int
  BY MarksDiffer
<1>2. \A b \in Seq(Status), s \in Stage["NeedTerm"] :
          \E t \in Stage["Completed"] : Judge(Append(b, s), mark) = Append(b, t)
  BY JudgeEnd, StageIs
<1>3. Leads("NeedTerm", Cat(<<mark>>, <<>>), "Completed")
  BY <1>1, <1>2, NothingSilent, TypesAre, MarkLeads
<1>4. QED
  BY <1>1, <1>3, MarkAlone

\* After a complete command another one may begin.
LEMMA ChainLeads == Leads("Completed", <<>>, "NeedProg")
<1> SUFFICES ASSUME NEW b \in Seq(Status), NEW s \in Stage["Completed"]
             PROVE  \E t \in Stage["NeedProg"] : Judged(Append(b, s), <<>>, Append(b, t))
  BY DEF Leads
<1>1. s \in Stage["NeedProg"]
  BY StageIs
<1>2. QED
  BY <1>1, JudgedNothing

LEMMA WordLeads ==
    ASSUME NEW x \in {"NeedProg", "NeedTerm"}, NEW a, Silent(a.meant)
    PROVE  Leads(x, arg(a).meant, "NeedTerm")
<1>1. arg(a).meant = Cat(<<WORD>>, a.meant)
  BY DEF arg, Cat
<1>2. WORD \in Int /\ x \in Types
  BY MarksDiffer, TypesAre
<1>3. \A b \in Seq(Status), s \in Stage[x] :
          \E t \in Stage["NeedTerm"] : Judge(Append(b, s), WORD) = Append(b, t)
  BY <1>2, JudgeWord, StageIs
<1>4. QED
  BY <1>1, <1>2, <1>3, TypesAre, MarkLeads

LEMMA NameQuiet ==
    ASSUME NEW key \in Seq(Byte)
    PROVE  Name(key) \in Seq(Quiet)
<1>1. CASE key = <<>> \/ key[1] \notin NameStart
  <2>1. Name(key) = <<>> /\ <<>> \in Seq(Quiet)
    BY <1>1, NoName
  <2>2. QED
    BY <2>1
<1>2. CASE key # <<>> /\ key[1] \in NameStart
  <2>1. Name(key) \in Seq(NameChar)
    BY <1>2, KeyName
  <2>2. NameChar \subseteq Byte
    BY DEF NameChar, NameStart, Letter, Digit, UNDERSCORE, Byte
  <2>3. NameChar \subseteq Quiet
    BY <2>2, ByteQuiet
  <2>4. QED
    BY <2>1, <2>3, Wider
<1>3. QED
  BY <1>1, <1>2

LEMMA AssignmentLeads ==
    ASSUME NEW key \in Seq(Byte), NEW value, Silent(value.meant)
    PROVE  Leads("NeedProg", env(key, value).meant, "NeedProg")
<1> DEFINE name == Name(key)
           is == <<IS>>
           rest == Cat(Cat(name, is), value.meant)
<1>1. CASE name = <<>>
  <2>1. env(key, value).meant = <<>>
    BY <1>1 DEF env
  <2>2. Leads("NeedProg", <<>>, "NeedProg")
    BY NothingSilent, StillLeads, TypesAre DEF Silent
  <2>3. QED
    BY <2>1, <2>2
<1>2. CASE name # <<>>
  <2>1. is \in Seq(Quiet) /\ name \in Seq(Quiet)
    <3>1. IS \in Quiet
      BY QuietMarks
    <3>2. is \in Seq(Quiet)
      BY <3>1
    <3>3. QED
      BY <3>2, NameQuiet
  <2>2. env(key, value).meant = <<ASSIGN>> \o name \o is \o value.meant
    BY <1>2 DEF env
  <2> HIDE DEF name, is
  <2>3. Cat(name, is) \in Seq(Quiet)
    BY <2>1, CatSeq
  <2>4. Silent(Cat(name, is))
    BY <2>3, QuietSilent
  <2>5. Silent(rest)
    BY <2>4, SilentCat
  <2>6. env(key, value).meant = Cat(<<ASSIGN>>, rest)
    <3> DEFINE one == <<ASSIGN>>
               v == value.meant
               w == Cat(name, is)
    <3>1. one \in Seq(Int) /\ name \in Seq(Int) /\ is \in Seq(Int) /\ v \in Seq(Int) /\ w \in Seq(Int)
      <4>1. ASSIGN \in Int /\ Quiet \subseteq Int
        BY MarksDiffer, QuietMarks
      <4>2. name \in Seq(Int) /\ is \in Seq(Int) /\ w \in Seq(Int)
        BY <2>1, <2>3, <4>1, Wider
      <4>3. QED
        BY <4>1, <4>2 DEF Silent
    <3>2. env(key, value).meant = Cat(Cat(Cat(one, name), is), v)
      BY <2>2 DEF Cat
    <3> HIDE DEF one, v
    <3>3. Cat(Cat(one, name), is) = Cat(one, w)
      BY <3>1, CatCat
    <3> HIDE DEF w
    <3>4. Cat(Cat(one, w), v) = Cat(one, Cat(w, v))
      BY <3>1, CatCat
    <3>5. QED
      BY <3>2, <3>3, <3>4 DEF one, v, w
  <2>7. \A b \in Seq(Status), s \in Stage["NeedProg"] :
            \E t \in Stage["NeedProg"] : Judge(Append(b, s), ASSIGN) = Append(b, t)
    <3>1. \A s \in Stage["NeedProg"] : s \in Status /\ s # "named"
      BY StageIs, TypesAre
    <3>2. QED
      BY <3>1, JudgeAssign, StageIs
  <2> HIDE DEF rest
  <2>8. ASSIGN \in Int
    BY MarksDiffer
  <2>9. Leads("NeedProg", Cat(<<ASSIGN>>, rest), "NeedProg")
    BY <2>5, <2>7, <2>8, TypesAre, MarkLeads
  <2>10. QED
    BY <2>6, <2>9
<1>3. QED
  BY <1>1, <1>2

LEMMA PathSilent ==
    ASSUME NEW a, Silent(a.meant)
    PROVE  Silent(RedirectPath(a).meant)
<1> DEFINE one == <<PATH>>
<1>1. PATH \in Quiet
  BY QuietMarks
<1>2. one \in Seq(Quiet)
  BY <1>1
<1>3. RedirectPath(a).meant = Cat(one, a.meant)
  BY DEF RedirectPath, Cat
<1> HIDE DEF one
<1>4. Silent(one)
  BY <1>2, QuietSilent
<1>5. QED
  BY <1>3, <1>4, SilentCat

LEMMA DupSilent ==
    ASSUME NEW fd \in Nat
    PROVE  Silent(RedirectDup(fd).meant)
<1> DEFINE one == <<DUP>>
           digits == Decimal(fd)
<1>1. DUP \in Quiet /\ fd \in Int
  BY QuietMarks
<1>2. one \in Seq(Quiet)
  BY <1>1
<1>3. RedirectDup(fd).meant = Cat(one, digits)
  BY DEF RedirectDup, Cat
<1>4. digits \in Seq(Quiet)
  BY <1>1, DecimalQuiet
<1> HIDE DEF one, digits
<1>5. Silent(one) /\ Silent(digits)
  BY <1>2, <1>4, QuietSilent
<1>6. QED
  BY <1>3, <1>5, SilentCat

\* A redirection of a descriptor, in one of the four ways, to a silent target.
WellMade(r) ==
    /\ r.fd \in Nat /\ r.append \in BOOLEAN
    /\ r.mode \in {"Read", "Write", "Append", "ReadWrite"}
    /\ Silent(r.to.meant)

LEMMA RedirLeads ==
    ASSUME NEW r, WellMade(r), NEW x \in {"NeedProg", "NeedTerm"}
    PROVE  Leads(x, redir(r).meant, x)
<1> DEFINE op == CASE r.mode = "Append" \/ r.append -> APPEND
                   [] r.mode = "Write" /\ ~r.append -> WRITE
                   [] r.mode = "Read" -> READ
                   [] r.mode = "ReadWrite" -> READ_WRITE
           one == <<REDIR>>
           digits == Decimal(r.fd)
           way == <<op>>
           to == r.to.meant
           rest == Cat(Cat(digits, way), to)
<1>1. op \in {READ, WRITE, APPEND, READ_WRITE}
  BY DEF WellMade
<1>2. RedirMeant(r) = Cat(Cat(one, digits), way)
  BY MeantIs
<1>3. redir(r).meant = Cat(RedirMeant(r), to)
  BY RedirShape
<1> HIDE DEF op
<1>4. op \in Quiet
  BY <1>1, QuietMarks
<1>5. way \in Seq(Quiet)
  BY <1>4
<1>6. digits \in Seq(Quiet)
  <2>1. r.fd \in Int
    BY DEF WellMade
  <2>2. QED
    BY <2>1, DecimalQuiet
<1>7. Silent(to)
  BY DEF WellMade
<1>8. one \in Seq(Int)
  BY MarksDiffer
<1> HIDE DEF one, digits, way, to
<1>9. Cat(digits, way) \in Seq(Quiet)
  BY <1>5, <1>6, CatSeq
<1>10. Silent(rest)
  <2>1. Silent(Cat(digits, way))
    BY <1>9, QuietSilent
  <2>2. QED
    BY <1>7, <2>1, SilentCat
<1>11. redir(r).meant = Cat(one, rest)
  <2> DEFINE w == Cat(digits, way)
  <2>1. digits \in Seq(Int) /\ way \in Seq(Int) /\ w \in Seq(Int)
    BY <1>5, <1>6, <1>9, QuietMarks, Wider
  <2>2. to \in Seq(Int)
    BY <1>7 DEF Silent
  <2>3. Cat(Cat(one, digits), way) = Cat(one, w)
    BY <1>8, <2>1, CatCat
  <2> HIDE DEF w
  <2>4. Cat(Cat(one, w), to) = Cat(one, Cat(w, to))
    BY <1>8, <2>1, <2>2, CatCat
  <2>5. QED
    BY <1>2, <1>3, <2>3, <2>4 DEF w
<1>12. REDIR \in Int /\ x \in Types
  BY MarksDiffer, TypesAre
<1>13. \A b \in Seq(Status), s \in Stage[x] :
           \E t \in Stage[x] : Judge(Append(b, s), REDIR) = Append(b, t)
  <2> SUFFICES ASSUME NEW b \in Seq(Status), NEW s \in Stage[x]
               PROVE  \E t \in Stage[x] : Judge(Append(b, s), REDIR) = Append(b, t)
    OBVIOUS
  <2> DEFINE t == IF s = "named" THEN "named" ELSE "begun"
  <2>1. s \in Status /\ t \in Stage[x]
    BY <1>12, StageIs
  <2>2. Judge(Append(b, s), REDIR) = Append(b, t)
    BY <2>1, JudgeRedir
  <2>3. QED
    BY <2>1, <2>2
<1> HIDE DEF rest
<1>14. Leads(x, Cat(<<REDIR>>, rest), x)
  BY <1>10, <1>12, <1>13, MarkLeads
<1>15. QED
  BY <1>11, <1>14 DEF one

LEMMA ArgumentSilent ==
    ASSUME NEW a \in Arguments
    PROVE  Silent(a.meant)
BY ArgumentQuiet, QuietSilent

LEMMA TargetSilent ==
    ASSUME NEW to \in Targets
    PROVE  Silent(to.meant)
<1>1. CASE to \in Paths
  <2>1. PICK a \in Arguments : to = RedirectPath(a)
    BY <1>1 DEF Paths
  <2>2. QED
    BY <2>1, ArgumentSilent, PathSilent
<1>2. CASE to \in {RedirectDup(n) : n \in Descriptors}
  <2>1. PICK n \in Descriptors : to = RedirectDup(n)
    BY <1>2
  <2>2. n \in Nat
    BY IngredientAssumption DEF Descriptors
  <2>3. QED
    BY <2>1, <2>2, DupSilent
<1>3. QED
  BY <1>1, <1>2 DEF Targets

LEMMA StandardWellMade ==
    ASSUME NEW to, Silent(to.meant), NEW append \in BOOLEAN
    PROVE  /\ WellMade(Stdin(to)) /\ WellMade(Stdout(to, append)) /\ WellMade(Stderr(to, append))
BY DEF WellMade, Stdin, Stdout, Stderr

LEMMA CustomWellMade ==
    ASSUME NEW fd \in Nat, NEW to, Silent(to.meant), NEW m \in {"Read", "Write", "Append", "ReadWrite"}
    PROVE  WellMade(Custom(fd, to, m))
BY DEF WellMade, Custom

LEMMA RedirectionWellMade ==
    ASSUME NEW r \in Redirections
    PROVE  WellMade(r)
<1>1. \A to \in Targets : Silent(to.meant)
  BY TargetSilent
<1>2. \A to \in Paths : to \in Targets
  BY DEF Targets
<1>3. \A fd \in Descriptors : fd \in Nat
  BY IngredientAssumption DEF Descriptors
<1>4. TRUE \in BOOLEAN /\ FALSE \in BOOLEAN
  OBVIOUS
<1>5. CASE r \in {Stdin(to) : to \in Targets}
  BY <1>1, <1>4, <1>5, StandardWellMade
<1>6. CASE r \in {Stdout(to, FALSE) : to \in Targets}
  BY <1>1, <1>4, <1>6, StandardWellMade
<1>7. CASE r \in {Stderr(to, FALSE) : to \in Targets}
  BY <1>1, <1>4, <1>7, StandardWellMade
<1>8. CASE r \in {Stdout(to, TRUE) : to \in Paths}
  BY <1>1, <1>2, <1>4, <1>8, StandardWellMade
<1>9. CASE r \in {Stderr(to, TRUE) : to \in Paths}
  BY <1>1, <1>2, <1>4, <1>9, StandardWellMade
<1> DEFINE near == {Custom(fd, to, m) : fd \in Descriptors, to \in Targets, m \in {"Read", "Write"}}
           far == {Custom(fd, to, m) : fd \in Descriptors, to \in Paths, m \in {"Append", "ReadWrite"}}
<1>10. CASE r \in near
  <2>1. PICK fd \in Descriptors, to \in Targets, m \in {"Read", "Write"} : r = Custom(fd, to, m)
    BY <1>10
  <2>2. QED
    BY <1>1, <1>3, <2>1, CustomWellMade
<1>11. CASE r \in far
  <2>1. PICK fd \in Descriptors, to \in Paths, m \in {"Append", "ReadWrite"} : r = Custom(fd, to, m)
    BY <1>11
  <2>2. QED
    BY <1>1, <1>2, <1>3, <2>1, CustomWellMade
<1>12. Redirections = {Stdin(to) : to \in Targets} \cup {Stdout(to, FALSE) : to \in Targets}
                      \cup {Stderr(to, FALSE) : to \in Targets}
                      \cup {Stdout(to, TRUE) : to \in Paths} \cup {Stderr(to, TRUE) : to \in Paths}
                      \cup near \cup far
  BY DEF Redirections
<1> HIDE DEF near, far
<1>13. QED
  BY <1>5, <1>6, <1>7, <1>8, <1>9, <1>10, <1>11, <1>12

-----------------------------------------------------------------------------
(***************************************************************************)
(* Lists of parts, and the expansion made of a list of commands.           *)
(***************************************************************************)
LEMMA InTurnLeads ==
    ASSUME NEW parts, NEW n \in Nat, DOMAIN parts = 1..n, NEW x \in Types,
           \A i \in 1..n : parts[i].meant \in Seq(Int) /\ Leads(x, parts[i].meant, x)
    PROVE  Leads(x, InTurn(parts).meant, x)
<1> DEFINE meanings == [i \in 1..n |-> parts[i].meant]
<1>1. InTurn(parts).meant = FlattenSeq(meanings)
  BY DEF InTurn
<1>2. meanings \in [1..n -> Seq(Int)] /\ \A i \in 1..n : Leads(x, meanings[i], x)
  OBVIOUS
<1> HIDE DEF meanings
<1>3. meanings \in Seq(Seq(Int)) /\ Len(meanings) = n
  BY <1>2
<1>4. QED
  BY <1>1, <1>2, <1>3, LeadsFlatten

LEMMA EnvsLead ==
    ASSUME NEW list, NEW n \in Nat, DOMAIN list = 1..n,
           \A i \in 1..n : /\ list[i].key \in Seq(Byte) /\ Silent(list[i].value.meant)
                           /\ env(list[i].key, list[i].value).meant \in Seq(Int)
    PROVE  Leads("NeedProg", envs(list).meant, "NeedProg")
<1> DEFINE parts == [i \in DOMAIN list |-> env(list[i].key, list[i].value)]
<1>1. DOMAIN parts = 1..n /\ \A i \in 1..n : parts[i] = env(list[i].key, list[i].value)
  OBVIOUS
<1>2. envs(list) = InTurn(parts)
  BY DEF envs
<1> HIDE DEF parts
<1>3. \A i \in 1..n : parts[i].meant \in Seq(Int) /\ Leads("NeedProg", parts[i].meant, "NeedProg")
  BY <1>1, AssignmentLeads
<1>4. QED
  BY <1>1, <1>2, <1>3, TypesAre, InTurnLeads

LEMMA ArgsLead ==
    ASSUME NEW list, NEW n \in Nat, DOMAIN list = 1..n,
           \A i \in 1..n : Silent(list[i].meant) /\ arg(list[i]).meant \in Seq(Int)
    PROVE  Leads("NeedTerm", args(list).meant, "NeedTerm")
<1> DEFINE parts == [i \in DOMAIN list |-> arg(list[i])]
<1>1. DOMAIN parts = 1..n /\ \A i \in 1..n : parts[i] = arg(list[i])
  OBVIOUS
<1>2. args(list) = InTurn(parts)
  BY DEF args
<1> HIDE DEF parts
<1>3. \A i \in 1..n : parts[i].meant \in Seq(Int) /\ Leads("NeedTerm", parts[i].meant, "NeedTerm")
  BY <1>1, WordLeads
<1>4. QED
  BY <1>1, <1>2, <1>3, TypesAre, InTurnLeads

LEMMA FlattenAppend ==
    ASSUME NEW S, NEW seqs \in Seq(Seq(S)), NEW t \in Seq(S)
    PROVE  FlattenSeq(Append(seqs, t)) = Cat(FlattenSeq(seqs), t)
<1> DEFINE n == Len(seqs)
           more == Append(seqs, t)
<1>1. n \in Nat /\ \A i \in 1..n : seqs[i] \in Seq(S)
  OBVIOUS
<1>2. /\ more \in Seq(Seq(S)) /\ Len(more) = n + 1 /\ more[n + 1] = t
      /\ \A i \in 1..n : more[i] = seqs[i]
  OBVIOUS
<1>3. PICK f : Joins(f, seqs, n, S)
  BY JoinsExists
<1>4. FlattenSeq(seqs) = f[n]
  BY <1>3, FlattenJoins
<1>5. /\ f \in [0..n -> Seq(S)] /\ f[0] = <<>>
      /\ \A i \in 1..n : f[i] = Cat(f[i - 1], seqs[i])
  BY <1>3 DEF Joins
<1> HIDE DEF n, more
<1> DEFINE last == Cat(f[n], t)
           g == [i \in 0..(n + 1) |-> IF i = n + 1 THEN last ELSE f[i]]
<1>6. last \in Seq(S)
  <2>1. f[n] \in Seq(S)
    BY <1>1, <1>5
  <2>2. QED
    BY <2>1, CatSeq
<1>7. last = Cat(f[n], t)
  OBVIOUS
<1> HIDE DEF last
<1>8. \A i \in 0..(n + 1) : i = n + 1 \/ (i # n + 1 /\ i \in 0..n)
  BY <1>1
<1>9. g \in [0..(n + 1) -> Seq(S)]
  BY <1>5, <1>6, <1>8
<1>10. g[n + 1] = last /\ \A i \in 0..n : g[i] = f[i]
  BY <1>1
<1> HIDE DEF g
<1>11. g[0] = <<>>
  BY <1>1, <1>5, <1>10
<1>12. \A i \in 1..(n + 1) : g[i] = Cat(g[i - 1], more[i])
  <2> SUFFICES ASSUME NEW i \in 1..(n + 1) PROVE g[i] = Cat(g[i - 1], more[i])
    OBVIOUS
  <2>1. CASE i = n + 1
    <3>1. i - 1 = n /\ n \in 0..n
      BY <1>1, <2>1
    <3>2. g[i - 1] = f[n]
      BY <1>10, <3>1
    <3>3. g[i] = last /\ more[i] = t
      BY <1>2, <1>10, <2>1
    <3>4. QED
      BY <1>7, <3>2, <3>3
  <2>2. CASE i # n + 1
    <3>1. i \in 1..n /\ i \in 0..n /\ i - 1 \in 0..n
      BY <1>1, <2>2
    <3>2. g[i] = f[i] /\ g[i - 1] = f[i - 1] /\ more[i] = seqs[i]
      BY <1>2, <1>10, <3>1
    <3>3. f[i] = Cat(f[i - 1], seqs[i])
      BY <1>5, <3>1
    <3>4. QED
      BY <3>2, <3>3
  <2>3. QED
    BY <2>1, <2>2
<1>13. Joins(g, more, Len(more), S)
  BY <1>2, <1>9, <1>11, <1>12 DEF Joins
<1>14. FlattenSeq(more) = g[Len(more)]
  BY <1>2, <1>13, FlattenJoins
<1>15. QED
  BY <1>2, <1>4, <1>7, <1>10, <1>14 DEF more

LEMMA InTurnAppend ==
    ASSUME NEW S, NEW parts \in Seq(S), \A p \in S : IsPart(p), NEW part, IsPart(part)
    PROVE  /\ InTurn(parts).meant \in Seq(Int)
           /\ InTurn(Append(parts, part)).meant = Cat(InTurn(parts).meant, part.meant)
<1> DEFINE n == Len(parts)
           longer == Append(parts, part)
           x == part.meant
           meanings == [i \in 1..n |-> parts[i].meant]
           more == [i \in 1..(n + 1) |-> longer[i].meant]
<1>1. n \in Nat /\ DOMAIN parts = 1..n /\ \A i \in 1..n : IsPart(parts[i])
  OBVIOUS
<1>2. /\ DOMAIN longer = 1..(n + 1) /\ longer[n + 1] = part
      /\ \A i \in 1..n : longer[i] = parts[i]
  OBVIOUS
<1>3. x \in Seq(Int) /\ \A i \in 1..n : parts[i].meant \in Seq(Int)
  BY <1>1 DEF IsPart
<1>4. InTurn(parts).meant = FlattenSeq(meanings)
  BY <1>1 DEF InTurn
<1>5. InTurn(longer).meant = FlattenSeq(more)
  BY <1>2 DEF InTurn
<1> HIDE DEF n, longer
<1>6. meanings \in [1..n -> Seq(Int)] /\ \A i \in 1..n : meanings[i] = parts[i].meant
  BY <1>3
<1>7. DOMAIN more = 1..(n + 1) /\ more[n + 1] = x /\ \A i \in 1..n : more[i] = meanings[i]
  <2>1. n + 1 \in 1..(n + 1) /\ \A i \in 1..n : i \in 1..(n + 1)
    BY <1>1
  <2>2. QED
    BY <1>2, <1>6, <2>1
<1>8. more = [i \in 1..(n + 1) |-> more[i]]
  OBVIOUS
<1>x. x \in Seq(Int)
  BY <1>3
<1> HIDE DEF meanings, more, x
<1>9. meanings \in Seq(Seq(Int)) /\ Len(meanings) = n
  BY <1>1, <1>6
<1>10. more = Append(meanings, x)
  <2> DEFINE all == Append(meanings, x)
  <2>a. /\ all \in Seq(Seq(Int)) /\ Len(all) = n + 1 /\ all[n + 1] = x
        /\ \A i \in 1..n : all[i] = meanings[i]
    BY <1>1, <1>9, <1>x
  <2> HIDE DEF all
  <2>1. all = [i \in 1..(n + 1) |-> all[i]]
    BY <2>a
  <2>2. \A i \in 1..(n + 1) : i = n + 1 \/ i \in 1..n
    BY <1>1
  <2>3. \A i \in 1..(n + 1) : more[i] = all[i]
    BY <1>7, <2>a, <2>2
  <2>4. more = all
    BY <1>8, <2>1, <2>3, Zenon
  <2>5. QED
    BY <2>4 DEF all
<1>11. FlattenSeq(more) = Cat(FlattenSeq(meanings), x)
  BY <1>x, <1>9, <1>10, FlattenAppend
<1>12. FlattenSeq(meanings) \in Seq(Int)
  BY <1>9, FlattenType
<1>13. QED
  BY <1>4, <1>5, <1>11, <1>12 DEF longer, x

\* A list of commands between its two marks leaves the list around it alone.
LEMMA SubstSilent ==
    ASSUME NEW m \in Seq(Int), Leads("NeedProg", m, "Completed")
    PROVE  Silent(Cat(Cat(<<SUBST>>, m), <<END_SUBST>>))
<1> DEFINE begin == <<SUBST>>
           end == <<END_SUBST>>
           all == Cat(Cat(begin, m), end)
<1>1. begin \in Seq(Int) /\ end \in Seq(Int)
  BY MarksDiffer
<1>2. Cat(begin, m) \in Seq(Int)
  BY <1>1, CatSeq
<1>3. all \in Seq(Int)
  BY <1>1, <1>2, CatSeq
<1>4. ASSUME NEW b \in Seq(Status), NEW s \in Status
      PROVE  Judged(Append(b, s), all, Append(b, s))
  <2> DEFINE p == Append(b, s)
             q == Append(p, "begun")
             r == Append(p, "done")
  <2>1. p \in Seq(Status) /\ p # <<>>
    BY LevelTop
  <2>2. Judge(p, SUBST) = q
    BY JudgeSubst
  <2> HIDE DEF p
  <2>3. "begun" \in Stage["NeedProg"] /\ Stage["Completed"] = {"done"}
    BY StageIs
  <2>5. Judged(q, m, r)
    <3>1. PICK t \in Stage["Completed"] : Judged(Append(p, "begun"), m, Append(p, t))
      BY <2>1, <2>3 DEF Leads
    <3>2. QED
      BY <2>3, <3>1
  <2>6. Judge(r, END_SUBST) = p
    BY <2>1, JudgeEndSubst
  <2> HIDE DEF q, r
  <2>7. Judged(p, begin, q)
    BY <2>2, JudgedOne
  <2>8. Judged(r, end, p)
    BY <2>6, JudgedOne
  <2> HIDE DEF begin, end
  <2>9. Judged(p, Cat(begin, m), r)
    BY <1>1, <2>5, <2>7, JudgedCat
  <2>10. Judged(p, all, p)
    BY <1>1, <1>2, <2>8, <2>9, JudgedCat
  <2>11. QED
    BY <2>10 DEF p
<1> HIDE DEF all
<1>5. Silent(all)
  BY <1>3, <1>4 DEF Silent, Still
<1>6. QED
  BY <1>5 DEF all

LEMMA ExpansionSilent ==
    ASSUME NEW parts, NEW S, parts \in Seq(S), \A p \in S : IsPart(p),
           Leads("NeedProg", InTurn(parts).meant, "NeedTerm")
    PROVE  Silent(Expansion(Append(parts, TermPart)).meant)
<1> DEFINE longer == Append(parts, TermPart)
           m == InTurn(parts).meant
           end == <<THEN_RUN>>
           means == InTurn(longer).meant
<1>1. IsPart(TermPart) /\ TermPart.meant = end
  BY TermIsPart DEF TermPart
<1>2. m \in Seq(Int) /\ means = Cat(m, end)
  BY <1>1, InTurnAppend
<1>3. end \in Seq(Int) /\ Leads("NeedTerm", end, "Completed")
  BY MarksDiffer, EndLeads
<1> HIDE DEF m, end, longer
<1>4. Leads("NeedProg", m, "NeedTerm")
  BY DEF m
<1>5. Leads("NeedProg", Cat(m, end), "Completed") /\ Cat(m, end) \in Seq(Int)
  BY <1>2, <1>3, <1>4, LeadsCat, CatSeq
<1>6. Expansion(longer).meant = Cat(Cat(<<SUBST>>, means), <<END_SUBST>>)
  BY DEF Expansion, Cat
<1> HIDE DEF means
<1>7. Silent(Cat(Cat(<<SUBST>>, means), <<END_SUBST>>))
  BY <1>2, <1>5, SubstSilent
<1>8. QED
  BY <1>6, <1>7 DEF longer

-----------------------------------------------------------------------------
(***************************************************************************)
(* The invariant of the builder's types: what is asked for so far stands   *)
(* as the type says, and the expansion under construction leads a list to  *)
(* where its own type says.                                                *)
(***************************************************************************)
StandsAt(meaning, type) == \E t \in Stage[type] : Judged(AtFirst, meaning, Append(<<>>, t))

TopStands == st \in Types /\ StandsAt(meant, st)

HeldSilent == held = <<>> \/ Silent(held[1].meant)

SubLeads == sub = NoSub \/ (sub.st \in Types /\ Leads("NeedProg", InTurn(sub.parts).meant, sub.st))

Grammar == TopStands /\ HeldSilent /\ SubLeads

LEMMA FirstIs == AtFirst = Append(<<>>, "done") /\ <<>> \in Seq(Status)
BY DEF AtFirst

LEMMA NothingAtDone ==
    ASSUME NEW x, "done" \in Stage[x]
    PROVE  StandsAt(<<>>, x)
<1>1. Judged(AtFirst, <<>>, AtFirst)
  BY JudgedNothing
<1>2. Judged(AtFirst, <<>>, Append(<<>>, "done"))
  BY <1>1, FirstIs
<1> SUFFICES \E t \in Stage[x] : Judged(AtFirst, <<>>, Append(<<>>, t))
  BY DEF StandsAt
<1>3. QED
  BY <1>2

LEMMA NothingAt ==
    ASSUME NEW x \in {"NeedProg", "Completed"}
    PROVE  StandsAt(<<>>, x)
<1>1. "done" \in Stage[x]
  BY StageIs
<1>2. QED
  BY <1>1, NothingAtDone

LEMMA StandsThen ==
    ASSUME NEW x \in Types, NEW y \in Types, NEW m \in Seq(Int), NEW part, IsPart(part),
           StandsAt(m, x), Leads(x, part.meant, y)
    PROVE  StandsAt(m \o part.meant, y)
<1> DEFINE more == part.meant
           none == <<>>
<1>1. more \in Seq(Int)
  BY DEF IsPart
<1>2. none \in Seq(Status) /\ AtFirst = Append(none, "done")
  BY FirstIs
<1>3. PICK t \in Stage[x] : Judged(AtFirst, m, Append(none, t))
  BY DEF StandsAt
<1>4. PICK u \in Stage[y] : Judged(Append(none, t), more, Append(none, u))
  BY <1>2 DEF Leads
<1> DEFINE p == Append(none, t)
           q == Append(none, u)
<1>5. Judged(AtFirst, m, p) /\ Judged(p, more, q)
  BY <1>3, <1>4
<1> HIDE DEF p, q, more
<1>6. Judged(AtFirst, Cat(m, more), q)
  BY <1>1, <1>5, JudgedCat
<1>7. Cat(m, more) = m \o part.meant
  BY DEF Cat, more
<1>8. QED
  BY <1>6, <1>7 DEF q, StandsAt

LEMMA ExtendLeads ==
    ASSUME IInv, Grammar, NEW from \in Types, NEW to \in Types, NEW part, IsPart(part),
           Leads(from, part.meant, to), Extend({from}, to, part)
    PROVE  Grammar'
<1>1. /\ st = from /\ st' = to /\ meant' = meant \o part.meant
      /\ held' = <<>> /\ sub' = sub
  BY DEF Extend
<1>2. TopStands'
  <2>1. meant \in Seq(Int) /\ StandsAt(meant, from)
    BY <1>1 DEF IInv, TextOK, Grammar, TopStands
  <2>2. StandsAt(meant \o part.meant, to)
    BY <2>1, StandsThen
  <2>3. QED
    BY <1>1, <2>2 DEF TopStands
<1>3. HeldSilent'
  BY <1>1 DEF HeldSilent
<1>4. SubLeads'
  BY <1>1 DEF Grammar, SubLeads
<1>5. QED
  BY <1>2, <1>3, <1>4 DEF Grammar

LEMMA ThenLeads ==
    ASSUME IInv, Grammar, NEW from \in Types, NEW to \in Types, NEW part, IsPart(part),
           Leads(from, part.meant, to), Then({from}, to, part)
    PROVE  Grammar'
<1>1. /\ sub.st = from /\ sub'.st = to /\ sub'.parts = Append(sub.parts, part)
      /\ held' = <<>> /\ st' = st /\ meant' = meant
  BY DEF Then
<1>2. TopStands'
  BY <1>1 DEF Grammar, TopStands
<1>3. HeldSilent'
  BY <1>1 DEF HeldSilent
<1>4. SubLeads'
  <2> DEFINE before == InTurn(sub.parts).meant
             more == part.meant
             after == InTurn(Append(sub.parts, part)).meant
  <2>1. PICK S : sub.parts \in Seq(S) /\ \A p \in S : IsPart(p)
    BY DEF IInv, SubOK
  <2>2. before \in Seq(Int) /\ after = Cat(before, more)
    BY <2>1, InTurnAppend
  <2>3. sub # NoSub
    BY <1>1 DEF NoSub, Types
  <2>4. Leads("NeedProg", before, from)
    BY <1>1, <2>3 DEF Grammar, SubLeads
  <2>5. more \in Seq(Int)
    BY DEF IsPart
  <2>6. Leads(from, more, to)
    OBVIOUS
  <2> HIDE DEF before, more, after
  <2>7. Leads("NeedProg", Cat(before, more), to)
    BY <2>2, <2>4, <2>5, <2>6, LeadsCat
  <2>8. InTurn(sub'.parts).meant = after
    BY <1>1 DEF after
  <2>9. Leads("NeedProg", InTurn(sub'.parts).meant, sub'.st)
    BY <1>1, <2>2, <2>7, <2>8
  <2>10. QED
    BY <1>1, <2>9 DEF SubLeads
<1>5. QED
  BY <1>2, <1>3, <1>4 DEF Grammar

LEMMA OfferedSilent ==
    ASSUME Grammar, NEW a \in Offered
    PROVE  Silent(a.meant)
<1>1. held # <<>> /\ (a = held[1] \/ a = Tuple(<<Str(<<SQ, DOLLAR>>), held[1]>>))
  BY DEF Offered
<1>2. Silent(held[1].meant)
  BY <1>1 DEF Grammar, HeldSilent
<1>3. CASE a = Tuple(<<Str(<<SQ, DOLLAR>>), held[1]>>)
  <2> DEFINE first == Str(<<SQ, DOLLAR>>)
             second == held[1]
             list == <<first, second>>
             m == <<SQ, DOLLAR>>
             n == held[1].meant
             meanings == [i \in DOMAIN list |-> list[i].meant]
  <2>1. a.meant = FlattenSeq(meanings) /\ first.meant = m /\ second.meant = n
    BY <1>3 DEF Tuple, Meaning, Str
  <2>2. Silent(m) /\ m \in Seq(Int)
    <3>1. m \in Seq(Quiet)
      BY ByteQuiet DEF SQ, DOLLAR, Byte
    <3>2. QED
      BY <3>1, QuietSilent DEF Silent
  <2>3. Silent(n) /\ n \in Seq(Int)
    BY <1>2 DEF Silent
  <2> HIDE DEF first, second
  <2>4. meanings = <<first.meant, second.meant>>
    OBVIOUS
  <2> HIDE DEF m, n
  <2> DEFINE one == <<m>>
             none == <<>>
  <2>5. meanings = Append(one, n) /\ one = Append(none, m)
    BY <2>1, <2>4
  <2>6. none \in Seq(Seq(Int)) /\ one \in Seq(Seq(Int))
    BY <2>2
  <2> HIDE DEF one, meanings
  <2>7. FlattenSeq(one) = Cat(FlattenSeq(none), m)
    BY <2>2, <2>5, <2>6, FlattenAppend
  <2>8. FlattenSeq(meanings) = Cat(FlattenSeq(one), n)
    BY <2>3, <2>5, <2>6, FlattenAppend
  <2>9. FlattenSeq(none) = <<>>
    <3>1. Len(none) = 0
      OBVIOUS
    <3>2. QED
      BY <3>1, FlattenIs
  <2>10. a.meant = Cat(m, n)
    BY <2>1, <2>2, <2>7, <2>8, <2>9, CatNothing
  <2>11. QED
    BY <2>2, <2>3, <2>10, SilentCat
<1>4. QED
  BY <1>1, <1>2, <1>3

LEMMA UsableSilent ==
    ASSUME Grammar, NEW odd \in BOOLEAN, NEW a \in Usable(odd)
    PROVE  Silent(a.meant)
<1>1. a \in Args \/ a \in OddArgs \/ a \in Offered
  BY DEF Usable
<1>2. a \in Arguments \/ a \in Offered
  BY <1>1, CallAssumption
<1>3. QED
  BY <1>2, ArgumentSilent, OfferedSilent

LEMMA RedirectedWellMade ==
    ASSUME Grammar, NEW odd \in BOOLEAN, NEW r \in Redirected(odd)
    PROVE  WellMade(r)
<1>1. CASE r \in Redirects \cup OddRedirects
  BY <1>1, CallAssumption, RedirectionWellMade
<1>2. CASE r \in {Stdout(RedirectPath(a), FALSE) : a \in Offered}
  <2>1. PICK a \in Offered : r = Stdout(RedirectPath(a), FALSE)
    BY <1>2
  <2>2. Silent(RedirectPath(a).meant)
    BY OfferedSilent, PathSilent
  <2>3. FALSE \in BOOLEAN
    OBVIOUS
  <2>4. QED
    BY <2>1, <2>2, <2>3, StandardWellMade
<1>3. QED
  BY <1>1, <1>2 DEF Redirected

LEMMA EnvListLeads ==
    ASSUME NEW list \in EnvLists
    PROVE  Leads("NeedProg", envs(list).meant, "NeedProg")
<1>1. list \in Seq([key : Seq(Byte), value : Arguments])
  BY CallAssumption
<1>2. Len(list) \in Nat /\ DOMAIN list = 1..Len(list)
  BY <1>1
<1> DEFINE Pair == [key : Seq(Byte), value : Arguments]
<1>3. \A p \in Pair : p.key \in Seq(Byte) /\ p.value \in Arguments
  OBVIOUS
<1> HIDE DEF Pair
<1>4. \A i \in 1..Len(list) : list[i] \in Pair
  <2>1. list \in Seq(Pair)
    BY <1>1 DEF Pair
  <2>2. QED
    BY <2>1
<1>5. \A i \in 1..Len(list) : list[i].key \in Seq(Byte) /\ list[i].value \in Arguments
  BY <1>3, <1>4
<1>6. \A i \in 1..Len(list) : Silent(list[i].value.meant) /\ Faithful(list[i].value)
  BY <1>5, ArgumentSilent, ArgumentFaithful
<1>7. \A i \in 1..Len(list) : IsPart(env(list[i].key, list[i].value))
  BY <1>5, <1>6, EnvPart
<1>8. \A i \in 1..Len(list) : env(list[i].key, list[i].value).meant \in Seq(Int)
  BY <1>7 DEF IsPart
<1>9. QED
  BY <1>2, <1>5, <1>6, <1>8, EnvsLead

LEMMA ArgListLeads ==
    ASSUME NEW list \in ArgLists
    PROVE  Leads("NeedTerm", args(list).meant, "NeedTerm")
<1>1. list \in Seq(Arguments)
  BY CallAssumption
<1>2. Len(list) \in Nat /\ DOMAIN list = 1..Len(list) /\ \A i \in 1..Len(list) : list[i] \in Arguments
  BY <1>1
<1>3. \A i \in 1..Len(list) : Silent(list[i].meant) /\ Faithful(list[i])
  BY <1>2, ArgumentSilent, ArgumentFaithful
<1>4. \A i \in 1..Len(list) : IsPart(arg(list[i]))
  BY <1>3, ArgPart
<1>5. \A i \in 1..Len(list) : arg(list[i]).meant \in Seq(Int)
  BY <1>4 DEF IsPart
<1>6. QED
  BY <1>2, <1>3, <1>5, ArgsLead

\* The marks between commands lead from one type to the next.
LEMMA MarksLead ==
    /\ Leads("NeedTerm", AndPart.meant, "NeedProg")
    /\ Leads("NeedTerm", OrPart.meant, "NeedProg")
    /\ Leads("NeedTerm", PipePart.meant, "NeedProg")
    /\ Leads("NeedTerm", TermPart.meant, "Completed")
    /\ Leads("NeedTerm", BackgroundPart.meant, "Completed")
    /\ Leads("Completed", Nothing.meant, "NeedProg")
<1>1. /\ Leads("NeedTerm", <<AND_IF>>, "NeedProg")
      /\ Leads("NeedTerm", <<OR_IF>>, "NeedProg")
      /\ Leads("NeedTerm", <<PIPED>>, "NeedProg")
  BY JoinLeads
<1>2. Leads("NeedTerm", <<THEN_RUN>>, "Completed") /\ Leads("NeedTerm", <<DETACH>>, "Completed")
  BY EndLeads
<1>3. /\ AndPart.meant = <<AND_IF>> /\ OrPart.meant = <<OR_IF>> /\ PipePart.meant = <<PIPED>>
      /\ TermPart.meant = <<THEN_RUN>> /\ BackgroundPart.meant = <<DETACH>> /\ Nothing.meant = <<>>
  BY DEF AndPart, OrPart, PipePart, TermPart, BackgroundPart, Nothing
<1>4. QED
  BY <1>1, <1>2, <1>3, ChainLeads

LEMMA NothingInTurn == InTurn(<<>>).meant = <<>>
<1> DEFINE none == <<>>
           meanings == [i \in DOMAIN none |-> none[i].meant]
<1>1. InTurn(none).meant = FlattenSeq(meanings)
  BY DEF InTurn
<1>2. Len(none) = 0 /\ meanings = none
  OBVIOUS
<1> HIDE DEF meanings
<1>3. FlattenSeq(none) = none
  BY <1>2, FlattenIs
<1>4. QED
  BY <1>1, <1>2, <1>3

LEMMA InitGrammar == Init => Grammar
<1> SUFFICES ASSUME Init PROVE Grammar
  OBVIOUS
<1>1. HeldSilent /\ SubLeads
  BY DEF Init, HeldSilent, SubLeads
<1>2. CASE st = "NeedProg" /\ meant = <<>>
  <2>1. StandsAt(<<>>, "NeedProg")
    BY NothingAt
  <2>2. TopStands
    BY <1>2, <2>1, TypesAre DEF TopStands
  <2>3. QED
    BY <1>1, <2>2 DEF Grammar
<1>3. CASE st = "Completed" /\ \E raw \in Raws : meant = raw.meant
  <2>1. PICK raw \in Raws : meant = raw.meant
    BY <1>3
  <2>2. meant \in Seq(Int) /\ CommandList(meant)
    BY <2>1, RawAssumption
  <2>3. Judged(AtFirst, meant, AtFirst)
    <3>1. Judgement(meant) = AtFirst
      BY <2>2 DEF CommandList
    <3>2. QED
      BY <2>2, <3>1, JudgementJudged
  <2>4. StandsAt(meant, "Completed")
    <3>1. "done" \in Stage["Completed"]
      BY StageIs
    <3>2. Judged(AtFirst, meant, Append(<<>>, "done"))
      BY <2>3, FirstIs
    <3>3. QED
      BY <3>1, <3>2 DEF StandsAt
  <2>5. TopStands
    BY <1>3, <2>4, TypesAre DEF TopStands
  <2>6. QED
    BY <1>1, <2>5 DEF Grammar
<1>4. QED
  BY <1>2, <1>3 DEF Init

\* One call: what is asked for goes on standing as the type says.
LEMMA NextGrammar == IInv /\ Grammar /\ [Next]_vars => Grammar'
<1> SUFFICES ASSUME IInv, Grammar, [Next]_vars PROVE Grammar'
  OBVIOUS
<1>1. ASSUME Command_env PROVE Grammar'
  <2>1. PICK odd \in Affordable, oddName \in Affordable :
               \E key \in Names(oddName), value \in Usable(odd) :
                   Extend({"NeedProg"}, "NeedProg", env(key, value))
    BY <1>1 DEF Command_env
  <2>2. PICK key \in Names(oddName), value \in Usable(odd) :
               Extend({"NeedProg"}, "NeedProg", env(key, value))
    BY <2>1
  <2>3. odd \in BOOLEAN /\ oddName \in BOOLEAN
    BY AffordableIs
  <2>4. key \in Seq(Byte) /\ Faithful(value) /\ Silent(value.meant)
    BY <2>3, NamesAre, UsableFaithful, UsableSilent
  <2>5. IsPart(env(key, value)) /\ Leads("NeedProg", env(key, value).meant, "NeedProg")
    BY <2>4, EnvPart, AssignmentLeads
  <2>6. QED
    BY <2>2, <2>5, TypesAre, ExtendLeads
<1>2. ASSUME Command_envs PROVE Grammar'
  <2>1. PICK list \in EnvLists : Extend({"NeedProg"}, "NeedProg", envs(list))
    BY <1>2 DEF Command_envs
  <2>2. IsPart(envs(list)) /\ Leads("NeedProg", envs(list).meant, "NeedProg")
    BY EnvListPart, EnvListLeads
  <2>3. QED
    BY <2>1, <2>2, TypesAre, ExtendLeads
<1>3. ASSUME Command_redirect PROVE Grammar'
  <2>1. PICK s \in {"NeedProg", "NeedTerm"}, odd \in Affordable :
               \E r \in Redirected(odd) : Extend({s}, s, redir(r))
    BY <1>3 DEF Command_redirect
  <2>2. PICK r \in Redirected(odd) : Extend({s}, s, redir(r))
    BY <2>1
  <2>3. IsPart(redir(r)) /\ WellMade(r)
    BY AffordableIs, RedirectedPart, RedirectedWellMade
  <2>4. Leads(s, redir(r).meant, s)
    BY <2>3, RedirLeads
  <2>5. s \in Types
    BY TypesAre
  <2>6. QED
    BY <2>2, <2>3, <2>4, <2>5, ExtendLeads
<1>4. ASSUME Command_prog PROVE Grammar'
  <2>1. PICK odd \in Affordable : \E a \in Usable(odd) : Extend({"NeedProg"}, "NeedTerm", arg(a))
    BY <1>4 DEF Command_prog
  <2>2. PICK a \in Usable(odd) : Extend({"NeedProg"}, "NeedTerm", arg(a))
    BY <2>1
  <2>3. Faithful(a) /\ Silent(a.meant)
    BY AffordableIs, UsableFaithful, UsableSilent
  <2>4. IsPart(arg(a)) /\ Leads("NeedProg", arg(a).meant, "NeedTerm")
    BY <2>3, ArgPart, WordLeads
  <2>5. QED
    BY <2>2, <2>4, TypesAre, ExtendLeads
<1>5. ASSUME Command_arg PROVE Grammar'
  <2>1. PICK odd \in Affordable : \E a \in Usable(odd) : Extend({"NeedTerm"}, "NeedTerm", arg(a))
    BY <1>5 DEF Command_arg
  <2>2. PICK a \in Usable(odd) : Extend({"NeedTerm"}, "NeedTerm", arg(a))
    BY <2>1
  <2>3. Faithful(a) /\ Silent(a.meant)
    BY AffordableIs, UsableFaithful, UsableSilent
  <2>4. IsPart(arg(a)) /\ Leads("NeedTerm", arg(a).meant, "NeedTerm")
    BY <2>3, ArgPart, WordLeads
  <2>5. QED
    BY <2>2, <2>4, TypesAre, ExtendLeads
<1>6. ASSUME Command_args PROVE Grammar'
  <2>1. PICK list \in ArgLists : Extend({"NeedTerm"}, "NeedTerm", args(list))
    BY <1>6 DEF Command_args
  <2>2. IsPart(args(list)) /\ Leads("NeedTerm", args(list).meant, "NeedTerm")
    BY ArgListPart, ArgListLeads
  <2>3. QED
    BY <2>1, <2>2, TypesAre, ExtendLeads
<1>7. ASSUME Command_and PROVE Grammar'
  <2>1. Extend({"NeedTerm"}, "NeedProg", AndPart)
    BY <1>7 DEF Command_and
  <2>2. Leads("NeedTerm", AndPart.meant, "NeedProg")
    BY MarksLead
  <2>3. QED
    BY <2>1, <2>2, AndIsPart, TypesAre, ExtendLeads
<1>8. ASSUME Command_or PROVE Grammar'
  <2>1. Extend({"NeedTerm"}, "NeedProg", OrPart)
    BY <1>8 DEF Command_or
  <2>2. Leads("NeedTerm", OrPart.meant, "NeedProg")
    BY MarksLead
  <2>3. QED
    BY <2>1, <2>2, OrIsPart, TypesAre, ExtendLeads
<1>9. ASSUME Command_pipe PROVE Grammar'
  <2>1. Extend({"NeedTerm"}, "NeedProg", PipePart)
    BY <1>9 DEF Command_pipe
  <2>2. Leads("NeedTerm", PipePart.meant, "NeedProg")
    BY MarksLead
  <2>3. QED
    BY <2>1, <2>2, PipeIsPart, TypesAre, ExtendLeads
<1>10. ASSUME Command_complete PROVE Grammar'
  <2>1. PICK bg \in BOOLEAN :
               Extend({"NeedTerm"}, "Completed", IF bg THEN BackgroundPart ELSE TermPart)
    BY <1>10 DEF Command_complete
  <2>2. Leads("NeedTerm", TermPart.meant, "Completed") /\ Leads("NeedTerm", BackgroundPart.meant, "Completed")
    BY MarksLead
  <2>3. CASE bg
    <3>1. Extend({"NeedTerm"}, "Completed", BackgroundPart)
      BY <2>1, <2>3
    <3>2. QED
      BY <2>2, <3>1, BackgroundIsPart, TypesAre, ExtendLeads
  <2>4. CASE ~bg
    <3>1. Extend({"NeedTerm"}, "Completed", TermPart)
      BY <2>1, <2>4
    <3>2. QED
      BY <2>2, <3>1, TermIsPart, TypesAre, ExtendLeads
  <2>5. QED
    BY <2>3, <2>4
<1>11. ASSUME Command_chain PROVE Grammar'
  <2>1. Extend({"Completed"}, "NeedProg", Nothing)
    BY <1>11 DEF Command_chain
  <2>2. Leads("Completed", Nothing.meant, "NeedProg")
    BY MarksLead
  <2>3. QED
    BY <2>1, <2>2, NothingIsPart, TypesAre, ExtendLeads
<1>12. ASSUME Command_take_inner PROVE Grammar'
  <2>1. st = "Completed" /\ st' = st /\ meant' = <<>> /\ sub' = sub /\ held' = held
    BY <1>12 DEF Command_take_inner
  <2>2. TopStands'
    <3>1. StandsAt(<<>>, "Completed")
      BY NothingAt
    <3>2. QED
      BY <2>1, <3>1, TypesAre DEF TopStands
  <2>3. HeldSilent' /\ SubLeads'
    BY <2>1 DEF Grammar, HeldSilent, SubLeads
  <2>4. QED
    BY <2>2, <2>3 DEF Grammar
<1>13. ASSUME Expand_env PROVE Grammar'
  <2>1. PICK odd \in Affordable, oddName \in Affordable :
               \E key \in Names(oddName), value \in Usable(odd) :
                   Then({"NeedProg"}, "NeedProg", env(key, value))
    BY <1>13 DEF Expand_env
  <2>2. PICK key \in Names(oddName), value \in Usable(odd) :
               Then({"NeedProg"}, "NeedProg", env(key, value))
    BY <2>1
  <2>3. odd \in BOOLEAN /\ oddName \in BOOLEAN
    BY AffordableIs
  <2>4. key \in Seq(Byte) /\ Faithful(value) /\ Silent(value.meant)
    BY <2>3, NamesAre, UsableFaithful, UsableSilent
  <2>5. IsPart(env(key, value)) /\ Leads("NeedProg", env(key, value).meant, "NeedProg")
    BY <2>4, EnvPart, AssignmentLeads
  <2>6. QED
    BY <2>2, <2>5, TypesAre, ThenLeads
<1>14. ASSUME Expand_envs PROVE Grammar'
  <2>1. PICK list \in EnvLists : Then({"NeedProg"}, "NeedProg", envs(list))
    BY <1>14 DEF Expand_envs
  <2>2. IsPart(envs(list)) /\ Leads("NeedProg", envs(list).meant, "NeedProg")
    BY EnvListPart, EnvListLeads
  <2>3. QED
    BY <2>1, <2>2, TypesAre, ThenLeads
<1>15. ASSUME Expand_redirect PROVE Grammar'
  <2>1. PICK s \in {"NeedProg", "NeedTerm"}, odd \in Affordable :
               \E r \in Redirected(odd) : Then({s}, s, redir(r))
    BY <1>15 DEF Expand_redirect
  <2>2. PICK r \in Redirected(odd) : Then({s}, s, redir(r))
    BY <2>1
  <2>3. IsPart(redir(r)) /\ WellMade(r)
    BY AffordableIs, RedirectedPart, RedirectedWellMade
  <2>4. Leads(s, redir(r).meant, s)
    BY <2>3, RedirLeads
  <2>5. s \in Types
    BY TypesAre
  <2>6. QED
    BY <2>2, <2>3, <2>4, <2>5, ThenLeads
<1>16. ASSUME Expand_prog PROVE Grammar'
  <2>1. PICK odd \in Affordable : \E a \in Usable(odd) : Then({"NeedProg"}, "NeedTerm", arg(a))
    BY <1>16 DEF Expand_prog
  <2>2. PICK a \in Usable(odd) : Then({"NeedProg"}, "NeedTerm", arg(a))
    BY <2>1
  <2>3. Faithful(a) /\ Silent(a.meant)
    BY AffordableIs, UsableFaithful, UsableSilent
  <2>4. IsPart(arg(a)) /\ Leads("NeedProg", arg(a).meant, "NeedTerm")
    BY <2>3, ArgPart, WordLeads
  <2>5. QED
    BY <2>2, <2>4, TypesAre, ThenLeads
<1>17. ASSUME Expand_arg PROVE Grammar'
  <2>1. PICK odd \in Affordable : \E a \in Usable(odd) : Then({"NeedTerm"}, "NeedTerm", arg(a))
    BY <1>17 DEF Expand_arg
  <2>2. PICK a \in Usable(odd) : Then({"NeedTerm"}, "NeedTerm", arg(a))
    BY <2>1
  <2>3. Faithful(a) /\ Silent(a.meant)
    BY AffordableIs, UsableFaithful, UsableSilent
  <2>4. IsPart(arg(a)) /\ Leads("NeedTerm", arg(a).meant, "NeedTerm")
    BY <2>3, ArgPart, WordLeads
  <2>5. QED
    BY <2>2, <2>4, TypesAre, ThenLeads
<1>18. ASSUME Expand_args PROVE Grammar'
  <2>1. PICK list \in ArgLists : Then({"NeedTerm"}, "NeedTerm", args(list))
    BY <1>18 DEF Expand_args
  <2>2. IsPart(args(list)) /\ Leads("NeedTerm", args(list).meant, "NeedTerm")
    BY ArgListPart, ArgListLeads
  <2>3. QED
    BY <2>1, <2>2, TypesAre, ThenLeads
<1>19. ASSUME Expand_and PROVE Grammar'
  <2>1. Then({"NeedTerm"}, "NeedProg", AndPart)
    BY <1>19 DEF Expand_and
  <2>2. Leads("NeedTerm", AndPart.meant, "NeedProg")
    BY MarksLead
  <2>3. QED
    BY <2>1, <2>2, AndIsPart, TypesAre, ThenLeads
<1>20. ASSUME Expand_or PROVE Grammar'
  <2>1. Then({"NeedTerm"}, "NeedProg", OrPart)
    BY <1>20 DEF Expand_or
  <2>2. Leads("NeedTerm", OrPart.meant, "NeedProg")
    BY MarksLead
  <2>3. QED
    BY <2>1, <2>2, OrIsPart, TypesAre, ThenLeads
<1>21. ASSUME Expand_pipe PROVE Grammar'
  <2>1. Then({"NeedTerm"}, "NeedProg", PipePart)
    BY <1>21 DEF Expand_pipe
  <2>2. Leads("NeedTerm", PipePart.meant, "NeedProg")
    BY MarksLead
  <2>3. QED
    BY <2>1, <2>2, PipeIsPart, TypesAre, ThenLeads
<1>22. ASSUME Expand_new PROVE Grammar'
  <2>1. sub'.st = "NeedProg" /\ sub'.parts = <<>> /\ st' = st /\ meant' = meant /\ held' = held
    BY <1>22 DEF Expand_new
  <2>2. TopStands' /\ HeldSilent'
    BY <2>1 DEF Grammar, TopStands, HeldSilent
  <2>3. SubLeads'
    <3>1. InTurn(<<>>).meant = <<>>
      BY NothingInTurn
    <3>2. Leads("NeedProg", <<>>, "NeedProg")
      BY NothingSilent, StillLeads, TypesAre DEF Silent
    <3>3. QED
      BY <2>1, <3>1, <3>2, TypesAre DEF SubLeads
  <2>4. QED
    BY <2>2, <2>3 DEF Grammar
<1>23. ASSUME Expand_complete PROVE Grammar'
  <2> DEFINE e == Expansion(Append(sub.parts, TermPart))
  <2>1. sub.st = "NeedTerm" /\ held' = <<e>> /\ sub' = NoSub /\ st' = st /\ meant' = meant
    BY <1>23 DEF Expand_complete
  <2>2. TopStands' /\ SubLeads'
    BY <2>1 DEF Grammar, TopStands, SubLeads
  <2>3. PICK S : sub.parts \in Seq(S) /\ \A p \in S : IsPart(p)
    BY DEF IInv, SubOK
  <2>4. Leads("NeedProg", InTurn(sub.parts).meant, "NeedTerm")
    <3>1. sub # NoSub
      BY <2>1 DEF NoSub
    <3>2. QED
      BY <2>1, <3>1 DEF Grammar, SubLeads
  <2>5. Silent(e.meant)
    BY <2>3, <2>4, ExpansionSilent
  <2> HIDE DEF e
  <2>6. held'[1] = e
    BY <2>1
  <2>7. HeldSilent'
    BY <2>5, <2>6 DEF HeldSilent
  <2>8. QED
    BY <2>2, <2>7 DEF Grammar
<1>24. ASSUME UNCHANGED vars PROVE Grammar'
  BY <1>24 DEF vars, Grammar, TopStands, HeldSilent, SubLeads
<1>25. QED
  BY <1>1, <1>2, <1>3, <1>4, <1>5, <1>6, <1>7, <1>8, <1>9, <1>10,
     <1>11, <1>12, <1>13, <1>14, <1>15, <1>16, <1>17, <1>18, <1>19, <1>20,
     <1>21, <1>22, <1>23, <1>24 DEF Next

\* A command that can be run is a complete list of commands for the shell: no
\* order of the calls the types allow joins nothing, names no program or ends
\* without ; or &, in the command and in every expansion inside it.
THEOREM CommandsAreComplete == Spec => []Grammatical
<1>1. IInv /\ Grammar => Grammatical
  <2> SUFFICES ASSUME IInv, Grammar, st = "Completed" PROVE CommandList(Reading(buf).got)
    BY DEF Grammatical
  <2>1. meant \in Seq(Int) /\ Len(meant) \in Nat
    BY DEF IInv, TextOK
  <2>2. Judged(AtFirst, meant, AtFirst)
    <3>1. PICK t \in Stage["Completed"] : Judged(AtFirst, meant, Append(<<>>, t))
      BY DEF Grammar, TopStands, StandsAt
    <3>2. t = "done"
      BY StageIs
    <3>3. QED
      BY <3>1, <3>2, FirstIs
  <2>3. Judgement(meant) = AtFirst
    BY <2>1, <2>2, JudgedIsJudgement
  <2>4. Reading(buf).got = meant
    BY ReadsWhatIsMeant DEF ReadsAsMeant
  <2>5. QED
    BY <2>3, <2>4 DEF CommandList
<1>2. Init => IInv /\ Grammar
  BY InitIInv, InitGrammar
<1>3. IInv /\ Grammar /\ [Next]_vars => (IInv /\ Grammar)'
  BY NextIInv, NextGrammar
<1>4. QED
  BY <1>1, <1>2, <1>3, PTL DEF Spec
=============================================================================
