-------------------------- MODULE ProxyChainProofs --------------------------
(***************************************************************************)
(* parse_config for every configuration: what has been pushed and what is  *)
(* still to be expanded always add up to the route.                        *)
(***************************************************************************)
EXTENDS ProxyChain, SequenceTheorems, TLAPS

-----------------------------------------------------------------------------
(***************************************************************************)
(* Reversal.                                                               *)
(***************************************************************************)
LEMMA ReverseType ==
    ASSUME NEW S, NEW s \in Seq(S)
    PROVE  /\ Reverse(s) \in Seq(S) /\ Len(Reverse(s)) = Len(s)
           /\ \A i \in 1..Len(s) : Reverse(s)[i] = s[Len(s) - i + 1]
BY DEF Reverse

LEMMA ReverseConcat ==
    ASSUME NEW S, NEW s \in Seq(S), NEW t \in Seq(S)
    PROVE  Reverse(s \o t) = Reverse(t) \o Reverse(s)
<1> DEFINE l == Reverse(s \o t)
           r == Reverse(t) \o Reverse(s)
<1>1. s \o t \in Seq(S) /\ Len(s \o t) = Len(s) + Len(t)
  BY ConcatProperties
<1>2. l \in Seq(S) /\ Len(l) = Len(s) + Len(t)
  BY <1>1, ReverseType
<1>3. Reverse(s) \in Seq(S) /\ Reverse(t) \in Seq(S) /\ Len(Reverse(s)) = Len(s) /\ Len(Reverse(t)) = Len(t)
  BY ReverseType
<1>0. Len(s) \in Nat /\ Len(t) \in Nat
  OBVIOUS
<1>4. r \in Seq(S) /\ Len(r) = Len(s) + Len(t)
  <2>1. r \in Seq(S) /\ Len(r) = Len(Reverse(t)) + Len(Reverse(s))
    BY <1>3, ConcatProperties
  <2>2. QED
    BY <1>0, <1>3, <2>1
<1>5. ASSUME NEW i \in 1..(Len(s) + Len(t)) PROVE l[i] = r[i]
  <2> DEFINE j == Len(s) + Len(t) - i + 1
  <2>1. l[i] = (s \o t)[j] /\ j \in 1..(Len(s) + Len(t))
    <3>1. l[i] = (s \o t)[Len(s \o t) - i + 1]
      BY <1>1, ReverseType
    <3>2. QED
      BY <1>0, <1>1, <3>1
  <2>2. CASE i <= Len(t)
    <3>1. j > Len(s) /\ j - Len(s) = Len(t) - i + 1
      BY <1>0, <2>2
    <3>2. l[i] = t[Len(t) - i + 1]
      BY <1>0, <2>1, <3>1, ConcatProperties
    <3>3. r[i] = Reverse(t)[i] /\ i \in 1..Len(t)
      BY <1>3, <1>0, <2>2, ConcatProperties
    <3>4. QED
      BY <3>2, <3>3, ReverseType
  <2>3. CASE i > Len(t)
    <3>1. j <= Len(s)
      BY <1>0, <2>3
    <3>2. l[i] = s[j]
      BY <1>0, <2>1, <3>1, ConcatProperties
    <3>3. r[i] = Reverse(s)[i - Len(t)] /\ i - Len(t) \in 1..Len(s)
      <4>1. i \in 1..(Len(Reverse(t)) + Len(Reverse(s))) /\ ~(i <= Len(Reverse(t)))
        BY <1>0, <1>3, <2>3
      <4>2. r[i] = Reverse(s)[i - Len(Reverse(t))]
        BY <1>3, <4>1, ConcatProperties
      <4>3. QED
        BY <1>0, <1>3, <2>3, <4>2
    <3>4. Reverse(s)[i - Len(t)] = s[Len(s) - (i - Len(t)) + 1]
      BY <3>3, ReverseType
    <3>5. Len(s) - (i - Len(t)) + 1 = j
      BY <1>0
    <3>6. QED
      BY <3>2, <3>3, <3>4, <3>5
  <2>4. i <= Len(t) \/ i > Len(t)
    BY <1>0
  <2>5. QED
    BY <2>2, <2>3, <2>4
<1>6. QED
  BY <1>2, <1>4, <1>5, SeqEqual

LEMMA ReverseTwice ==
    ASSUME NEW S, NEW s \in Seq(S)
    PROVE  Reverse(Reverse(s)) = s
<1>1. Reverse(s) \in Seq(S) /\ Len(Reverse(s)) = Len(s)
  BY ReverseType
<1>2. Reverse(Reverse(s)) \in Seq(S) /\ Len(Reverse(Reverse(s))) = Len(s)
  BY <1>1, ReverseType
<1>3. ASSUME NEW i \in 1..Len(s) PROVE Reverse(Reverse(s))[i] = s[i]
  <2>1. Len(s) - i + 1 \in 1..Len(s) /\ Len(s) - (Len(s) - i + 1) + 1 = i
    OBVIOUS
  <2>2. Reverse(Reverse(s))[i] = Reverse(s)[Len(s) - i + 1]
    BY <1>1, ReverseType
  <2>3. Reverse(s)[Len(s) - i + 1] = s[Len(s) - (Len(s) - i + 1) + 1]
    BY <2>1, ReverseType
  <2>4. QED
    BY <2>1, <2>2, <2>3
<1>4. QED
  BY <1>2, <1>3, SeqEqual

LEMMA ReverseOne ==
    ASSUME NEW x
    PROVE  Reverse(<<x>>) = <<x>>
<1>1. <<x>> \in Seq({x}) /\ Len(<<x>>) = 1 /\ <<x>>[1] = x
  OBVIOUS
<1>2. /\ Reverse(<<x>>) \in Seq({x}) /\ Len(Reverse(<<x>>)) = 1
      /\ Reverse(<<x>>)[1] = <<x>>[1 - 1 + 1]
  BY <1>1, ReverseType
<1>3. QED
  BY <1>1, <1>2

LEMMA OneIsSeq ==
    ASSUME NEW S, NEW x \in S
    PROVE  <<x>> \in Seq(S)
OBVIOUS

\* Concatenation under a name of its own: the provers expand \o wherever they
\* see it, and lose the terms the laws below are about.
Cat(s, t) == s \o t

LEMMA CatType ==
    ASSUME NEW S, NEW p \in Seq(S), NEW q \in Seq(S)
    PROVE  Cat(p, q) \in Seq(S)
BY DEF Cat

LEMMA CatAssociative ==
    ASSUME NEW S, NEW p \in Seq(S), NEW q \in Seq(S), NEW r \in Seq(S)
    PROVE  Cat(Cat(p, q), r) = Cat(p, Cat(q, r))
<1>1. (p \o q) \o r = p \o (q \o r)
  BY ConcatAssociative
<1>2. QED
  BY <1>1 DEF Cat

LEMMA ReverseCat ==
    ASSUME NEW S, NEW p \in Seq(S), NEW q \in Seq(S)
    PROVE  Reverse(Cat(p, q)) = Cat(Reverse(q), Reverse(p))
<1>1. Reverse(p \o q) = Reverse(q) \o Reverse(p)
  BY ReverseConcat
<1>2. QED
  BY <1>1 DEF Cat

\* Four sequences grouped from either end.
LEMMA Regroup ==
    ASSUME NEW S, NEW p \in Seq(S), NEW q \in Seq(S), NEW r \in Seq(S), NEW u \in Seq(S)
    PROVE  Cat(Cat(Cat(p, q), r), u) = Cat(p, Cat(q, Cat(r, u)))
<1>1. Cat(p, q) \in Seq(S) /\ Cat(r, u) \in Seq(S)
  BY CatType
<1>2. Cat(Cat(Cat(p, q), r), u) = Cat(Cat(p, q), Cat(r, u))
  BY <1>1, CatAssociative
<1>3. Cat(Cat(p, q), Cat(r, u)) = Cat(p, Cat(q, Cat(r, u)))
  BY <1>1, CatAssociative
<1>4. QED
  BY <1>2, <1>3

\* What a round pushes shows up, read from the end, in front of what was there.
LEMMA PushedBehind ==
    ASSUME NEW S, NEW b \in Seq(S), NEW rest \in Seq(S), NEW one \in Seq(S), NEW t \in Seq(S),
           Reverse(one) = one
    PROVE  Cat(Reverse(Cat(b, Cat(Reverse(rest), one))), t) = Cat(one, Cat(rest, Cat(Reverse(b), t)))
<1> DEFINE back == Reverse(rest)
           before == Reverse(b)
<1>1. back \in Seq(S) /\ before \in Seq(S) /\ Reverse(back) = rest
  BY ReverseType, ReverseTwice
<1> HIDE DEF back, before
<1>2. Cat(back, one) \in Seq(S)
  BY <1>1, CatType
<1>3. Reverse(Cat(b, Cat(back, one))) = Cat(Reverse(Cat(back, one)), Reverse(b))
  BY <1>2, ReverseCat
<1>4. Reverse(Cat(back, one)) = Cat(one, rest)
  <2>1. Reverse(Cat(back, one)) = Cat(Reverse(one), Reverse(back))
    BY <1>1, ReverseCat
  <2>2. QED
    BY <1>1, <2>1
<1>5. Cat(Reverse(Cat(b, Cat(back, one))), t) = Cat(Cat(Cat(one, rest), before), t)
  BY <1>3, <1>4 DEF before
<1>6. Cat(Cat(Cat(one, rest), before), t) = Cat(one, Cat(rest, Cat(before, t)))
  BY <1>1, Regroup
<1>7. QED
  BY <1>5, <1>6 DEF back, before

-----------------------------------------------------------------------------
(***************************************************************************)
(* The loop invariant.                                                     *)
(***************************************************************************)
\* The part of the route that is pushed already, in the order of the route.
Behind == Reverse(bastions) \o <<target>>

\* The route is what is behind, after the rest of the list being expanded, after
\* the expansion of its first server.
Unfolded ==
    IF proxy_jump = <<>>
    THEN Expansion(conf, target) = Behind
    ELSE LET first == Expansion(conf, Head(proxy_jump))
         IN  /\ first = NULL => Expansion(conf, target) = NULL
             /\ first # NULL => Expansion(conf, target) = first \o (Tail(proxy_jump) \o Behind)

LoopInv ==
    /\ conf \in Confs
    /\ pc = "query" => bastions = <<>>
    /\ pc \in {"loop", "done"} => Unfolded /\ Resolves(target) /\ AllResolve(bastions)
    /\ pc = "done" => proxy_jump = <<>>
    /\ pc = "error" =>
           \/ ~Resolves(target)
           \/ proxy_jump # <<>> /\ Unfolded /\ ~AllResolve(proxy_jump)

Inv == TypeOK /\ LoopInv

\* An expansion is a sequence of targets that ends with the one it expands.
LEMMA ExpansionEnds ==
    ASSUME NEW cf \in Confs, NEW t \in Target, Expansion(cf, t) # NULL
    PROVE  /\ Expansion(cf, t) \in Seq(Target)
           /\ Expansion(cf, t) # <<>>
           /\ Expansion(cf, t)[Len(Expansion(cf, t))] = t
<1> DEFINE jumps == cf[t.host].proxy_jump
           first == Expansion(cf, Head(jumps))
<1>1. jumps \in Seq(Target)
  BY ConfsAssumption DEF Target, Params
<1>2. CASE jumps = <<>>
  <2>1. Expansion(cf, t) = <<t>>
    BY <1>2, ExpansionAssumption
  <2>2. QED
    BY <2>1
<1>3. CASE jumps # <<>>
  <2>1. Head(jumps) \in Target /\ Tail(jumps) \in Seq(Target)
    BY <1>1, <1>3
  <2>2. first # NULL /\ first \in Seq(Target)
    BY <1>3, <2>1, ExpansionAssumption
  <2>3. Expansion(cf, t) = first \o Tail(jumps) \o <<t>>
    BY <1>3, <2>2, ExpansionAssumption
  <2>4. first \o Tail(jumps) \in Seq(Target)
    BY <2>1, <2>2
  <2> DEFINE front == first \o Tail(jumps)
  <2> HIDE DEF front
  <2>5. front \in Seq(Target) /\ Expansion(cf, t) = front \o <<t>>
    BY <2>3, <2>4 DEF front
  <2>6. QED
    BY <2>5
<1>4. QED
  BY <1>2, <1>3

\* All servers of a list resolve when those of its parts do.
LEMMA ResolveConcat ==
    ASSUME NEW s \in Seq(Target), NEW t \in Seq(Target)
    PROVE  AllResolve(s \o t) <=> AllResolve(s) /\ AllResolve(t)
<1>1. /\ s \o t \in Seq(Target) /\ Len(s \o t) = Len(s) + Len(t)
      /\ \A i \in 1..(Len(s) + Len(t)) : (s \o t)[i] = IF i <= Len(s) THEN s[i] ELSE t[i - Len(s)]
  BY ConcatProperties
<1>2. ASSUME AllResolve(s \o t) PROVE AllResolve(s) /\ AllResolve(t)
  <2>1. ASSUME NEW i \in 1..Len(s) PROVE Resolves(s[i])
    <3>1. i \in DOMAIN (s \o t) /\ (s \o t)[i] = s[i]
      BY <1>1
    <3>2. QED
      BY <1>2, <3>1 DEF AllResolve
  <2>2. ASSUME NEW i \in 1..Len(t) PROVE Resolves(t[i])
    <3>1. Len(s) + i \in DOMAIN (s \o t) /\ (s \o t)[Len(s) + i] = t[i]
      BY <1>1
    <3>2. QED
      BY <1>2, <3>1 DEF AllResolve
  <2>3. QED
    BY <2>1, <2>2 DEF AllResolve
<1>3. ASSUME AllResolve(s), AllResolve(t) PROVE AllResolve(s \o t)
  <2>1. ASSUME NEW i \in 1..(Len(s) + Len(t)) PROVE Resolves((s \o t)[i])
    <3>1. CASE i <= Len(s)
      BY <1>1, <1>3, <3>1 DEF AllResolve
    <3>2. CASE i > Len(s)
      <4>1. i - Len(s) \in 1..Len(t) /\ (s \o t)[i] = t[i - Len(s)]
        BY <1>1, <3>2
      <4>2. QED
        BY <1>3, <4>1 DEF AllResolve
    <3>3. i <= Len(s) \/ i > Len(s)
      OBVIOUS
    <3>4. QED
      BY <3>1, <3>2, <3>3
  <2>2. QED
    BY <1>1, <2>1 DEF AllResolve
<1>4. QED
  BY <1>2, <1>3

LEMMA ResolveReverse ==
    ASSUME NEW s \in Seq(Target)
    PROVE  AllResolve(Reverse(s)) <=> AllResolve(s)
<1>1. /\ Reverse(s) \in Seq(Target) /\ Len(Reverse(s)) = Len(s)
      /\ \A i \in 1..Len(s) : Reverse(s)[i] = s[Len(s) - i + 1]
  BY ReverseType
<1>2. \A i \in 1..Len(s) : Len(s) - i + 1 \in 1..Len(s) /\ Len(s) - (Len(s) - i + 1) + 1 = i
  OBVIOUS
<1>3. ASSUME AllResolve(s), NEW i \in 1..Len(s) PROVE Resolves(Reverse(s)[i])
  <2>1. Resolves(s[Len(s) - i + 1])
    BY <1>2, <1>3 DEF AllResolve
  <2>2. QED
    BY <1>1, <2>1
<1>4. ASSUME AllResolve(Reverse(s)), NEW i \in 1..Len(s) PROVE Resolves(s[i])
  <2>1. Resolves(Reverse(s)[Len(s) - i + 1])
    BY <1>1, <1>2, <1>4 DEF AllResolve
  <2>2. Reverse(s)[Len(s) - i + 1] = s[i]
    BY <1>1, <1>2
  <2>3. QED
    BY <2>1, <2>2
<1>5. AllResolve(s) => AllResolve(Reverse(s))
  BY <1>1, <1>3 DEF AllResolve
<1>6. AllResolve(Reverse(s)) => AllResolve(s)
  BY <1>4 DEF AllResolve
<1>7. QED
  BY <1>5, <1>6

LEMMA ResolveOne ==
    ASSUME NEW t
    PROVE  AllResolve(<<t>>) <=> Resolves(t)
BY DEF AllResolve

\* One round: the servers pushed move from the list to what is behind, and the
\* expansion of the first of them takes their place.
LEMMA Round ==
    ASSUME Inv, pc = "loop", Unfolded, proxy_jump # <<>>, UNCHANGED <<conf, target>>,
           bastions' = bastions \o Pushed(proxy_jump),
           proxy_jump' = conf[Followed(proxy_jump).host].proxy_jump
    PROVE  Unfolded'
<1> DEFINE jumps == proxy_jump
           f     == Head(proxy_jump)
           rest  == Tail(proxy_jump)
           next  == conf[Head(proxy_jump).host].proxy_jump
           first == Expansion(conf, Head(proxy_jump))
           route == Expansion(conf, target)
<1>1. /\ f \in Target /\ rest \in Seq(Target) /\ bastions \in Seq(Target) /\ target \in Target
      /\ conf \in Confs /\ conf \in [Name -> Params]
  BY DEF Inv, TypeOK, LoopInv
<1>2. next \in Seq(Target)
  BY <1>1 DEF Target, Params
<1>3. proxy_jump' = next /\ bastions' = bastions \o (Reverse(rest) \o <<f>>)
  BY DEF Pushed, Followed
<1>4. Behind \in Seq(Target) /\ Reverse(bastions) \in Seq(Target)
  BY <1>1, ReverseType DEF Behind
<1>5. Behind' = <<f>> \o (rest \o Behind)
  <2>1. Behind' = Reverse(bastions \o (Reverse(rest) \o <<f>>)) \o <<target>>
    BY <1>3 DEF Behind
  <2> DEFINE one == <<f>>
             last == <<target>>
  <2>2. /\ bastions \in Seq(Target) /\ rest \in Seq(Target)
        /\ one \in Seq(Target) /\ last \in Seq(Target) /\ Reverse(one) = one
    BY <1>1, OneIsSeq, ReverseOne
  <2> HIDE DEF rest, one, last
  <2>3. Cat(Reverse(Cat(bastions, Cat(Reverse(rest), one))), last)
            = Cat(one, Cat(rest, Cat(Reverse(bastions), last)))
    BY <2>2, PushedBehind
  <2>4. Reverse(bastions \o (Reverse(rest) \o one)) \o last
            = one \o (rest \o (Reverse(bastions) \o last))
    BY <2>3 DEF Cat
  <2>5. QED
    BY <2>1, <2>4 DEF Behind, one, last
<1>6. /\ first = NULL => route = NULL
      /\ first # NULL => route = first \o (rest \o Behind)
  BY DEF Unfolded
<1>7. CASE next = <<>>
  <2>1. first = <<f>>
    BY <1>1, <1>7, ExpansionAssumption
  <2>2. <<f>> # NULL
    <3>1. <<f>> \in Seq(Target)
      BY <1>1, OneIsSeq
    <3>2. QED
      BY <3>1, NullAssumption
  <2>3. route = Behind'
    BY <1>5, <1>6, <2>1, <2>2
  <2>4. QED
    BY <1>3, <1>7, <2>3 DEF Unfolded
<1>8. CASE next # <<>>
  <2> DEFINE second == Expansion(conf, Head(next))
  <2>1. Head(next) \in Target /\ Tail(next) \in Seq(Target)
    BY <1>2, <1>8
  <2>2. CASE second = NULL
    <3>1. first = NULL
      BY <1>1, <1>8, <2>2, ExpansionAssumption
    <3>2. route = NULL
      BY <1>6, <3>1
    <3>3. QED
      BY <1>3, <1>8, <2>2, <3>2 DEF Unfolded
  <2>3. CASE second # NULL
    <3>1. first = second \o Tail(next) \o <<f>> /\ second \in Seq(Target)
      BY <1>1, <1>8, <2>1, <2>3, ExpansionAssumption
    <3>2. <<f>> \in Seq(Target)
      BY <1>1, OneIsSeq
    <3>3. first \in Seq(Target)
      <4>1. second \o Tail(next) \in Seq(Target)
        BY <2>1, <3>1, ConcatProperties
      <4>2. (second \o Tail(next)) \o <<f>> \in Seq(Target)
        BY <3>2, <4>1, ConcatProperties, Zenon
      <4>3. QED
        BY <3>1, <4>2
    <3>4. first # NULL
      BY <3>3, NullAssumption
    <3>5. route = ((second \o Tail(next)) \o <<f>>) \o (rest \o Behind)
      BY <1>6, <3>1, <3>4
    <3>6. rest \o Behind \in Seq(Target)
      BY <1>1, <1>4, ConcatProperties
    <3>7. route = second \o (Tail(next) \o (<<f>> \o (rest \o Behind)))
      <4> DEFINE two   == second
                 tail  == Tail(next)
                 one   == <<f>>
                 after == rest \o Behind
      <4>1. two \in Seq(Target) /\ tail \in Seq(Target) /\ one \in Seq(Target) /\ after \in Seq(Target)
        BY <2>1, <3>1, <3>2, <3>6
      <4>2. route = ((two \o tail) \o one) \o after
        BY <3>5
      <4> HIDE DEF two, tail, one, after
      <4>3. ((two \o tail) \o one) \o after = two \o (tail \o (one \o after))
        <5>1. Cat(Cat(Cat(two, tail), one), after) = Cat(two, Cat(tail, Cat(one, after)))
          BY <4>1, Regroup
        <5>2. QED
          BY <5>1 DEF Cat
      <4>4. route = two \o (tail \o (one \o after))
        BY <4>2, <4>3
      <4>5. QED
        BY <4>4 DEF two, tail, one, after
    <3>8. route = second \o (Tail(next) \o Behind')
      BY <1>5, <3>7
    <3>9. QED
      BY <1>3, <1>8, <2>3, <3>8 DEF Unfolded
  <2>4. QED
    BY <2>2, <2>3
<1>9. QED
  BY <1>7, <1>8

-----------------------------------------------------------------------------
(***************************************************************************)
(* The invariant holds.                                                    *)
(***************************************************************************)
LEMMA ResolveCat ==
    ASSUME NEW s \in Seq(Target), NEW t \in Seq(Target)
    PROVE  AllResolve(Cat(s, t)) <=> AllResolve(s) /\ AllResolve(t)
<1>1. AllResolve(s \o t) <=> AllResolve(s) /\ AllResolve(t)
  BY ResolveConcat
<1>2. QED
  BY <1>1 DEF Cat

\* A list resolves when its first server and the rest do.
LEMMA ResolveHeadTail ==
    ASSUME NEW jumps \in Seq(Target), jumps # <<>>
    PROVE  AllResolve(jumps) <=> Resolves(Head(jumps)) /\ AllResolve(Tail(jumps))
<1>1. /\ Head(jumps) = jumps[1] /\ 1 \in DOMAIN jumps /\ DOMAIN jumps = 1..Len(jumps)
      /\ DOMAIN Tail(jumps) = 1..(Len(jumps) - 1)
      /\ \A i \in 1..(Len(jumps) - 1) : Tail(jumps)[i] = jumps[i + 1]
      /\ Len(jumps) \in Nat
  OBVIOUS
<1>2. ASSUME AllResolve(jumps) PROVE Resolves(Head(jumps)) /\ AllResolve(Tail(jumps))
  <2>1. ASSUME NEW i \in 1..(Len(jumps) - 1) PROVE Resolves(Tail(jumps)[i])
    <3>1. i + 1 \in DOMAIN jumps
      BY <1>1
    <3>2. QED
      BY <1>1, <1>2, <3>1 DEF AllResolve
  <2>2. QED
    BY <1>1, <1>2, <2>1 DEF AllResolve
<1>3. ASSUME Resolves(Head(jumps)), AllResolve(Tail(jumps)) PROVE AllResolve(jumps)
  <2>1. ASSUME NEW i \in 1..Len(jumps), i # 1 PROVE Resolves(jumps[i])
    <3>1. i - 1 \in 1..(Len(jumps) - 1) /\ Tail(jumps)[i - 1] = jumps[i]
      BY <1>1, <2>1
    <3>2. QED
      BY <1>1, <1>3, <3>1 DEF AllResolve
  <2>2. QED
    BY <1>1, <1>3, <2>1 DEF AllResolve
<1>4. QED
  BY <1>2, <1>3

\* What a round pushes resolves when the list does.
LEMMA ResolvePushed ==
    ASSUME NEW jumps \in Seq(Target), jumps # <<>>, AllResolve(jumps)
    PROVE  Pushed(jumps) \in Seq(Target) /\ AllResolve(Pushed(jumps))
<1> DEFINE f == Head(jumps)
           rest == Tail(jumps)
           one == <<f>>
<1>1. f \in Target /\ rest \in Seq(Target) /\ Resolves(f) /\ AllResolve(rest)
  BY ResolveHeadTail
<1>2. one \in Seq(Target) /\ AllResolve(one)
  BY <1>1, OneIsSeq, ResolveOne
<1>3. Reverse(rest) \in Seq(Target) /\ AllResolve(Reverse(rest))
  BY <1>1, ReverseType, ResolveReverse
<1> DEFINE back == Reverse(rest)
<1>4. Pushed(jumps) = Cat(back, one)
  BY DEF Pushed, Cat
<1> HIDE DEF one, back
<1>5. back \in Seq(Target) /\ AllResolve(back)
  BY <1>3 DEF back
<1>6. Cat(back, one) \in Seq(Target) /\ AllResolve(Cat(back, one))
  BY <1>2, <1>5, CatType, ResolveCat
<1>7. QED
  BY <1>4, <1>6

LEMMA InitInv == Init => Inv
BY ConfsAssumption, QueriesAssumption DEF Init, Inv, TypeOK, LoopInv, Maybe

LEMMA QueryStep ==
    ASSUME Inv, Query
    PROVE  Inv'
<1> DEFINE jumps == conf[target.host].proxy_jump
           first == Expansion(conf, Head(jumps))
           tail  == Tail(jumps)
<1>1. /\ conf \in Confs /\ conf \in [Name -> Params] /\ target \in Target
      /\ bastions = <<>> /\ bastions' = <<>> /\ UNCHANGED inputs
  BY DEF Inv, TypeOK, LoopInv, Query
<1>2. jumps \in Seq(Target)
  BY <1>1 DEF Target, Params
<1>3. TypeOK'
  BY <1>1, <1>2 DEF Inv, TypeOK, Query, inputs
<1>4. CASE Resolves(target)
  <2>1. pc' = "loop" /\ proxy_jump' = jumps
    BY <1>4 DEF Query
  <2>2. Behind' = <<target>>
    <3>1. Behind' = Reverse(<<>>) \o <<target>>
      BY <1>1 DEF Behind, inputs
    <3>2. Reverse(<<>>) = <<>>
      BY DEF Reverse
    <3> DEFINE one == <<target>>
    <3>3. one \in Seq(Target)
      BY <1>1, OneIsSeq
    <3> HIDE DEF one
    <3>4. <<>> \o one = one
      BY <3>3, ConcatEmptySeq
    <3>5. QED
      BY <3>1, <3>2, <3>4 DEF one
  <2>3. Unfolded'
    <3>1. CASE jumps = <<>>
      <4>1. Expansion(conf, target) = <<target>>
        BY <1>1, <3>1, ExpansionAssumption
      <4>2. QED
        BY <1>1, <2>1, <2>2, <3>1, <4>1 DEF Unfolded, inputs
    <3>2. CASE jumps # <<>>
      <4>1. Head(jumps) \in Target /\ tail \in Seq(Target)
        BY <1>2, <3>2
      <4>2. first = NULL => Expansion(conf, target) = NULL
        BY <1>1, <3>2, ExpansionAssumption
      <4>3. ASSUME first # NULL
            PROVE  Expansion(conf, target) = first \o (tail \o <<target>>)
        <5> DEFINE head == first
                   one == <<target>>
        <5>1. head \in Seq(Target) /\ one \in Seq(Target)
          BY <1>1, <4>1, <4>3, OneIsSeq, ExpansionAssumption
        <5>2. Expansion(conf, target) = (head \o tail) \o one
          BY <1>1, <3>2, <4>3, ExpansionAssumption
        <5> HIDE DEF head, tail, one
        <5>3. Cat(Cat(head, tail), one) = Cat(head, Cat(tail, one))
          BY <4>1, <5>1, CatAssociative
        <5>4. Expansion(conf, target) = head \o (tail \o one)
          BY <5>2, <5>3 DEF Cat
        <5>5. QED
          BY <5>4 DEF head, one
      <4>4. QED
        BY <1>1, <2>1, <2>2, <3>2, <4>2, <4>3 DEF Unfolded, inputs
    <3>3. QED
      BY <3>1, <3>2
  <2>4. Resolves(target)' /\ AllResolve(bastions)'
    BY <1>1, <1>4 DEF Resolves, AllResolve, inputs
  <2>5. QED
    BY <1>1, <1>3, <2>1, <2>3, <2>4 DEF Inv, LoopInv, inputs
<1>5. CASE ~Resolves(target)
  <2>1. pc' = "error" /\ ~Resolves(target)'
    BY <1>1, <1>5 DEF Query, Resolves, inputs
  <2>2. QED
    BY <1>1, <1>3, <2>1 DEF Inv, LoopInv, inputs
<1>6. QED
  BY <1>4, <1>5

LEMMA ExpandStep ==
    ASSUME Inv, Expand
    PROVE  Inv'
<1>1. /\ conf \in Confs /\ conf \in [Name -> Params] /\ pc = "loop" /\ proxy_jump # <<>>
      /\ proxy_jump \in Seq(Target) /\ bastions \in Seq(Target)
      /\ Unfolded /\ Resolves(target) /\ AllResolve(bastions) /\ UNCHANGED inputs
  BY DEF Inv, TypeOK, LoopInv, Expand
<1>2. CASE AllResolve(proxy_jump)
  <2>1. /\ bastions' = bastions \o Pushed(proxy_jump)
        /\ proxy_jump' = conf[Followed(proxy_jump).host].proxy_jump
        /\ pc' = "loop"
    BY <1>1, <1>2 DEF Expand
  <2>2. Pushed(proxy_jump) \in Seq(Target) /\ AllResolve(Pushed(proxy_jump))
    BY <1>1, <1>2, ResolvePushed
  <2> DEFINE pushed == Pushed(proxy_jump)
  <2>3. bastions' = Cat(bastions, pushed)
    BY <2>1 DEF Cat
  <2>4. pushed \in Seq(Target) /\ AllResolve(pushed)
    BY <2>2
  <2> HIDE DEF pushed
  <2>5. bastions' \in Seq(Target) /\ AllResolve(bastions')
    BY <1>1, <2>3, <2>4, CatType, ResolveCat
  <2>6. Followed(proxy_jump) \in Target
    BY <1>1 DEF Followed
  <2>7. proxy_jump' \in Seq(Target)
    BY <1>1, <2>1, <2>6 DEF Target, Params
  <2>8. TypeOK'
    BY <1>1, <2>1, <2>5, <2>7 DEF Inv, TypeOK, inputs
  <2>9. Unfolded'
    BY <1>1, <2>1, Round DEF inputs
  <2>10. Resolves(target)' /\ AllResolve(bastions)'
    BY <1>1, <2>5 DEF Resolves, AllResolve, inputs
  <2>11. QED
    BY <1>1, <2>1, <2>8, <2>9, <2>10 DEF Inv, LoopInv, inputs
<1>3. CASE ~AllResolve(proxy_jump)
  <2>1. pc' = "error" /\ UNCHANGED <<bastions, proxy_jump>>
    BY <1>1, <1>3 DEF Expand
  <2>2. Unfolded' /\ ~AllResolve(proxy_jump)'
    BY <1>1, <1>3, <2>1 DEF Unfolded, Behind, AllResolve, Resolves, inputs
  <2>3. TypeOK'
    BY <1>1, <2>1 DEF Inv, TypeOK, inputs
  <2>4. QED
    BY <1>1, <2>1, <2>2, <2>3 DEF Inv, LoopInv, inputs
<1>4. QED
  BY <1>2, <1>3

LEMMA StutterStep ==
    ASSUME Inv, UNCHANGED <<inputs, proxy_jump, bastions>>, Return \/ UNCHANGED pc
    PROVE  Inv'
<1>1. UNCHANGED <<conf, target, whoami, proxy_jump, bastions>>
  BY DEF inputs
<1>2. TypeOK'
  BY <1>1 DEF Inv, TypeOK, Return
<1>3. /\ Unfolded' <=> Unfolded
      /\ Resolves(target)' <=> Resolves(target)
      /\ AllResolve(bastions)' <=> AllResolve(bastions)
      /\ AllResolve(proxy_jump)' <=> AllResolve(proxy_jump)
  BY <1>1 DEF Unfolded, Behind, AllResolve, Resolves
<1>4. QED
  BY <1>1, <1>2, <1>3 DEF Inv, LoopInv, Return

THEOREM Invariance == Spec => []Inv
<1>1. Inv /\ [Next]_vars => Inv'
  <2> SUFFICES ASSUME Inv, [Next]_vars PROVE Inv'
    OBVIOUS
  <2>1. CASE Query
    BY <2>1, QueryStep
  <2>2. CASE Expand
    BY <2>2, ExpandStep
  <2>3. CASE Return
    BY <2>3, StutterStep DEF Return
  <2>4. CASE UNCHANGED vars
    BY <2>4, StutterStep DEF vars, inputs
  <2>5. QED
    BY <2>1, <2>2, <2>3, <2>4 DEF Next
<1>2. QED
  BY InitInv, <1>1, PTL DEF Spec

-----------------------------------------------------------------------------
(***************************************************************************)
(* The properties of the run, for every configuration.                     *)
(***************************************************************************)
\* Every state of the resolution has its type.
THEOREM TypeCorrect == Spec => []TypeOK
<1>1. Inv => TypeOK
  BY DEF Inv
<1>2. QED
  BY Invariance, <1>1, PTL

\* What is returned is the route OpenSSH's rule gives; a configuration whose
\* first jumps form a cycle has none, and never becomes a chain.
THEOREM ReturnsTheExpansion == Spec => []RouteIsExpansion
<1>1. Inv => RouteIsExpansion
  <2> SUFFICES ASSUME Inv, pc = "done"
               PROVE  /\ Expansion(conf, target) # NULL
                      /\ C!Route(chain) = Expansion(conf, target)
    BY DEF RouteIsExpansion, Acyclic
  <2>1. Expansion(conf, target) = Behind
    BY DEF Inv, LoopInv, Unfolded
  <2>2. C!Route(chain) = Behind
    BY DEF C!Route, C!Reverse, Reverse, chain, Behind
  <2>3. Behind \in Seq(Target)
    <3>1. bastions \in Seq(Target) /\ target \in Target
      BY DEF Inv, TypeOK
    <3>2. Reverse(bastions) \in Seq(Target) /\ <<target>> \in Seq(Target)
      BY <3>1, ReverseType, OneIsSeq
    <3>3. QED
      BY <3>2, ConcatProperties DEF Behind
  <2>4. QED
    BY <2>1, <2>2, <2>3, NullAssumption
<1>2. QED
  BY Invariance, <1>1, PTL

\* The call fails exactly when a server of the route has no user.
THEOREM FailureIsUnresolved == Spec => []FailsIffUnresolved
<1>1. ASSUME Inv, Acyclic, pc = "done"
      PROVE  AllResolve(Expansion(conf, target))
  <2> DEFINE back == Reverse(bastions)
             one  == <<target>>
  <2>1. /\ Expansion(conf, target) = Behind /\ bastions \in Seq(Target) /\ target \in Target
        /\ Resolves(target) /\ AllResolve(bastions)
    BY <1>1 DEF Inv, TypeOK, LoopInv, Unfolded
  <2>2. back \in Seq(Target) /\ AllResolve(back) /\ one \in Seq(Target) /\ AllResolve(one)
    BY <2>1, ReverseType, ResolveReverse, ResolveOne, OneIsSeq
  <2>3. Expansion(conf, target) = Cat(back, one)
    BY <2>1 DEF Behind, Cat
  <2> HIDE DEF back, one
  <2>4. AllResolve(Cat(back, one))
    BY <2>2, ResolveCat
  <2>5. QED
    BY <2>3, <2>4
<1>2. ASSUME Inv, Acyclic, pc = "error"
      PROVE  ~AllResolve(Expansion(conf, target))
  <2> DEFINE route == Expansion(conf, target)
  <2>1. conf \in Confs /\ target \in Target /\ proxy_jump \in Seq(Target) /\ bastions \in Seq(Target)
    BY <1>2 DEF Inv, TypeOK, LoopInv
  <2>2. CASE ~Resolves(target)
    <3>1. route \in Seq(Target) /\ route # <<>> /\ route[Len(route)] = target
      BY <1>2, <2>1, ExpansionEnds DEF Acyclic
    <3>2. Len(route) \in DOMAIN route
      BY <3>1
    <3>3. QED
      BY <2>2, <3>1, <3>2 DEF AllResolve
  <2>3. CASE proxy_jump # <<>> /\ Unfolded /\ ~AllResolve(proxy_jump)
    <3> SUFFICES ASSUME AllResolve(route) PROVE FALSE
      OBVIOUS
    <3> DEFINE f     == Head(proxy_jump)
               rest  == Tail(proxy_jump)
               first == Expansion(conf, Head(proxy_jump))
               after == Behind
    <3>1. f \in Target /\ rest \in Seq(Target)
      BY <2>1, <2>3
    <3>2. first # NULL /\ route = first \o (rest \o after)
      BY <1>2, <2>3 DEF Acyclic, Unfolded
    <3>3. first \in Seq(Target) /\ first # <<>> /\ first[Len(first)] = f
      BY <2>1, <3>1, <3>2, ExpansionEnds
    <3>4. after \in Seq(Target)
      <4>1. Reverse(bastions) \in Seq(Target) /\ <<target>> \in Seq(Target)
        BY <2>1, ReverseType, OneIsSeq
      <4>2. QED
        BY <4>1, ConcatProperties DEF Behind
    <3>5. route = Cat(first, Cat(rest, after))
      BY <3>2 DEF Cat
    <3>6. AllResolve(first) /\ AllResolve(rest)
      <4> HIDE DEF first, rest, after, route
      <4>1. Cat(rest, after) \in Seq(Target)
        BY <3>1, <3>4, CatType
      <4>2. AllResolve(Cat(first, Cat(rest, after)))
        BY <3>5
      <4>3. AllResolve(first) /\ AllResolve(Cat(rest, after))
        BY <3>3, <4>1, <4>2, ResolveCat
      <4>4. QED
        BY <3>1, <3>4, <4>3, ResolveCat
    <3>7. Resolves(f)
      <4> HIDE DEF first, f
      <4>1. Len(first) \in DOMAIN first
        BY <3>3
      <4>2. QED
        BY <3>3, <3>6, <4>1 DEF AllResolve
    <3>8. AllResolve(proxy_jump)
      BY <2>1, <2>3, <3>6, <3>7, ResolveHeadTail
    <3>9. QED
      BY <2>3, <3>8
  <2>4. QED
    BY <1>2, <2>2, <2>3 DEF Inv, LoopInv
<1>3. Inv => FailsIffUnresolved
  BY <1>1, <1>2 DEF FailsIffUnresolved
<1>4. QED
  BY Invariance, <1>3, PTL

\* The iterator over the returned chain leads from the first server to the
\* target with no gap.
THEOREM ReturnedChainLinks == Spec => []IterLinks
<1>1. Inv => IterLinks
  <2> SUFFICES ASSUME Inv PROVE IterLinks
    OBVIOUS
  <2> DEFINE items == C!Items(chain)
             b == bastions
             n == Len(b)
  <2>1. chain.bastions = b /\ chain.target = target /\ b \in Seq(Target)
    BY DEF Inv, TypeOK, chain
  <2>2. n \in Nat /\ (b = <<>> <=> n = 0)
    BY <2>1
  <2>3. items = [k \in 1..n |-> IF k < n THEN [from |-> b[n - k + 1], to |-> b[n - k]]
                                         ELSE [from |-> b[1], to |-> target]]
    BY <2>1 DEF C!Items
  <2>4. C!First(chain) = IF b = <<>> THEN target ELSE b[n]
    BY <2>1 DEF C!First
  <2> HIDE DEF items, n
  <2>5. Len(items) = n /\ (items = <<>> <=> n = 0)
    BY <2>2, <2>3
  <2>6. n = 0 => C!First(chain) = target
    BY <2>2, <2>4
  <2>7. \A k \in 1..n : k < n => items[k].from = b[n - k + 1] /\ items[k].to = b[n - k]
    BY <2>3
  <2>8. n # 0 => items[1].from = C!First(chain) /\ items[Len(items)].to = target
    <3> SUFFICES ASSUME n # 0
                 PROVE  items[1].from = C!First(chain) /\ items[n].to = target
      BY <2>5
    <3>1. n \in 1..n /\ 1 \in 1..n /\ C!First(chain) = b[n]
      BY <2>2, <2>4
    <3>2. items[n].from = b[1] /\ items[n].to = target
      BY <2>3, <3>1
    <3>3. CASE n = 1
      BY <3>1, <3>2, <3>3
    <3>4. CASE n # 1
      <4>1. 1 < n /\ n - 1 + 1 = n
        BY <2>2, <3>1, <3>4
      <4>2. items[1].from = b[n]
        BY <2>7, <3>1, <4>1
      <4>3. QED
        BY <3>1, <3>2, <4>2
    <3>5. QED
      BY <3>3, <3>4
  <2>9. ASSUME NEW k \in 2..Len(items)
        PROVE  items[k].from = items[k - 1].to
    <3>1. k \in 1..n /\ k - 1 \in 1..n /\ k - 1 < n /\ n - (k - 1) = n - k + 1
      BY <2>2, <2>5
    <3>2. items[k - 1].to = b[n - k + 1]
      BY <2>7, <3>1
    <3>3. CASE k < n
      BY <2>7, <3>1, <3>2, <3>3
    <3>4. CASE k = n
      <4>1. n - k + 1 = 1
        BY <2>2, <3>4
      <4>2. items[k].from = b[1]
        BY <2>3, <3>1, <3>4
      <4>3. QED
        BY <3>2, <4>1, <4>2
    <3>5. QED
      BY <2>2, <3>1, <3>3, <3>4
  <2>10. QED
    BY <2>5, <2>6, <2>8, <2>9 DEF IterLinks, items, n
<1>2. QED
  BY Invariance, <1>1, PTL
=============================================================================
