------------------------- MODULE AuthMethodsProofs -------------------------
(***************************************************************************)
(* What AuthMethods::from_config makes of any settings of a host, for      *)
(* lists of identities of any length.  A plan has three parts: "none", the *)
(* methods of the agent and those of the local keys; each of the last two  *)
(* is either one method or follows the list of identities, because a       *)
(* filter keeps the order of what it keeps.                                *)
(***************************************************************************)
EXTENDS AuthMethods, SequenceTheorems, WellFoundedInduction, TLAPS

-----------------------------------------------------------------------------
(***************************************************************************)
(* The filter.  Its recursive function exists, and each of its values is   *)
(* picked from the sequence at increasing places; both are shown by the    *)
(* least counterexample.                                                   *)
(***************************************************************************)

\* A non-empty set of naturals has a least element.
LEMMA Least ==
    ASSUME NEW T, T \subseteq Nat, T # {}
    PROVE  \E x \in T : \A y \in T : ~(y < x)
<1> DEFINE R == {ss \in Nat \X Nat : ss[1] < ss[2]}
<1>1. R = OpToRel(<, Nat)
  BY DEF OpToRel
<1>2. IsWellFoundedOn(R, Nat)
  BY <1>1, NatLessThanWellFounded
<1> HIDE DEF R
<1>3. \E x \in T : \A y \in T : ~(<<y, x>> \in R)
  BY <1>2, WFMin
<1>4. QED
  BY <1>3 DEF R

\* The equation of the function inside Filter, up to place N.
IsKept(f, s, K, N) ==
    f = [n \in 0..N |->
            IF n = 0 THEN <<>>
            ELSE IF s[n] \in K THEN Append(f[n - 1], s[n]) ELSE f[n - 1]]

LEMMA FilterIsKept ==
    ASSUME NEW s, NEW K
    PROVE  Filter(s, K) = (CHOOSE f : IsKept(f, s, K, Len(s)))[Len(s)]
BY DEF Filter, IsKept

LEMMA KeptExists ==
    ASSUME NEW S, NEW s \in Seq(S), NEW K, NEW N \in 0..Len(s)
    PROVE  \E f : IsKept(f, s, K, N)
<1> DEFINE Bad == {n \in Nat : n <= Len(s) /\ ~ \E f : IsKept(f, s, K, n)}
<1>1. Len(s) \in Nat
  OBVIOUS
<1>2. SUFFICES ASSUME Bad # {} PROVE FALSE
  BY <1>1
<1>3. PICK n \in Bad : \A i \in Bad : ~ (i < n)
  <2>1. Bad \subseteq Nat
    OBVIOUS
  <2> HIDE DEF Bad
  <2>2. QED
    BY <1>2, <2>1, Least
<1>4. n # 0
  <2> SUFFICES ASSUME n = 0 PROVE FALSE
    OBVIOUS
  <2> DEFINE f == [k \in 0..0 |-> <<>>]
  <2>1. IsKept(f, s, K, 0)
    <3>1. \A k \in 0..0 : k = 0
      OBVIOUS
    <3>2. QED
      BY <3>1 DEF IsKept
  <2>2. QED
    BY <2>1
<1>5. PICK g : IsKept(g, s, K, n - 1)
  BY <1>3, <1>4
<1> DEFINE f == [k \in 0..n |->
                    IF k < n THEN g[k]
                    ELSE IF s[n] \in K THEN Append(g[n - 1], s[n]) ELSE g[n - 1]]
<1>6. n \in Nat /\ n - 1 \in Nat
  BY <1>4
<1>7. \A k \in 0..n :
          f[k] = IF k = 0 THEN <<>>
                 ELSE IF s[k] \in K THEN Append(f[k - 1], s[k]) ELSE f[k - 1]
  <2> SUFFICES ASSUME NEW k \in 0..n
               PROVE  f[k] = IF k = 0 THEN <<>>
                             ELSE IF s[k] \in K THEN Append(f[k - 1], s[k]) ELSE f[k - 1]
    OBVIOUS
  <2>1. CASE k = n
    <3>1. f[k] = IF s[n] \in K THEN Append(g[n - 1], s[n]) ELSE g[n - 1]
      BY <1>6, <2>1
    <3>2. f[k - 1] = g[n - 1]
      BY <1>6, <2>1
    <3> HIDE DEF f
    <3>3. QED
      BY <1>4, <2>1, <3>1, <3>2
  <2>2. CASE k < n
    <3>1. f[k] = g[k] /\ (k # 0 => f[k - 1] = g[k - 1])
      BY <1>6, <2>2
    <3>2. g[k] = IF k = 0 THEN <<>>
                 ELSE IF s[k] \in K THEN Append(g[k - 1], s[k]) ELSE g[k - 1]
      <4>1. k \in 0..(n - 1)
        BY <1>6, <2>2
      <4>2. QED
        BY <1>5, <4>1 DEF IsKept
    <3> HIDE DEF f
    <3>3. QED
      BY <3>1, <3>2
  <2>3. QED
    BY <1>6, <2>1, <2>2
<1>8. f = [k \in 0..n |-> f[k]]
  OBVIOUS
<1>9. IsKept(f, s, K, n)
  <2> HIDE DEF f
  <2>1. QED
    BY <1>7, <1>8 DEF IsKept
<1>10. QED
  BY <1>3, <1>9

\* pos names the places of the first n members of s that q takes from K, all of
\* them and in order.
PlacesOf(pos, q, s, K, n) ==
    /\ pos \in [1..Len(q) -> 1..n]
    /\ \A i \in 1..Len(q) : q[i] = s[pos[i]] /\ s[pos[i]] \in K
    /\ \A i, j \in 1..Len(q) : i < j => pos[i] < pos[j]
    /\ \A k \in 1..n : s[k] \in K => \E i \in 1..Len(q) : pos[i] = k

LEMMA PlacesGrow ==
    ASSUME NEW S, NEW s \in Seq(S), NEW K, NEW n \in 1..Len(s), s[n] \in K,
           NEW q \in Seq(S), NEW pos, PlacesOf(pos, q, s, K, n - 1)
    PROVE  \E p : PlacesOf(p, Append(q, s[n]), s, K, n)
<1> DEFINE r == Append(q, s[n])
           N == Len(q)
           p == [i \in 1..(N + 1) |-> IF i <= N THEN pos[i] ELSE n]
<1>1. N \in Nat /\ n \in Nat /\ n - 1 \in Nat /\ s[n] \in S
  OBVIOUS
<1>2. Len(r) = N + 1 /\ r[N + 1] = s[n] /\ \A i \in 1..N : r[i] = q[i]
  BY <1>1
<1>3. /\ \A i \in 1..N : pos[i] \in 1..(n - 1)
      /\ \A i \in 1..N : q[i] = s[pos[i]] /\ s[pos[i]] \in K
      /\ \A i, j \in 1..N : i < j => pos[i] < pos[j]
      /\ \A k \in 1..(n - 1) : s[k] \in K => \E i \in 1..N : pos[i] = k
  BY DEF PlacesOf
<1>4. p[N + 1] = n /\ \A i \in 1..N : p[i] = pos[i]
  BY <1>1
<1>5. p \in [1..(N + 1) -> 1..n]
  BY <1>1, <1>3
<1> HIDE DEF p, r, N
<1>6. \A i \in 1..(N + 1) : i \in 1..N \/ i = N + 1
  BY <1>1
<1>7. \A i \in 1..(N + 1) : r[i] = s[p[i]] /\ s[p[i]] \in K
  BY <1>2, <1>3, <1>4, <1>6
<1>8. \A i, j \in 1..(N + 1) : i < j => p[i] < p[j]
  <2> SUFFICES ASSUME NEW i \in 1..(N + 1), NEW j \in 1..(N + 1), i < j PROVE p[i] < p[j]
    OBVIOUS
  <2>1. i \in 1..N /\ p[i] = pos[i] /\ pos[i] \in 1..(n - 1)
    BY <1>1, <1>3, <1>4
  <2>2. CASE j = N + 1
    BY <1>1, <1>4, <2>1, <2>2
  <2>3. CASE j \in 1..N
    BY <1>3, <1>4, <2>1, <2>3
  <2>4. QED
    BY <1>6, <2>2, <2>3
<1>9. \A k \in 1..n : s[k] \in K => \E i \in 1..(N + 1) : p[i] = k
  <2> SUFFICES ASSUME NEW k \in 1..n, s[k] \in K PROVE \E i \in 1..(N + 1) : p[i] = k
    OBVIOUS
  <2>1. CASE k = n
    <3>1. N + 1 \in 1..(N + 1)
      BY <1>1
    <3>2. QED
      BY <1>4, <2>1, <3>1
  <2>2. CASE k # n
    <3>1. k \in 1..(n - 1)
      BY <1>1, <2>2
    <3>2. PICK i \in 1..N : pos[i] = k
      BY <1>3, <3>1
    <3>3. i \in 1..(N + 1)
      BY <1>1
    <3>4. QED
      BY <1>4, <3>2, <3>3
  <2>3. QED
    BY <2>1, <2>2
<1>10. PlacesOf(p, r, s, K, n)
  BY <1>2, <1>5, <1>7, <1>8, <1>9 DEF PlacesOf
<1>11. QED
  BY <1>10 DEF r

LEMMA PlacesStay ==
    ASSUME NEW S, NEW s \in Seq(S), NEW K, NEW n \in 1..Len(s), s[n] \notin K,
           NEW q \in Seq(S), NEW pos, PlacesOf(pos, q, s, K, n - 1)
    PROVE  PlacesOf(pos, q, s, K, n)
<1>1. Len(q) \in Nat /\ n \in Nat /\ 1..(n - 1) \subseteq 1..n
  OBVIOUS
<1>2. pos \in [1..Len(q) -> 1..n]
  BY <1>1 DEF PlacesOf
<1>3. \A k \in 1..n : s[k] \in K => k \in 1..(n - 1)
  BY <1>1
<1>4. QED
  BY <1>2, <1>3 DEF PlacesOf

\* Every value of the function inside Filter.
LEMMA KeptPlaces ==
    ASSUME NEW S, NEW s \in Seq(S), NEW K, NEW f, IsKept(f, s, K, Len(s)), NEW N \in 0..Len(s)
    PROVE  f[N] \in Seq(S) /\ \E pos : PlacesOf(pos, f[N], s, K, N)
<1> DEFINE Good(n) == f[n] \in Seq(S) /\ \E pos : PlacesOf(pos, f[n], s, K, n)
           Bad == {n \in Nat : n <= Len(s) /\ ~ Good(n)}
<1>1. Len(s) \in Nat
  OBVIOUS
<1>2. \A n \in 0..Len(s) :
          f[n] = IF n = 0 THEN <<>>
                 ELSE IF s[n] \in K THEN Append(f[n - 1], s[n]) ELSE f[n - 1]
  <2>1. f = [n \in 0..Len(s) |->
                IF n = 0 THEN <<>>
                ELSE IF s[n] \in K THEN Append(f[n - 1], s[n]) ELSE f[n - 1]]
    BY DEF IsKept
  <2>2. QED
    BY <2>1
<1>3. SUFFICES ASSUME Bad # {} PROVE FALSE
  BY <1>1
<1>4. PICK n \in Bad : \A i \in Bad : ~ (i < n)
  <2>1. Bad \subseteq Nat
    OBVIOUS
  <2> HIDE DEF Bad
  <2>2. QED
    BY <1>3, <2>1, Least
<1>5. n # 0
  <2> SUFFICES ASSUME n = 0 PROVE FALSE
    OBVIOUS
  <2>1. f[0] = <<>>
    BY <1>1, <1>2
  <2>2. f[0] \in Seq(S) /\ Len(f[0]) = 0
    BY <2>1
  <2>3. 1..0 = {}
    OBVIOUS
  <2>4. PlacesOf([i \in 1..0 |-> 0], f[0], s, K, 0)
    BY <2>2, <2>3 DEF PlacesOf
  <2>5. Good(0)
    BY <2>2, <2>4
  <2>6. QED
    BY <1>4, <2>5
<1>6. n \in 1..Len(s) /\ n - 1 \in 0..Len(s) /\ ~ Good(n)
  BY <1>1, <1>4, <1>5
<1>7. f[n - 1] \in Seq(S) /\ \E pos : PlacesOf(pos, f[n - 1], s, K, n - 1)
  <2>1. n - 1 \notin Bad
    <3>1. n - 1 < n
      BY <1>6
    <3>2. QED
      BY <1>4, <3>1, Zenon
  <2>2. n - 1 \in Nat /\ n - 1 <= Len(s)
    BY <1>1, <1>6
  <2>3. Good(n - 1)
    <3> HIDE DEF Good
    <3>1. QED
      BY <2>1, <2>2
  <2>4. QED
    BY <2>3, Zenon
<1>8. PICK pos : PlacesOf(pos, f[n - 1], s, K, n - 1)
  BY <1>7
<1>9. f[n] = IF s[n] \in K THEN Append(f[n - 1], s[n]) ELSE f[n - 1]
  BY <1>2, <1>5, <1>6
<1>10. CASE s[n] \in K
  <2>1. f[n] \in Seq(S)
    <3>1. s[n] \in S
      BY <1>6
    <3>2. QED
      BY <1>7, <1>9, <1>10, <3>1
  <2>2. \E p : PlacesOf(p, Append(f[n - 1], s[n]), s, K, n)
    BY <1>6, <1>7, <1>8, <1>10, PlacesGrow
  <2>3. QED
    BY <1>6, <1>9, <1>10, <2>1, <2>2
<1>11. CASE s[n] \notin K
  <2>1. PlacesOf(pos, f[n - 1], s, K, n)
    BY <1>6, <1>7, <1>8, <1>11, PlacesStay
  <2>2. QED
    BY <1>6, <1>7, <1>9, <1>11, <2>1
<1>12. QED
  BY <1>10, <1>11

\* A filter takes the members of s that are in K, each once and in their order.
THEOREM FilterPlaces ==
    ASSUME NEW S, NEW s \in Seq(S), NEW K
    PROVE  Filter(s, K) \in Seq(S) /\ \E pos : PlacesOf(pos, Filter(s, K), s, K, Len(s))
<1> DEFINE f == CHOOSE g : IsKept(g, s, K, Len(s))
<1>1. Len(s) \in 0..Len(s)
  OBVIOUS
<1>2. IsKept(f, s, K, Len(s))
  BY <1>1, KeptExists
<1>3. Filter(s, K) = f[Len(s)]
  BY FilterIsKept
<1> HIDE DEF f
<1>4. QED
  BY <1>1, <1>2, <1>3, KeptPlaces

-----------------------------------------------------------------------------
(***************************************************************************)
(* The two lists of methods made out of the identities.                    *)
(***************************************************************************)

\* The methods of q, made out of the identities at increasing places.
Follows(q, ids) ==
    \E pos \in [1..Len(q) -> 1..Len(ids)] :
        /\ \A i \in 1..Len(q) : q[i].key = ids[pos[i]]
        /\ \A i, j \in 1..Len(q) : i < j => pos[i] < pos[j]

\* The methods of one kind the settings can lead to.
MethodsBy(by, a) ==
    {method \in Methods :
        /\ method.by = by /\ WellFormed(method)
        /\ method.cert \in {a.cert, NULL} /\ method.agent \in {a.agent, NULL}}

LEMMA AuthParts ==
    ASSUME NEW a \in Auth
    PROVE  /\ Identities(a) \in Seq(File) /\ a.cert \in Maybe(File) /\ a.agent \in Maybe(Sock)
           /\ a.identities_only \in BOOLEAN /\ a.includes_none \in BOOLEAN
<1>1. a.identities \in Maybe(Seq(File)) /\ <<>> \in Seq(File)
  BY DEF Auth
<1>2. Identities(a) \in Seq(File)
  BY <1>1 DEF Identities, Maybe
<1>3. QED
  BY <1>2 DEF Auth

LEMMA LocalMethodIs ==
    ASSUME NEW a \in Auth, NEW key \in File
    PROVE  /\ LocalMethod(key, a.cert) \in MethodsBy("Local", a)
           /\ LocalMethod(key, a.cert).key = key /\ LocalMethod(key, a.cert).kind # "Full"
<1> DEFINE cert == a.cert
<1>1. cert \in Maybe(File)
  BY AuthParts
<1> HIDE DEF cert
<1>2. LocalMethod(key, cert) =
          [by |-> "Local", kind |-> IF cert = NULL THEN "LocalPriv" ELSE "LocalCert",
           agent |-> NULL, cert |-> cert, key |-> key]
  BY DEF LocalMethod, Method
<1>3. LocalMethod(key, cert) \in Methods
  BY <1>1, <1>2 DEF Methods, Maybe
<1>4. WellFormed(LocalMethod(key, cert))
  BY <1>2, <1>3 DEF WellFormed
<1>5. QED
  BY <1>2, <1>3, <1>4 DEF MethodsBy, cert

LEMMA AgentMethodIs ==
    ASSUME NEW a \in Auth, a.agent \in Sock, NEW key \in File
    PROVE  /\ AgentMethod(a.agent, key, a.cert) \in MethodsBy("Agent", a)
           /\ AgentMethod(a.agent, key, a.cert).key = key
           /\ AgentMethod(a.agent, key, a.cert).kind # "Full"
<1> DEFINE agent == a.agent
           cert == a.cert
           kind == AgentMethod(agent, key, cert).kind
<1>1. cert \in Maybe(File) /\ agent \in Sock
  BY AuthParts
<1> HIDE DEF cert, agent
<1>2. AgentMethod(agent, key, cert) =
          [by |-> "Agent", kind |-> kind, agent |-> agent, cert |-> cert, key |-> key]
  BY DEF AgentMethod, Method
<1>3. kind \in {"LocalPriv", "LocalPub", "LocalCertPriv", "LocalCertPub"}
  BY DEF AgentMethod, Method
<1> HIDE DEF kind
<1>4. AgentMethod(agent, key, cert) \in Methods
  BY <1>1, <1>2, <1>3 DEF Methods, Maybe
<1>5. WellFormed(AgentMethod(agent, key, cert))
  BY <1>1, <1>2, <1>3, <1>4 DEF WellFormed
<1>6. QED
  BY <1>2, <1>3, <1>4, <1>5 DEF MethodsBy, cert, agent

\* The methods of the local keys: one for every identity that looks private.
LEMMA LocalMethodsAre ==
    ASSUME NEW a \in Auth
    PROVE  /\ LocalMethods(a) \in Seq(MethodsBy("Local", a)) /\ Follows(LocalMethods(a), Identities(a))
           /\ \A k \in 1..Len(Identities(a)) :
                  LooksPrivate(Identities(a)[k]) =>
                      \E i \in 1..Len(LocalMethods(a)) : LocalMethods(a)[i].key = Identities(a)[k]
<1> DEFINE ids == Identities(a)
           keys == Filter(ids, PrivateFiles)
           q == LocalMethods(a)
<1>1. ids \in Seq(File) /\ a.cert \in Maybe(File)
  BY AuthParts
<1>2. keys \in Seq(File) /\ \E pos : PlacesOf(pos, keys, ids, PrivateFiles, Len(ids))
  BY <1>1, FilterPlaces
<1>3. PICK pos : PlacesOf(pos, keys, ids, PrivateFiles, Len(ids))
  BY <1>2
<1>4. q = [i \in DOMAIN keys |-> LocalMethod(keys[i], a.cert)]
  BY DEF LocalMethods
<1>5. \A k \in 1..Len(ids) : LooksPrivate(ids[k]) => ids[k] \in PrivateFiles
  BY <1>1 DEF PrivateFiles
<1> HIDE DEF keys, ids, q
<1>6. DOMAIN keys = 1..Len(keys) /\ Len(keys) \in Nat /\ \A i \in 1..Len(keys) : keys[i] \in File
  BY <1>2
<1>7. \A i \in 1..Len(keys) :
          q[i] = LocalMethod(keys[i], a.cert) /\ q[i] \in MethodsBy("Local", a) /\ q[i].key = keys[i]
  BY <1>1, <1>4, <1>6, LocalMethodIs
<1>8. q \in Seq(MethodsBy("Local", a)) /\ Len(q) = Len(keys)
  BY <1>4, <1>6, <1>7
<1>9. Follows(q, ids)
  BY <1>3, <1>7, <1>8 DEF Follows, PlacesOf
<1>10. \A k \in 1..Len(ids) : LooksPrivate(ids[k]) => \E i \in 1..Len(q) : q[i].key = ids[k]
  <2> SUFFICES ASSUME NEW k \in 1..Len(ids), LooksPrivate(ids[k])
               PROVE  \E i \in 1..Len(q) : q[i].key = ids[k]
    OBVIOUS
  <2>1. PICK i \in 1..Len(keys) : pos[i] = k
    BY <1>3, <1>5 DEF PlacesOf
  <2>2. q[i].key = ids[k]
    BY <1>3, <1>7, <2>1 DEF PlacesOf
  <2>3. QED
    BY <1>8, <2>2
<1>11. QED
  BY <1>8, <1>9, <1>10 DEF ids, q

\* The methods of the agent: one for every identity that is usable.
LEMMA AgentMethodsAre ==
    ASSUME NEW a \in Auth, a.agent \in Sock
    PROVE  /\ AgentMethods(a) \in Seq(MethodsBy("Agent", a)) /\ Follows(AgentMethods(a), Identities(a))
           /\ \A i \in 1..Len(AgentMethods(a)) : AgentMethods(a)[i].kind # "Full"
           /\ \A k \in 1..Len(Identities(a)) :
                  LooksUsable(Identities(a)[k]) =>
                      \E i \in 1..Len(AgentMethods(a)) : AgentMethods(a)[i].key = Identities(a)[k]
<1> DEFINE ids == Identities(a)
           keys == Filter(ids, UsableFiles)
           q == AgentMethods(a)
<1>1. ids \in Seq(File) /\ a.cert \in Maybe(File)
  BY AuthParts
<1>2. keys \in Seq(File) /\ \E pos : PlacesOf(pos, keys, ids, UsableFiles, Len(ids))
  BY <1>1, FilterPlaces
<1>3. PICK pos : PlacesOf(pos, keys, ids, UsableFiles, Len(ids))
  BY <1>2
<1>4. q = [i \in DOMAIN keys |-> AgentMethod(a.agent, keys[i], a.cert)]
  BY DEF AgentMethods
<1>5. \A k \in 1..Len(ids) : LooksUsable(ids[k]) => ids[k] \in UsableFiles
  BY <1>1 DEF UsableFiles
<1> HIDE DEF keys, ids, q
<1>6. DOMAIN keys = 1..Len(keys) /\ Len(keys) \in Nat /\ \A i \in 1..Len(keys) : keys[i] \in File
  BY <1>2
<1>7. \A i \in 1..Len(keys) :
          /\ q[i] = AgentMethod(a.agent, keys[i], a.cert) /\ q[i] \in MethodsBy("Agent", a)
          /\ q[i].key = keys[i] /\ q[i].kind # "Full"
  BY <1>1, <1>4, <1>6, AgentMethodIs
<1>8. q \in Seq(MethodsBy("Agent", a)) /\ Len(q) = Len(keys)
  BY <1>4, <1>6, <1>7
<1>9. Follows(q, ids)
  BY <1>3, <1>7, <1>8 DEF Follows, PlacesOf
<1>10. \A k \in 1..Len(ids) : LooksUsable(ids[k]) => \E i \in 1..Len(q) : q[i].key = ids[k]
  <2> SUFFICES ASSUME NEW k \in 1..Len(ids), LooksUsable(ids[k])
               PROVE  \E i \in 1..Len(q) : q[i].key = ids[k]
    OBVIOUS
  <2>1. PICK i \in 1..Len(keys) : pos[i] = k
    BY <1>3, <1>5 DEF PlacesOf
  <2>2. q[i].key = ids[k]
    BY <1>3, <1>7, <2>1 DEF PlacesOf
  <2>3. QED
    BY <1>8, <2>2
<1>11. QED
  BY <1>7, <1>8, <1>9, <1>10 DEF ids, q

\* Without its first method a list of methods still follows the identities.
LEMMA TailFollows ==
    ASSUME NEW S, NEW q \in Seq(S), q # <<>>, NEW ids, Follows(q, ids)
    PROVE  Tail(q) \in Seq(S) /\ Follows(Tail(q), ids)
<1>1. PICK pos \in [1..Len(q) -> 1..Len(ids)] :
          /\ \A i \in 1..Len(q) : q[i].key = ids[pos[i]]
          /\ \A i, j \in 1..Len(q) : i < j => pos[i] < pos[j]
  BY DEF Follows
<1>2. /\ Tail(q) \in Seq(S) /\ Len(Tail(q)) = Len(q) - 1 /\ Len(q) \in Nat
      /\ \A i \in 1..Len(Tail(q)) : Tail(q)[i] = q[i + 1]
  OBVIOUS
<1> DEFINE r == Tail(q)
           p == [i \in 1..Len(r) |-> pos[i + 1]]
<1> HIDE DEF r
<1>3. \A i \in 1..Len(r) : i + 1 \in 1..Len(q) /\ r[i] = q[i + 1]
  BY <1>2 DEF r
<1>4. p \in [1..Len(r) -> 1..Len(ids)] /\ \A i \in 1..Len(r) : p[i] = pos[i + 1]
  BY <1>3
<1> HIDE DEF p
<1>5. \A i \in 1..Len(r) : r[i].key = ids[p[i]]
  BY <1>1, <1>3, <1>4
<1>6. \A i, j \in 1..Len(r) : i < j => p[i] < p[j]
  <2> SUFFICES ASSUME NEW i \in 1..Len(r), NEW j \in 1..Len(r), i < j PROVE p[i] < p[j]
    OBVIOUS
  <2>1. i + 1 \in 1..Len(q) /\ j + 1 \in 1..Len(q) /\ i + 1 < j + 1
    BY <1>3
  <2>2. QED
    BY <1>1, <1>4, <2>1
<1>7. Follows(r, ids)
  BY <1>4, <1>5, <1>6 DEF Follows
<1>8. QED
  BY <1>2, <1>7 DEF r

-----------------------------------------------------------------------------
(***************************************************************************)
(* Lists put one after the other, which is how a plan is made.             *)
(***************************************************************************)
Cat(p, q) == p \o q

\* r is p and then q.
Joins(r, p, q, S) ==
    /\ r \in Seq(S) /\ Len(r) = Len(p) + Len(q)
    /\ \A i \in 1..Len(p) : r[i] = p[i]
    /\ \A i \in 1..Len(q) : r[Len(p) + i] = q[i]

LEMMA CatJoins ==
    ASSUME NEW S, NEW p \in Seq(S), NEW q \in Seq(S)
    PROVE  Joins(Cat(p, q), p, q, S)
BY DEF Cat, Joins

LEMMA CatNothing ==
    ASSUME NEW S, NEW q \in Seq(S)
    PROVE  Cat(<<>>, q) = q /\ Cat(q, <<>>) = q
<1>1. Cat(<<>>, q) = q
  BY DEF Cat
<1>2. Cat(q, <<>>) = q
  BY DEF Cat
<1>3. QED
  BY <1>1, <1>2

LEMMA CatIsNothing ==
    ASSUME NEW S, NEW p \in Seq(S), NEW q \in Seq(S), Cat(p, q) = <<>>
    PROVE  p = <<>> /\ q = <<>>
<1> DEFINE none == <<>>
<1>1. Len(none) = 0
  OBVIOUS
<1> HIDE DEF none
<1>2. Len(Cat(p, q)) = 0
  BY <1>1 DEF none
<1>j. Joins(Cat(p, q), p, q, S)
  BY CatJoins
<1>3. Len(p) \in Nat /\ Len(q) \in Nat /\ Len(p) + Len(q) = 0
  BY <1>2, <1>j DEF Joins
<1>4. Len(p) = 0 /\ Len(q) = 0
  BY <1>3
<1>5. QED
  BY <1>4

LEMMA TailOfCat ==
    ASSUME NEW S, NEW x \in S, NEW q \in Seq(S)
    PROVE  Tail(Cat(<<x>>, q)) = q
<1> DEFINE one == <<x>>
           r == Cat(one, q)
           t == Tail(r)
<1>1. one \in Seq(S) /\ Len(one) = 1
  OBVIOUS
<1> HIDE DEF one
<1>j. Joins(r, one, q, S)
  BY <1>1, CatJoins
<1> HIDE DEF r
<1>2. r \in Seq(S) /\ Len(r) = 1 + Len(q) /\ \A i \in 1..Len(q) : r[1 + i] = q[i]
  BY <1>1, <1>j DEF Joins
<1>3. Len(q) \in Nat /\ r # <<>>
  BY <1>2
<1>4. t \in Seq(S) /\ Len(t) = Len(q) /\ \A i \in 1..Len(t) : t[i] = r[i + 1]
  BY <1>2, <1>3
<1> HIDE DEF t
<1>5. \A i \in 1..Len(q) : t[i] = q[i]
  BY <1>2, <1>4
<1>6. t = q
  BY <1>4, <1>5, SeqEqual
<1>7. QED
  BY <1>6 DEF t, r, one

\* q is l, then g, then c: every place of q is a place of one of them.
JoinsThree(q, l, g, c, S) ==
    /\ q \in Seq(S) /\ Len(q) = Len(l) + Len(g) + Len(c)
    /\ \A i \in 1..Len(l) : q[i] = l[i]
    /\ \A i \in 1..Len(g) : q[Len(l) + i] = g[i]
    /\ \A i \in 1..Len(c) : q[Len(l) + Len(g) + i] = c[i]
    /\ \A i \in 1..Len(q) :
           \/ i \in 1..Len(l)
           \/ \E j \in 1..Len(g) : i = Len(l) + j
           \/ \E j \in 1..Len(c) : i = Len(l) + Len(g) + j

LEMMA ThreePlaces ==
    ASSUME NEW S, NEW l \in Seq(S), NEW g \in Seq(S), NEW c \in Seq(S),
           NEW q, q = Cat(Cat(l, g), c)
    PROVE  JoinsThree(q, l, g, c, S)
<1> DEFINE h == Cat(l, g)
<1>1. /\ h \in Seq(S) /\ Len(h) = Len(l) + Len(g)
      /\ \A i \in 1..Len(l) : h[i] = l[i]
      /\ \A i \in 1..Len(g) : h[Len(l) + i] = g[i]
  <2>1. Joins(h, l, g, S)
    BY CatJoins
  <2> HIDE DEF h
  <2>2. QED
    BY <2>1 DEF Joins
<1>2. q = Cat(h, c)
  OBVIOUS
<1> HIDE DEF h
<1>j. Joins(q, h, c, S)
  BY <1>1, <1>2, CatJoins
<1>3. /\ q \in Seq(S) /\ Len(q) = Len(h) + Len(c)
      /\ \A i \in 1..Len(h) : q[i] = h[i]
      /\ \A i \in 1..Len(c) : q[Len(h) + i] = c[i]
  BY <1>j DEF Joins
<1>4. Len(l) \in Nat /\ Len(g) \in Nat /\ Len(c) \in Nat /\ Len(q) = Len(l) + Len(g) + Len(c)
  BY <1>1, <1>3
<1>5. \A i \in 1..Len(l) : i \in 1..Len(h)
  BY <1>1, <1>4
<1>6. \A i \in 1..Len(g) : Len(l) + i \in 1..Len(h)
  BY <1>1, <1>4
<1>7. \A i \in 1..Len(q) :
          \/ i \in 1..Len(l)
          \/ \E j \in 1..Len(g) : i = Len(l) + j
          \/ \E j \in 1..Len(c) : i = Len(l) + Len(g) + j
  <2> SUFFICES ASSUME NEW i \in 1..Len(q), i \notin 1..Len(l),
                      ~ \E j \in 1..Len(g) : i = Len(l) + j
               PROVE  \E j \in 1..Len(c) : i = Len(l) + Len(g) + j
    OBVIOUS
  <2>1. i - Len(l) \notin 1..Len(g)
    <3>1. i = Len(l) + (i - Len(l))
      BY <1>4
    <3>2. QED
      BY <3>1
  <2>2. i - Len(l) - Len(g) \in 1..Len(c) /\ i = Len(l) + Len(g) + (i - Len(l) - Len(g))
    BY <1>4, <2>1
  <2>3. QED
    BY <2>2
<1>8. /\ \A i \in 1..Len(l) : q[i] = l[i]
      /\ \A i \in 1..Len(g) : q[Len(l) + i] = g[i]
      /\ \A i \in 1..Len(c) : q[Len(l) + Len(g) + i] = c[i]
  BY <1>1, <1>3, <1>5, <1>6
<1>9. QED
  BY <1>3, <1>4, <1>7, <1>8 DEF JoinsThree

-----------------------------------------------------------------------------
(***************************************************************************)
(* The plan.                                                               *)
(***************************************************************************)
Lead(a) == IF a.includes_none \/ from_config_without_none(a) = <<>> THEN <<None>> ELSE <<>>

AgentPart(a) ==
    CASE ConfigState(a) = "AgentFiltered" ->
             IF a.includes_none THEN AgentMethods(a) ELSE AgentMethodsWithoutNone(a)
      [] ConfigState(a) = "AgentFull" -> <<Full(a.agent)>>
      [] OTHER -> <<>>

States == {"AgentFiltered", "AgentFilteredEmpty", "AgentFull", "NoAgent", "NoAgentEmpty"}

LEMMA StateIs ==
    ASSUME NEW a \in Auth
    PROVE  /\ ConfigState(a) \in States
           /\ ConfigState(a) = "AgentFiltered" => a.agent \in Sock /\ a.identities_only
           /\ ConfigState(a) = "AgentFull" => a.agent \in Sock /\ ~ a.identities_only
           /\ ConfigState(a) \in {"AgentFilteredEmpty", "NoAgentEmpty"} => Identities(a) = <<>>
<1>1. a.identities_only \in BOOLEAN /\ (a.agent # NULL => a.agent \in Sock)
  BY AuthParts DEF Maybe
<1>2. QED
  BY <1>1 DEF ConfigState, States, Identities

LEMMA PlainMethods ==
    ASSUME NEW a
    PROVE  /\ None \in MethodsBy("None", a) /\ None.key = NULL /\ None.kind = "None"
           /\ a.agent \in Sock => Full(a.agent) \in MethodsBy("Agent", a) /\ Full(a.agent).key = NULL
<1>1. None = [by |-> "None", kind |-> "None", agent |-> NULL, cert |-> NULL, key |-> NULL]
  BY DEF None, Method
<1>2. None \in Methods
  BY <1>1 DEF Methods, Maybe
<1>3. None \in MethodsBy("None", a)
  BY <1>1, <1>2 DEF MethodsBy, WellFormed
<1>4. ASSUME a.agent \in Sock PROVE Full(a.agent) \in MethodsBy("Agent", a) /\ Full(a.agent).key = NULL
  <2> DEFINE s == a.agent
  <2>1. s \in Sock
    BY <1>4
  <2>2. Full(s) = [by |-> "Agent", kind |-> "Full", agent |-> s, cert |-> NULL, key |-> NULL]
    BY DEF Full, Method
  <2> HIDE DEF s
  <2>3. Full(s) \in Methods
    BY <2>1, <2>2 DEF Methods, Maybe
  <2>4. WellFormed(Full(s))
    BY <2>1, <2>2, <2>3 DEF WellFormed
  <2>5. QED
    BY <2>2, <2>3, <2>4 DEF MethodsBy, s
<1>5. QED
  BY <1>1, <1>3, <1>4

\* The methods of the agent without "none" in front: all of them, or all but the
\* first.
LEMMA WithoutNoneIs ==
    ASSUME NEW a \in Auth, a.agent \in Sock
    PROVE  \/ AgentMethodsWithoutNone(a) = AgentMethods(a)
           \/ AgentMethods(a) # <<>> /\ AgentMethodsWithoutNone(a) = Tail(AgentMethods(a))
<1> DEFINE agents == AgentMethods(a)
           first == IF LooksPrivate(Filter(Identities(a), UsableFiles)[1]) THEN <<>> ELSE <<agents[1]>>
<1>1. agents \in Seq(MethodsBy("Agent", a))
  BY AgentMethodsAre
<1>2. AgentMethodsWithoutNone(a) = IF agents = <<>> THEN <<>> ELSE Cat(first, Tail(agents))
  BY DEF AgentMethodsWithoutNone, Cat
<1>3. CASE agents = <<>>
  BY <1>2, <1>3
<1>4. CASE agents # <<>>
  <2> DEFINE t == Tail(agents)
             one == <<agents[1]>>
  <2>1. t \in Seq(MethodsBy("Agent", a)) /\ agents[1] \in MethodsBy("Agent", a)
    BY <1>1, <1>4
  <2>2. Cat(one, t) = agents
    <3>1. Cat(one, t) = <<agents[1]>> \o Tail(agents)
      BY DEF Cat
    <3> HIDE DEF agents
    <3>2. <<agents[1]>> \o Tail(agents) = agents
      BY <1>1, <1>4
    <3>3. QED
      BY <3>1, <3>2
  <2>3. Cat(<<>>, t) = t
    BY <2>1, CatNothing
  <2> HIDE DEF t, one
  <2>4. AgentMethodsWithoutNone(a) = Cat(first, t) /\ first \in {<<>>, one}
    BY <1>2, <1>4 DEF t, one
  <2> HIDE DEF first, agents
  <2>5. AgentMethodsWithoutNone(a) \in {t, agents}
    BY <2>2, <2>3, <2>4
  <2>6. QED
    BY <1>4, <2>5 DEF t, agents
<1>5. QED
  BY <1>3, <1>4

\* What can be the three parts of a plan.
Parts(a, l, g, c) ==
    /\ l \in {<<>>, <<None>>}
    /\ g \in Seq(MethodsBy("Agent", a))
    /\ c \in Seq(MethodsBy("Local", a))
    /\ \/ g = <<Full(a.agent)>> /\ ~ a.identities_only
       \/ Follows(g, Identities(a)) /\ \A i \in 1..Len(g) : g[i].kind # "Full"
    /\ Follows(c, Identities(a))

LEMMA FollowsNothing ==
    /\ \A q, S : q \in Seq(S) /\ Follows(q, <<>>) => q = <<>>
    /\ \A ids : Follows(<<>>, ids)
<1>1. ASSUME NEW q, NEW S, q \in Seq(S), Follows(q, <<>>) PROVE q = <<>>
  <2>1. PICK pos \in [1..Len(q) -> 1..Len(<<>>)] : TRUE
    BY <1>1 DEF Follows
  <2>2. Len(q) \in Nat /\ Len(<<>>) = 0
    BY <1>1
  <2>3. ~ (1 \in 1..Len(q))
    <3>1. ASSUME 1 \in 1..Len(q) PROVE FALSE
      <4>1. pos[1] \in 1..Len(<<>>)
        BY <2>1, <3>1
      <4>2. QED
        BY <2>2, <4>1
    <3>2. QED
      BY <3>1
  <2>4. Len(q) = 0
    BY <2>2, <2>3
  <2>5. QED
    BY <1>1, <2>4
<1>2. ASSUME NEW ids PROVE Follows(<<>>, ids)
  <2> DEFINE pos == [i \in 1..0 |-> 1]
  <2>1. Len(<<>>) = 0 /\ pos \in [1..0 -> 1..Len(ids)]
    OBVIOUS
  <2> HIDE DEF pos
  <2>2. \A i \in 1..0 : FALSE
    OBVIOUS
  <2>3. QED
    BY <2>1, <2>2 DEF Follows
<1>3. QED
  BY <1>1, <1>2

\* The agent's part is Full alone or follows the identities.
LEMMA AgentPartIs ==
    ASSUME NEW a \in Auth
    PROVE  /\ AgentPart(a) \in Seq(MethodsBy("Agent", a))
           /\ \/ AgentPart(a) = <<Full(a.agent)>> /\ ~ a.identities_only
              \/ /\ Follows(AgentPart(a), Identities(a))
                 /\ \A i \in 1..Len(AgentPart(a)) : AgentPart(a)[i].kind # "Full"
<1>1. CASE ConfigState(a) = "AgentFiltered"
  <2> DEFINE q == AgentMethods(a)
             g == AgentPart(a)
  <2>1. a.agent \in Sock
    BY <1>1, StateIs
  <2>2. q \in Seq(MethodsBy("Agent", a)) /\ Follows(q, Identities(a)) /\ \A i \in 1..Len(q) : q[i].kind # "Full"
    BY <2>1, AgentMethodsAre
  <2>3. g = q \/ (q # <<>> /\ g = Tail(q))
    BY <1>1, <2>1, WithoutNoneIs DEF AgentPart
  <2> HIDE DEF q, g
  <2>4. CASE g = q
    BY <2>2, <2>4 DEF g
  <2>5. CASE q # <<>> /\ g = Tail(q)
    <3>1. g \in Seq(MethodsBy("Agent", a)) /\ Follows(g, Identities(a))
      BY <2>2, <2>5, TailFollows
    <3>2. \A i \in 1..Len(g) : i + 1 \in 1..Len(q) /\ g[i] = q[i + 1]
      BY <2>2, <2>5
    <3>3. QED
      BY <2>2, <3>1, <3>2 DEF g
  <2>6. QED
    BY <2>3, <2>4, <2>5
<1>2. CASE ConfigState(a) = "AgentFull"
  <2>1. AgentPart(a) = <<Full(a.agent)>>
    BY <1>2 DEF AgentPart
  <2>2. a.agent \in Sock /\ ~ a.identities_only
    BY <1>2, StateIs
  <2>3. Full(a.agent) \in MethodsBy("Agent", a)
    BY <2>2, PlainMethods
  <2>4. QED
    BY <2>1, <2>2, <2>3
<1>3. CASE ConfigState(a) \notin {"AgentFiltered", "AgentFull"}
  <2> DEFINE g == AgentPart(a)
  <2>1. g = <<>>
    BY <1>3 DEF AgentPart
  <2>2. g \in Seq(MethodsBy("Agent", a)) /\ Len(g) = 0
    BY <2>1
  <2>3. Follows(g, Identities(a))
    BY <2>1, FollowsNothing
  <2> HIDE DEF g
  <2>4. \A i \in 1..Len(g) : g[i].kind # "Full"
    BY <2>2
  <2>5. QED
    BY <2>2, <2>3, <2>4 DEF g
<1>4. QED
  BY <1>1, <1>2, <1>3

\* Without "none" the plan is the agent's part and the local keys.
LEMMA WithoutNoneParts ==
    ASSUME NEW a \in Auth, ~ a.includes_none
    PROVE  from_config_without_none(a) = Cat(AgentPart(a), LocalMethods(a))
<1>1. LocalMethods(a) \in Seq(MethodsBy("Local", a)) /\ Follows(LocalMethods(a), Identities(a))
  BY LocalMethodsAre
<1>2. CASE ConfigState(a) = "AgentFiltered"
  BY <1>2 DEF from_config_without_none, AgentPart, Cat
<1>3. CASE ConfigState(a) = "AgentFull"
  BY <1>3 DEF from_config_without_none, AgentPart, Cat
<1>4. CASE ConfigState(a) = "NoAgent"
  <2>1. AgentPart(a) = <<>> /\ from_config_without_none(a) = LocalMethods(a)
    BY <1>4 DEF from_config_without_none, AgentPart
  <2>2. Cat(<<>>, LocalMethods(a)) = LocalMethods(a)
    BY <1>1, CatNothing
  <2>3. QED
    BY <2>1, <2>2
<1>5. CASE ConfigState(a) \in {"AgentFilteredEmpty", "NoAgentEmpty"}
  <2>1. AgentPart(a) = <<>> /\ from_config_without_none(a) = <<>>
    BY <1>5 DEF from_config_without_none, AgentPart
  <2>2. Identities(a) = <<>>
    BY <1>5, StateIs
  <2>3. LocalMethods(a) = <<>>
    BY <1>1, <2>2, FollowsNothing
  <2>4. Cat(<<>>, LocalMethods(a)) = LocalMethods(a)
    BY <1>1, CatNothing
  <2>5. QED
    BY <2>1, <2>3, <2>4
<1>6. QED
  BY <1>2, <1>3, <1>4, <1>5, StateIs DEF States

LEMMA WithNoneParts ==
    ASSUME NEW a \in Auth, a.includes_none
    PROVE  from_config_with_none(a) = Cat(Cat(<<None>>, AgentPart(a)), LocalMethods(a))
<1> DEFINE l == <<None>>
           c == LocalMethods(a)
<1>1. c \in Seq(MethodsBy("Local", a)) /\ Follows(c, Identities(a))
  BY LocalMethodsAre
<1>2. l \in Seq({None}) /\ Cat(l, <<>>) = l
  <2>1. l \in Seq({None})
    OBVIOUS
  <2>2. QED
    BY <2>1, CatNothing
<1>3. CASE ConfigState(a) = "AgentFiltered"
  BY <1>3 DEF from_config_with_none, AgentPart, Cat
<1>4. CASE ConfigState(a) = "AgentFull"
  <2>1. <<None, Full(a.agent)>> = Cat(l, <<Full(a.agent)>>)
    BY DEF Cat
  <2>2. from_config_with_none(a) = Cat(<<None, Full(a.agent)>>, c)
    BY <1>4 DEF from_config_with_none, Cat
  <2>3. AgentPart(a) = <<Full(a.agent)>>
    BY <1>4 DEF AgentPart
  <2>4. QED
    BY <2>1, <2>2, <2>3
<1>5. CASE ConfigState(a) = "NoAgent"
  <2>1. AgentPart(a) = <<>> /\ from_config_with_none(a) = Cat(l, c)
    BY <1>5 DEF from_config_with_none, AgentPart, Cat
  <2>2. QED
    BY <1>2, <2>1
<1>6. CASE ConfigState(a) \in {"AgentFilteredEmpty", "NoAgentEmpty"}
  <2>1. AgentPart(a) = <<>> /\ from_config_with_none(a) = l
    BY <1>6 DEF from_config_with_none, AgentPart, Default
  <2>2. c = <<>>
    BY <1>1, <1>6, StateIs, FollowsNothing
  <2>3. QED
    BY <1>2, <2>1, <2>2
<1>7. QED
  BY <1>3, <1>4, <1>5, <1>6, StateIs DEF States

\* Every plan is "none" or nothing, then the agent's part, then the local keys;
\* it is never empty.
THEOREM FromConfigParts ==
    ASSUME NEW a \in Auth
    PROVE  /\ \E l, g, c : Parts(a, l, g, c) /\ from_config(a) = Cat(Cat(l, g), c)
           /\ from_config(a) # <<>>
<1> DEFINE g == AgentPart(a)
           c == LocalMethods(a)
           one == <<None>>
<1>1. /\ c \in Seq(MethodsBy("Local", a)) /\ Follows(c, Identities(a))
      /\ g \in Seq(MethodsBy("Agent", a))
      /\ \/ g = <<Full(a.agent)>> /\ ~ a.identities_only
         \/ Follows(g, Identities(a)) /\ \A i \in 1..Len(g) : g[i].kind # "Full"
  BY LocalMethodsAre, AgentPartIs
<1>2. Parts(a, <<>>, g, c) /\ Parts(a, one, g, c)
  BY <1>1 DEF Parts
<1>3. from_config(a) # <<>>
  BY DEF from_config, from_config_with_none, Default
<1>4. CASE a.includes_none
  <2>1. from_config(a) = Cat(Cat(one, g), c)
    BY <1>4, WithNoneParts DEF from_config
  <2>2. QED
    BY <1>2, <1>3, <2>1
<1>5. CASE ~ a.includes_none /\ from_config_without_none(a) # <<>>
  <2>1. from_config(a) = Cat(g, c)
    BY <1>5, WithoutNoneParts DEF from_config
  <2>2. Cat(<<>>, g) = g
    BY <1>1, CatNothing
  <2>3. QED
    BY <1>2, <1>3, <2>1, <2>2
<1>6. CASE ~ a.includes_none /\ from_config_without_none(a) = <<>>
  <2>1. from_config(a) = one
    BY <1>6 DEF from_config, Default
  <2>2. Cat(g, c) = <<>>
    BY <1>6, WithoutNoneParts
  <2>3. g = <<>> /\ c = <<>>
    <3>1. g \in Seq(Methods) /\ c \in Seq(Methods)
      <4>1. MethodsBy("Agent", a) \subseteq Methods /\ MethodsBy("Local", a) \subseteq Methods
        BY DEF MethodsBy
      <4> HIDE DEF g, c
      <4>2. QED
        BY <1>1, <4>1
    <3> HIDE DEF g, c
    <3>2. QED
      BY <2>2, <3>1, CatIsNothing
  <2>4. one \in Seq({None}) /\ Cat(one, <<>>) = one
    <3>1. one \in Seq({None})
      OBVIOUS
    <3>2. QED
      BY <3>1, CatNothing
  <2>5. from_config(a) = Cat(Cat(one, g), c)
    BY <2>1, <2>3, <2>4
  <2>6. QED
    BY <1>2, <1>3, <2>5
<1>7. QED
  BY <1>4, <1>5, <1>6

-----------------------------------------------------------------------------
(***************************************************************************)
(* What a plan owes the settings it is made from.                          *)
(***************************************************************************)

\* The keys the settings list.
KeysOf(a) == {Identities(a)[i] : i \in DOMAIN Identities(a)}

\* A plan uses nothing but what the settings name.
Sound(q, a) ==
    /\ q \in Seq(Methods)
    /\ \A i \in DOMAIN q :
        /\ WellFormed(q[i])
        /\ q[i].key \in KeysOf(a) \cup {NULL}
        /\ q[i].cert \in {a.cert, NULL} /\ q[i].agent \in {a.agent, NULL}
        /\ a.identities_only => q[i].kind # "Full"

LEMMA FollowsListed ==
    ASSUME NEW a \in Auth, NEW q, Follows(q, Identities(a)), NEW i \in 1..Len(q)
    PROVE  q[i].key \in KeysOf(a)
<1> DEFINE ids == Identities(a)
<1>1. ids \in Seq(File) /\ DOMAIN ids = 1..Len(ids)
  BY AuthParts
<1>2. PICK pos \in [1..Len(q) -> 1..Len(ids)] : \A k \in 1..Len(q) : q[k].key = ids[pos[k]]
  BY DEF Follows
<1> HIDE DEF ids
<1>3. pos[i] \in DOMAIN ids /\ q[i].key = ids[pos[i]]
  BY <1>1, <1>2
<1>4. QED
  BY <1>3 DEF ids, KeysOf

\* Every part is sound by itself.
LEMMA PartsAreSound ==
    ASSUME NEW a \in Auth, NEW l, NEW g, NEW c, Parts(a, l, g, c)
    PROVE  Sound(l, a) /\ Sound(g, a) /\ Sound(c, a)
<1>1. Sound(l, a)
  <2>1. l \in Seq({None}) /\ \A i \in DOMAIN l : l[i] = None
    <3>1. l = <<>> \/ l = <<None>>
      BY DEF Parts
    <3>2. CASE l = <<>>
      BY <3>2
    <3>3. CASE l = <<None>>
      BY <3>3
    <3>4. QED
      BY <3>1, <3>2, <3>3
  <2>2. /\ None \in Methods /\ WellFormed(None) /\ None.key = NULL /\ None.kind = "None"
        /\ None.cert \in {a.cert, NULL} /\ None.agent \in {a.agent, NULL}
    BY PlainMethods DEF MethodsBy
  <2>3. l \in Seq(Methods)
    BY <2>1, <2>2
  <2>4. QED
    BY <2>1, <2>2, <2>3 DEF Sound
<1>2. Sound(g, a)
  <2>1. g \in Seq(MethodsBy("Agent", a)) /\ DOMAIN g = 1..Len(g)
    BY DEF Parts
  <2>2. /\ g \in Seq(Methods)
        /\ \A i \in DOMAIN g :
               /\ WellFormed(g[i])
               /\ g[i].cert \in {a.cert, NULL} /\ g[i].agent \in {a.agent, NULL}
    BY <2>1 DEF MethodsBy
  <2>3. CASE g = <<Full(a.agent)>> /\ ~ a.identities_only
    <3>1. 1 \in DOMAIN g /\ \A i \in DOMAIN g : i = 1
      BY <2>3
    <3>2. g[1] = Full(a.agent) /\ g[1].key = NULL
      BY <2>3 DEF Full, Method
    <3>3. QED
      BY <2>2, <2>3, <3>1, <3>2 DEF Sound
  <2>4. CASE Follows(g, Identities(a)) /\ \A i \in 1..Len(g) : g[i].kind # "Full"
    <3>1. \A i \in 1..Len(g) : g[i].key \in KeysOf(a)
      BY <2>4, FollowsListed
    <3>2. QED
      BY <2>1, <2>2, <2>4, <3>1 DEF Sound
  <2>5. QED
    BY <2>3, <2>4 DEF Parts
<1>3. Sound(c, a)
  <2>1. c \in Seq(MethodsBy("Local", a)) /\ DOMAIN c = 1..Len(c)
    BY DEF Parts
  <2>2. /\ c \in Seq(Methods)
        /\ \A i \in DOMAIN c :
               /\ WellFormed(c[i]) /\ c[i].kind # "Full"
               /\ c[i].cert \in {a.cert, NULL} /\ c[i].agent \in {a.agent, NULL}
    BY <2>1 DEF MethodsBy, WellFormed
  <2>3. \A i \in 1..Len(c) : c[i].key \in KeysOf(a)
    BY FollowsListed DEF Parts
  <2>4. QED
    BY <2>1, <2>2, <2>3 DEF Sound
<1>4. QED
  BY <1>1, <1>2, <1>3

\* So is the plan: each of its methods has the paths its kind needs, names only
\* keys the configuration lists and, under IdentitiesOnly, leaves the choice of
\* the key to nobody (AuthMethods::from_config, auth.rs:735-758).
THEOREM PlanIsSound ==
    ASSUME NEW a \in Auth
    PROVE  Sound(from_config(a), a)
<1> DEFINE q == from_config(a)
<1>1. PICK l, g, c : Parts(a, l, g, c) /\ q = Cat(Cat(l, g), c)
  BY FromConfigParts
<1>2. Sound(l, a) /\ Sound(g, a) /\ Sound(c, a)
  BY <1>1, PartsAreSound
<1> HIDE DEF q
<1>3. l \in Seq(Methods) /\ g \in Seq(Methods) /\ c \in Seq(Methods)
  BY <1>2 DEF Sound
<1>t. JoinsThree(q, l, g, c, Methods)
  BY <1>1, <1>3, ThreePlaces
<1>4. /\ q \in Seq(Methods)
      /\ \A i \in 1..Len(l) : q[i] = l[i]
      /\ \A i \in 1..Len(g) : q[Len(l) + i] = g[i]
      /\ \A i \in 1..Len(c) : q[Len(l) + Len(g) + i] = c[i]
      /\ \A i \in 1..Len(q) :
             \/ i \in 1..Len(l)
             \/ \E j \in 1..Len(g) : i = Len(l) + j
             \/ \E j \in 1..Len(c) : i = Len(l) + Len(g) + j
  BY <1>t DEF JoinsThree
<1>5. \A r : Sound(r, a) => \A i \in DOMAIN r :
          /\ WellFormed(r[i])
          /\ r[i].key \in KeysOf(a) \cup {NULL}
          /\ r[i].cert \in {a.cert, NULL} /\ r[i].agent \in {a.agent, NULL}
          /\ a.identities_only => r[i].kind # "Full"
  BY DEF Sound
<1>6. \A i \in 1..Len(q) : \E r \in {l, g, c} : \E j \in DOMAIN r : q[i] = r[j]
  <2> SUFFICES ASSUME NEW i \in 1..Len(q)
               PROVE  \E r \in {l, g, c} : \E j \in DOMAIN r : q[i] = r[j]
    OBVIOUS
  <2>1. DOMAIN l = 1..Len(l) /\ DOMAIN g = 1..Len(g) /\ DOMAIN c = 1..Len(c)
    BY <1>3
  <2>2. CASE i \in 1..Len(l)
    BY <1>4, <2>1, <2>2
  <2>3. CASE \E j \in 1..Len(g) : i = Len(l) + j
    <3>1. PICK j \in 1..Len(g) : i = Len(l) + j
      BY <2>3
    <3>2. q[i] = g[j] /\ j \in DOMAIN g
      BY <1>4, <2>1, <3>1
    <3>3. QED
      BY <3>2
  <2>4. CASE \E j \in 1..Len(c) : i = Len(l) + Len(g) + j
    <3>1. PICK j \in 1..Len(c) : i = Len(l) + Len(g) + j
      BY <2>4
    <3>2. q[i] = c[j] /\ j \in DOMAIN c
      BY <1>4, <2>1, <3>1
    <3>3. QED
      BY <3>2
  <2>5. QED
    BY <1>4, <2>2, <2>3, <2>4
<1>7. Sound(q, a)
  <2> SUFFICES ASSUME NEW i \in DOMAIN q
               PROVE  /\ WellFormed(q[i])
                      /\ q[i].key \in KeysOf(a) \cup {NULL}
                      /\ q[i].cert \in {a.cert, NULL} /\ q[i].agent \in {a.agent, NULL}
                      /\ a.identities_only => q[i].kind # "Full"
    BY <1>4 DEF Sound
  <2>1. i \in 1..Len(q)
    BY <1>4
  <2>2. PICK r \in {l, g, c} : \E j \in DOMAIN r : q[i] = r[j]
    BY <1>6, <2>1
  <2>3. Sound(r, a)
    BY <1>2, <2>2
  <2>4. QED
    BY <1>5, <2>2, <2>3
<1>8. QED
  BY <1>7 DEF q
=============================================================================
