-------------------------- MODULE KnownHostsProofs --------------------------
(***************************************************************************)
(* What the answers of a handler mean in terms of the lines of the file,   *)
(* for files of any length, in any order: the tables hold exactly the      *)
(* lines kept, and the binary search misses nothing in a sorted table.     *)
(* What the order of key algorithms the handler asks for is: the walk over *)
(* the trusted table yields each known one once, in order, before anything *)
(* of config.key.  And from HostText, which lines are about a host, for    *)
(* texts of any length: the lists of patterns the doc says, and of written *)
(* names that of the host and port typed alone.                            *)
(***************************************************************************)
EXTENDS KnownHosts, HostText, WellFoundedInduction, FiniteSetTheorems, TLAPS

-----------------------------------------------------------------------------
(***************************************************************************)
(* The order of the table and the search in it.                            *)
(***************************************************************************)

\* Less is a strict total order on lookup keys.
LEMMA LessTotal ==
    ASSUME NEW a \in LookupKey, NEW b \in LookupKey
    PROVE  /\ ~Less(a, a)
           /\ Less(a, b) \/ Less(b, a) \/ a = b
<1>1. PICK a1 \in {1, 2}, a2 \in 0..7, a3 \in Digest : a = <<a1, a2, a3>>
  BY DEF LookupKey
<1>2. PICK b1 \in {1, 2}, b2 \in 0..7, b3 \in Digest : b = <<b1, b2, b3>>
  BY DEF LookupKey
<1>3. a1 \in Int /\ a2 \in Int /\ a3 \in Int /\ b1 \in Int /\ b2 \in Int /\ b3 \in Int
  BY DigestAssumption
<1>4. /\ Less(a, b) <=> (a1 < b1 \/ (a1 = b1 /\ a2 < b2) \/ (a1 = b1 /\ a2 = b2 /\ a3 < b3))
      /\ Less(b, a) <=> (b1 < a1 \/ (b1 = a1 /\ b2 < a2) \/ (b1 = a1 /\ b2 = a2 /\ b3 < a3))
      /\ Less(a, a) <=> (a1 < a1 \/ (a1 = a1 /\ a2 < a2) \/ (a1 = a1 /\ a2 = a2 /\ a3 < a3))
  BY <1>1, <1>2 DEF Less
<1>5. a1 = b1 /\ a2 = b2 /\ a3 = b3 => a = b
  BY <1>1, <1>2
<1>6. QED
  BY <1>3, <1>4, <1>5

\* A non-empty set of naturals has a least element.
LEMMA Least ==
    ASSUME NEW T, T \subseteq Nat, T # {}
    PROVE  \E x \in T : \A y \in T : ~(y < x)
<1> DEFINE R == {ss \in Nat \X Nat : ss[1] < ss[2]}
<1>1. R = OpToRel(<, Nat)
  BY DEF OpToRel
<1>2. IsWellFoundedOn(R, Nat)
  BY <1>1, NatLessThanWellFounded
<1> HIDE DEF R
<1>3. \E x \in T : \A y \in T : ~(<<y, x>> \in R)
  BY <1>2, WFMin
<1>4. QED
  BY <1>3 DEF R

\* In a sorted table the search finds an entry exactly when there is one.
LEMMA SearchFinds ==
    ASSUME NEW entries \in Seq(Entry), InOrder(entries), NEW lookup \in LookupKey
    PROVE  contains_entry(entries, lookup) <=>
               \E i \in DOMAIN entries :
                   entries[i].lookup = lookup /\ host_matched(entries[i].hosts, host, port)
<1>1. ASSUME contains_entry(entries, lookup)
      PROVE  \E i \in DOMAIN entries :
                 entries[i].lookup = lookup /\ host_matched(entries[i].hosts, host, port)
  BY <1>1 DEF contains_entry
<1>2. ASSUME NEW i \in DOMAIN entries, entries[i].lookup = lookup,
             host_matched(entries[i].hosts, host, port)
      PROVE  contains_entry(entries, lookup)
  <2> DEFINE T == {k \in DOMAIN entries : entries[k].lookup = lookup}
  <2>1. T \subseteq Nat /\ i \in T
    BY <1>2
  <2>2. PICK start \in T : \A y \in T : ~(y < start)
    BY <2>1, Least
  <2>3. start \in DOMAIN entries /\ start <= i /\ entries[start].lookup = lookup
    BY <2>1, <2>2
  <2>4. \A j \in DOMAIN entries : entries[j].lookup \in LookupKey
    <3>1. \A e \in Entry : e.lookup \in LookupKey
      BY DEF Entry
    <3>2. \A j \in DOMAIN entries : entries[j] \in Entry
      OBVIOUS
    <3>3. QED
      BY <3>1, <3>2
  <2>5. \A j \in 1..(start - 1) : Less(entries[j].lookup, lookup)
    <3> SUFFICES ASSUME NEW j \in 1..(start - 1) PROVE Less(entries[j].lookup, lookup)
      OBVIOUS
    <3>1. j \in DOMAIN entries /\ j < start
      BY <2>3
    <3>2. entries[j].lookup # lookup
      BY <2>2, <3>1
    <3>3. ~Less(lookup, entries[j].lookup)
      BY <2>3, <3>1 DEF InOrder
    <3>4. QED
      BY <2>4, <3>1, <3>2, <3>3, LessTotal
  <2>6. \A j \in start..i : entries[j].lookup = lookup
    <3> SUFFICES ASSUME NEW j \in start..i PROVE entries[j].lookup = lookup
      OBVIOUS
    <3>1. j \in DOMAIN entries /\ (j = start \/ start < j) /\ (j = i \/ j < i)
      BY <1>2, <2>3
    <3>2. CASE j = start \/ j = i
      BY <1>2, <2>3, <3>2
    <3>3. CASE start < j /\ j < i
      <4>1. ~Less(entries[j].lookup, lookup) /\ ~Less(lookup, entries[j].lookup)
        BY <1>2, <2>3, <3>1, <3>3 DEF InOrder
      <4>2. QED
        BY <2>4, <3>1, <4>1, LessTotal
    <3>4. QED
      BY <3>1, <3>2, <3>3
  <2>7. QED
    BY <1>2, <2>3, <2>5, <2>6 DEF contains_entry
<1>3. QED
  BY <1>1, <1>2

-----------------------------------------------------------------------------
(***************************************************************************)
(* The inductive invariant: a table holds the entries of the lines read    *)
(* that belong to it and no others, sorted once all are read; an answer is *)
(* the one the checks give.                                                *)
(***************************************************************************)
Belongs(line, marked) == Kept(line) /\ (line.marker = "revoked" <=> marked)

Stored(table, marked, n) ==
    /\ \A i \in DOMAIN table : \E k \in 1..n :
           Belongs(file[k], marked) /\ table[i] = Prepared(file[k])
    /\ \A k \in 1..n : Belongs(file[k], marked) =>
           \E i \in DOMAIN table : table[i] = Prepared(file[k])

TablesInv ==
    /\ Stored(trusted, FALSE, read) /\ Stored(revoked, TRUE, read)
    /\ Len(trusted) <= read
    /\ pc # "read" => read = Len(file) /\ InOrder(trusted) /\ InOrder(revoked)

AnswerInv ==
    /\ pc # "done" => result = NULL
    /\ pc = "done" =>
           \/ \E keys \in Servers : \E key \in keys :
                  shown = [keys |-> keys, key |-> key] /\ result = check_public_key(key)
           \/ \E cert \in Certs, valid \in BOOLEAN :
                  shown = [cert |-> cert, valid |-> valid] /\ result = check_cert(cert, valid)

Inv == TypeOK /\ TablesInv /\ AnswerInv

-----------------------------------------------------------------------------
(***************************************************************************)
(* Lines and their entries.                                                *)
(***************************************************************************)

\* from gives one of SigAlg.
LEMMA FromType ==
    ASSUME NEW alg \in 0..7
    PROVE  from(alg) \in SigAlg
<1>1. CASE from(alg) = Other
  BY <1>1 DEF Other, SigAlg
<1>2. CASE from(alg) = RsaSha256
  BY <1>2 DEF RsaSha256, SigAlg
<1>3. CASE from(alg) = alg /\ alg # 0
  BY <1>3 DEF SigAlg
<1>4. QED
  <2>1. CASE ~rsa
    <3>1. CASE alg \in {0, RsaSha512, RsaSha256}
      BY <1>1, <2>1, <3>1 DEF from
    <3>2. CASE alg \notin {0, RsaSha512, RsaSha256}
      BY <1>3, <2>1, <3>2 DEF from
    <3>3. QED
      BY <3>1, <3>2
  <2>2. CASE rsa
    <3>1. CASE alg = 0
      BY <1>2, <2>2, <3>1 DEF from
    <3>2. CASE alg # 0
      BY <1>3, <2>2, <3>2 DEF from
    <3>3. QED
      BY <3>1, <3>2
  <2>3. QED
    BY <2>1, <2>2

\* What a line is made of.
LEMMA LineType ==
    ASSUME NEW line \in Line
    PROVE  /\ line.marker \in {"none", "ca", "revoked"}
           /\ line.key \in Key /\ line.key.alg \in 0..7 /\ line.key.digest \in Digest
           /\ line.hosts \in HostPatterns
<1>1. line.marker \in {"none", "ca", "revoked"} /\ line.key \in Key /\ line.hosts \in HostPatterns
  BY DEF Line
<1>2. \A key \in Key : key.alg \in 0..7 /\ key.digest \in Digest
  BY DEF Key
<1>3. QED
  BY <1>1, <1>2

\* A line that is kept is a line.
LEMMA KeptIsLine ==
    ASSUME TypeOK, NEW k \in DOMAIN file, Kept(file[k])
    PROVE  file[k] \in Line
<1>1. file \in Seq(Line \cup {NULL})
  BY FilesAssumption DEF TypeOK
<1>2. QED
  BY <1>1 DEF Kept

\* A lookup key tells pubkeys and CAs apart.
LEMMA LookupType ==
    ASSUME NEW alg \in 0..7, NEW digest \in Digest
    PROVE  /\ Pubkey(alg, digest) \in LookupKey /\ Ca(digest) \in LookupKey
           /\ Pubkey(alg, digest)[1] = 1 /\ Pubkey(alg, digest)[2] = alg
           /\ Ca(digest)[1] = 2
           /\ Pubkey(alg, digest) # Ca(digest)
  BY DEF Pubkey, Ca, LookupKey

\* The entry of a line.
LEMMA PreparedType ==
    ASSUME NEW line \in Line
    PROVE  /\ Prepared(line) \in Entry
           /\ Prepared(line).hosts = line.hosts
           /\ line.marker = "ca" => Prepared(line).lookup = Ca(line.key.digest)
           /\ line.marker # "ca" =>
                  Prepared(line).lookup = Pubkey(from(line.key.alg), line.key.digest)
<1>1. from(line.key.alg) \in 0..7
  BY LineType, FromType DEF SigAlg
<1>2. Prepared(line).lookup \in LookupKey
  BY <1>1, LineType, LookupType DEF Prepared
<1>3. QED
  BY <1>2, LineType DEF Prepared, Entry

\* A pubkey entry of the trusted table has an algorithm that is known.
LEMMA PubkeysAreKnown ==
    ASSUME NEW line \in Line, Belongs(line, FALSE), IsPubkey(Prepared(line))
    PROVE  line.marker = "none" /\ Prepared(line).lookup[2] \in SigAlg \ {Other}
<1>1. line.marker = "none"
  BY LineType, PreparedType, LookupType DEF Belongs, IsPubkey
<1>2. from(line.key.alg) \in SigAlg \ {Other}
  BY <1>1, LineType, FromType DEF Belongs, Kept
<1>3. from(line.key.alg) \in 0..7
  BY <1>2 DEF SigAlg
<1>4. QED
  BY <1>1, <1>2, <1>3, LineType, PreparedType, LookupType

-----------------------------------------------------------------------------
(***************************************************************************)
(* Reading and sorting keep the tables.                                    *)
(***************************************************************************)

\* One more line of the file.
LEMMA StoreOne ==
    ASSUME TypeOK, read < Len(file), NEW marked \in BOOLEAN,
           NEW table \in Seq(Entry), Stored(table, marked, read),
           NEW t, t = IF Belongs(file[read + 1], marked)
                      THEN Append(table, Prepared(file[read + 1])) ELSE table
    PROVE  t \in Seq(Entry) /\ Stored(t, marked, read + 1) /\ Len(t) <= Len(table) + 1
<1> DEFINE line == file[read + 1]
<1>1. read \in Nat /\ Len(file) \in Nat /\ read + 1 \in DOMAIN file
  BY FilesAssumption DEF TypeOK
<1>2. \A k \in 1..(read + 1) : k \in 1..read \/ k = read + 1
  BY <1>1
<1>3. \A k \in 1..read : k \in 1..(read + 1)
  BY <1>1
<1>4. read + 1 \in 1..(read + 1)
  BY <1>1
<1>5. CASE ~Belongs(line, marked)
  BY <1>2, <1>3, <1>5 DEF Stored
<1>6. CASE Belongs(line, marked)
  <2>1. line \in Line
    BY <1>1, <1>6, KeptIsLine DEF Belongs
  <2>2. Prepared(line) \in Entry
    BY <2>1, PreparedType
  <2>3. /\ t = Append(table, Prepared(line)) /\ t \in Seq(Entry)
        /\ Len(t) = Len(table) + 1
        /\ DOMAIN t = 1..(Len(table) + 1)
        /\ \A i \in DOMAIN table : i \in DOMAIN t /\ t[i] = table[i]
        /\ Len(table) + 1 \in DOMAIN t
        /\ t[Len(table) + 1] = Prepared(line)
        /\ \A i \in DOMAIN t : i \in DOMAIN table \/ i = Len(table) + 1
    BY <1>6, <2>2
  <2>4. \A i \in DOMAIN t : \E k \in 1..(read + 1) :
            Belongs(file[k], marked) /\ t[i] = Prepared(file[k])
    <3> SUFFICES ASSUME NEW i \in DOMAIN t
                 PROVE  \E k \in 1..(read + 1) :
                            Belongs(file[k], marked) /\ t[i] = Prepared(file[k])
      OBVIOUS
    <3>1. CASE i \in DOMAIN table
      BY <1>3, <2>3, <3>1 DEF Stored
    <3>2. CASE i = Len(table) + 1
      BY <1>4, <1>6, <2>3, <3>2
    <3>3. QED
      BY <2>3, <3>1, <3>2
  <2>5. \A k \in 1..(read + 1) : Belongs(file[k], marked) =>
            \E i \in DOMAIN t : t[i] = Prepared(file[k])
    <3> SUFFICES ASSUME NEW k \in 1..(read + 1), Belongs(file[k], marked)
                 PROVE  \E i \in DOMAIN t : t[i] = Prepared(file[k])
      OBVIOUS
    <3>1. CASE k \in 1..read
      <4>1. PICK i \in DOMAIN table : table[i] = Prepared(file[k])
        BY <3>1 DEF Stored
      <4>2. QED
        BY <2>3, <4>1
    <3>2. CASE k = read + 1
      BY <2>3, <3>2
    <3>3. QED
      BY <1>2, <3>1, <3>2
  <2>6. Stored(t, marked, read + 1)
    BY <2>4, <2>5 DEF Stored
  <2>7. QED
    BY <2>3, <2>6
<1>7. QED
  BY <1>5, <1>6

\* A sort of a table holds the same entries.
LEMMA Permuted ==
    ASSUME NEW table \in Seq(Entry), NEW marked, NEW n \in Nat, Stored(table, marked, n),
           NEW t \in SortsOf(table)
    PROVE  /\ t \in Seq(Entry) /\ Len(t) = Len(table)
           /\ InOrder(t) /\ Stored(t, marked, n)
<1>1. PICK p \in Bijection(DOMAIN table, DOMAIN table) :
          t = [i \in DOMAIN table |-> table[p[i]]] /\ InOrder(t)
  BY DEF SortsOf
<1>2. /\ p \in [DOMAIN table -> DOMAIN table]
      /\ \A j \in DOMAIN table : \E i \in DOMAIN table : p[i] = j
  BY DEF Bijection, Injection, Surjection
<1>3. t \in Seq(Entry) /\ Len(t) = Len(table) /\ DOMAIN t = DOMAIN table
  <2>1. DOMAIN table = 1..Len(table) /\ Len(table) \in Nat
    OBVIOUS
  <2>2. \A i \in 1..Len(table) : table[p[i]] \in Entry
    BY <1>2, <2>1
  <2>3. t \in [1..Len(table) -> Entry]
    BY <1>1, <2>1, <2>2
  <2>4. QED
    BY <2>1, <2>3
<1>4. \A i \in DOMAIN t : p[i] \in DOMAIN table /\ t[i] = table[p[i]]
  BY <1>1, <1>2, <1>3
<1>5. \A j \in DOMAIN table : \E i \in DOMAIN t : t[i] = table[j]
  BY <1>2, <1>3, <1>4
<1>6. \A i \in DOMAIN t : \E k \in 1..n : Belongs(file[k], marked) /\ t[i] = Prepared(file[k])
  <2> SUFFICES ASSUME NEW i \in DOMAIN t
               PROVE  \E k \in 1..n : Belongs(file[k], marked) /\ t[i] = Prepared(file[k])
    OBVIOUS
  <2>1. p[i] \in DOMAIN table /\ t[i] = table[p[i]]
    BY <1>4
  <2>2. PICK k \in 1..n : Belongs(file[k], marked) /\ table[p[i]] = Prepared(file[k])
    BY <2>1 DEF Stored
  <2>3. QED
    BY <2>1, <2>2
<1>7. \A k \in 1..n : Belongs(file[k], marked) => \E i \in DOMAIN t : t[i] = Prepared(file[k])
  <2> SUFFICES ASSUME NEW k \in 1..n, Belongs(file[k], marked)
               PROVE  \E i \in DOMAIN t : t[i] = Prepared(file[k])
    OBVIOUS
  <2>1. PICK j \in DOMAIN table : table[j] = Prepared(file[k])
    BY DEF Stored
  <2>2. QED
    BY <1>5, <2>1
<1>8. QED
  BY <1>1, <1>3, <1>6, <1>7 DEF Stored

\* The lines of a table stay the same while the file does.
LEMMA StoredStable ==
    ASSUME UNCHANGED <<rsa, file>>, NEW marked, NEW table, NEW n
    PROVE  Stored(table, marked, n)' = Stored(table, marked, n)
<1>1. \A alg : from(alg)' = from(alg)
  BY DEF from
<1>2. \A line : Prepared(line)' = Prepared(line) /\ Kept(line)' = Kept(line)
  BY <1>1 DEF Prepared, Kept
<1>3. \A k : file'[k] = file[k]
  OBVIOUS
<1>4. QED
  BY <1>2, <1>3 DEF Stored, Belongs

-----------------------------------------------------------------------------
(***************************************************************************)
(* The invariant holds.                                                    *)
(***************************************************************************)

\* It holds before anything is read.
LEMMA InitInv == Init => Inv
<1> SUFFICES ASSUME Init PROVE Inv
  OBVIOUS
<1> USE DEF Init
<1>1. file \in Seq(Line \cup {NULL})
  BY FilesAssumption
<1>2. TypeOK
  BY <1>1 DEF TypeOK, SigAlg, Other
<1>3. TablesInv
  BY DEF TablesInv, Stored, InOrder
<1>4. AnswerInv
  BY DEF AnswerInv
<1>5. QED
  BY <1>2, <1>3, <1>4 DEF Inv

\* What holds of the algorithms in the trusted table.
LEMMA TrustedAlgs ==
    ASSUME TypeOK, NEW n \in 0..Len(file), NEW table \in Seq(Entry), Stored(table, FALSE, n)
    PROVE  \A i \in DOMAIN table : IsPubkey(table[i]) => table[i].lookup[2] \in SigAlg \ {Other}
<1> SUFFICES ASSUME NEW i \in DOMAIN table, IsPubkey(table[i])
             PROVE  table[i].lookup[2] \in SigAlg \ {Other}
  OBVIOUS
<1>1. PICK k \in 1..n : Belongs(file[k], FALSE) /\ table[i] = Prepared(file[k])
  BY DEF Stored
<1>2. k \in DOMAIN file
  BY FilesAssumption DEF TypeOK
<1>3. file[k] \in Line
  BY <1>1, <1>2, KeptIsLine DEF Belongs
<1>4. QED
  BY <1>1, <1>3, PubkeysAreKnown

\* A line is read.
LEMMA ReadStep == Inv /\ ReadLine => Inv'
<1> SUFFICES ASSUME Inv, ReadLine PROVE Inv'
  OBVIOUS
<1>1. TypeOK /\ TablesInv /\ AnswerInv
  BY DEF Inv
<1>2. /\ pc = "read" /\ pc' = "read" /\ read < Len(file) /\ read' = read + 1
      /\ rsa' = rsa /\ file' = file
      /\ UNCHANGED <<target, choice, answer>>
  BY DEF ReadLine
<1>3. read \in Nat /\ Len(file) \in Nat /\ trusted \in Seq(Entry) /\ revoked \in Seq(Entry)
  BY <1>1, FilesAssumption DEF TypeOK
<1>4. /\ trusted' = IF Belongs(file[read + 1], FALSE)
                    THEN Append(trusted, Prepared(file[read + 1])) ELSE trusted
      /\ revoked' = IF Belongs(file[read + 1], TRUE)
                    THEN Append(revoked, Prepared(file[read + 1])) ELSE revoked
  BY DEF ReadLine, Belongs
<1>5. /\ trusted' \in Seq(Entry) /\ Stored(trusted', FALSE, read + 1)
      /\ Len(trusted') <= Len(trusted) + 1
  BY <1>1, <1>2, <1>3, <1>4, StoreOne DEF TablesInv
<1>6. revoked' \in Seq(Entry) /\ Stored(revoked', TRUE, read + 1)
  BY <1>1, <1>2, <1>3, <1>4, StoreOne DEF TablesInv
<1>7. read + 1 \in 0..Len(file)
  BY <1>2, <1>3
<1>8. \A i \in DOMAIN trusted' :
          IsPubkey(trusted'[i]) => trusted'[i].lookup[2] \in SigAlg \ {Other}
  BY <1>1, <1>5, <1>7, TrustedAlgs
<1>9. TypeOK'
  BY <1>1, <1>2, <1>5, <1>6, <1>7, <1>8 DEF TypeOK, IsPubkey, target, choice, answer
<1>10. TablesInv'
  <2>1. Stored(trusted, FALSE, read)' /\ Stored(revoked, TRUE, read)'
    BY <1>2, <1>5, <1>6, StoredStable
  <2>2. Len(trusted') <= read + 1
    BY <1>1, <1>3, <1>5 DEF TablesInv
  <2>3. QED
    BY <1>2, <2>1, <2>2 DEF TablesInv
<1>11. AnswerInv'
  BY <1>1, <1>2 DEF AnswerInv, answer
<1>12. QED
  BY <1>9, <1>10, <1>11 DEF Inv

\* The tables are sorted.
LEMMA SortStep == Inv /\ Sort => Inv'
<1> SUFFICES ASSUME Inv, Sort PROVE Inv'
  OBVIOUS
<1>1. TypeOK /\ TablesInv /\ AnswerInv
  BY DEF Inv
<1>2. /\ pc = "read" /\ pc' = "make" /\ read = Len(file) /\ read' = read
      /\ rsa' = rsa /\ file' = file
      /\ UNCHANGED <<target, choice, answer>>
      /\ trusted' \in SortsOf(trusted) /\ revoked' \in SortsOf(revoked)
  BY DEF Sort
<1>3. read \in Nat /\ read \in 0..Len(file) /\ trusted \in Seq(Entry) /\ revoked \in Seq(Entry)
  BY <1>1, FilesAssumption DEF TypeOK
<1>4. /\ trusted' \in Seq(Entry) /\ Stored(trusted', FALSE, read)
      /\ Len(trusted') = Len(trusted) /\ InOrder(trusted')
  BY <1>1, <1>2, <1>3, Permuted DEF TablesInv
<1>5. revoked' \in Seq(Entry) /\ Stored(revoked', TRUE, read) /\ InOrder(revoked')
  BY <1>1, <1>2, <1>3, Permuted DEF TablesInv
<1>6. \A i \in DOMAIN trusted' :
          IsPubkey(trusted'[i]) => trusted'[i].lookup[2] \in SigAlg \ {Other}
  BY <1>1, <1>3, <1>4, TrustedAlgs
<1>7. TypeOK'
  BY <1>1, <1>2, <1>3, <1>4, <1>5, <1>6 DEF TypeOK, IsPubkey, target, choice, answer
<1>8. TablesInv'
  <2>1. Stored(trusted, FALSE, read)' /\ Stored(revoked, TRUE, read)'
    BY <1>2, <1>4, <1>5, StoredStable
  <2>2. InOrder(trusted)' /\ InOrder(revoked)'
    BY <1>4, <1>5 DEF InOrder
  <2>3. QED
    BY <1>1, <1>2, <1>4, <2>1, <2>2 DEF TablesInv
<1>9. AnswerInv'
  BY <1>1, <1>2 DEF AnswerInv, answer
<1>10. QED
  BY <1>7, <1>8, <1>9 DEF Inv

\* Steps that leave the tables alone, once they are sorted or not.
LEMMA TablesStable ==
    ASSUME TablesInv, UNCHANGED tables, pc # "read" \/ pc' = pc
    PROVE  TablesInv'
<1>1. /\ rsa' = rsa /\ file' = file /\ read' = read
      /\ trusted' = trusted /\ revoked' = revoked
  BY DEF tables
<1>2. Stored(trusted, FALSE, read)' /\ Stored(revoked, TRUE, read)'
  BY <1>1, StoredStable DEF TablesInv
<1>3. InOrder(trusted)' = InOrder(trusted) /\ InOrder(revoked)' = InOrder(revoked)
  BY <1>1 DEF InOrder
<1>4. QED
  BY <1>1, <1>2, <1>3 DEF TablesInv

\* The handler takes its algorithms from the trusted table.
LEMMA HandlerStep == Inv /\ (\E h \in HostName, p \in Port : MakeHandler(h, p)) => Inv'
<1> SUFFICES ASSUME Inv, NEW h \in HostName, NEW p \in Port, MakeHandler(h, p) PROVE Inv'
  OBVIOUS
<1>1. TypeOK /\ TablesInv /\ AnswerInv
  BY DEF Inv
<1>2. known_public_key_algs(h, p) \subseteq SigAlg \ {Other}
  <2>1. \A k \in DOMAIN trusted : (\A j \in 1..k : IsPubkey(trusted[j])) => IsPubkey(trusted[k])
    BY <1>1 DEF TypeOK
  <2>2. QED
    BY <1>1, <2>1 DEF known_public_key_algs, TypeOK
<1>3. TypeOK'
  <2>1. /\ pc' \in {"check", "prefer"} /\ host' = h /\ port' = p
        /\ known' = known_public_key_algs(h, p) /\ left' = ConfigKey
        /\ algs' \in {ConfigKey, algs} /\ UNCHANGED <<tables, answer>>
    BY DEF MakeHandler, update_preferred_config, preferred_public_key_alg
  <2>2. at' \in 1..(Len(file) + 1)' /\ prev' \in SigAlg
    <3>1. at' = 1 /\ prev' = Other /\ file' = file
      BY DEF MakeHandler, update_preferred_config, preferred_public_key_alg, tables
    <3>2. at \in 1..(Len(file) + 1)
      BY <1>1 DEF TypeOK
    <3>3. 1 \in 1..(Len(file) + 1)
      BY <3>2
    <3>4. QED
      BY <3>1, <3>3 DEF Other, SigAlg
  <2>3. QED
    BY <1>1, <1>2, <2>1, <2>2, ConfigAssumption DEF TypeOK, tables, answer, IsPubkey
<1>4. TablesInv'
  BY <1>1, TablesStable DEF MakeHandler
<1>5. AnswerInv'
  BY <1>1 DEF AnswerInv, MakeHandler, update_preferred_config, answer
<1>6. QED
  BY <1>3, <1>4, <1>5 DEF Inv

\* An algorithm is yielded from the table.
LEMMA KnownStep == Inv /\ NextKnown => Inv'
<1> SUFFICES ASSUME Inv, NextKnown PROVE Inv'
  OBVIOUS
<1>1. TypeOK /\ TablesInv /\ AnswerInv
  BY DEF Inv
<1>2. PICK i \in at..Len(trusted) :
          /\ IsPubkey(trusted[i])
          /\ at' = i + 1 /\ prev' = trusted[i].lookup[2] /\ algs' = Append(algs, prev')
  BY DEF NextKnown
<1>3. /\ at \in Nat /\ at >= 1 /\ Len(file) \in Nat /\ read \in 0..Len(file)
      /\ Len(trusted) \in Nat /\ Len(trusted) <= read
  BY <1>1, FilesAssumption DEF TypeOK, TablesInv
<1>4. i \in DOMAIN trusted /\ i + 1 \in 1..(Len(file) + 1)
  BY <1>1, <1>3 DEF TypeOK
<1>5. prev' \in SigAlg /\ prev' \in Algorithm
  BY <1>1, <1>2, <1>4 DEF TypeOK, SigAlg, Algorithm
<1>6. algs' \in Seq(Algorithm)
  BY <1>1, <1>2, <1>5 DEF TypeOK
<1>7. TypeOK'
  BY <1>1, <1>2, <1>4, <1>5, <1>6 DEF TypeOK, NextKnown, tables, target, answer, IsPubkey
<1>8. TablesInv'
  BY <1>1, TablesStable DEF NextKnown
<1>9. AnswerInv'
  BY <1>1 DEF AnswerInv, NextKnown, answer
<1>10. QED
  BY <1>7, <1>8, <1>9 DEF Inv

\* An algorithm is yielded from the configuration, or none.
LEMMA ConfigStep == Inv /\ NextConfig => Inv'
<1> SUFFICES ASSUME Inv, NextConfig PROVE Inv'
  OBVIOUS
<1>1. TypeOK /\ TablesInv /\ AnswerInv
  BY DEF Inv
<1>2. /\ at \in Nat /\ at >= 1 /\ Len(file) \in Nat /\ read \in 0..Len(file)
      /\ Len(trusted) \in Nat /\ Len(trusted) <= read
  BY <1>1, FilesAssumption DEF TypeOK, TablesInv
<1>3. PICK next \in at..(Len(trusted) + 1) : at' = next
  BY DEF NextConfig
<1>4. at' \in 1..(Len(file) + 1)
  BY <1>2, <1>3
<1>5. left' \in Seq(Algorithm) /\ algs' \in Seq(Algorithm) /\ pc' \in {"prefer", "check"}
  <2>1. left \in Seq(Algorithm) /\ algs \in Seq(Algorithm) /\ pc = "prefer"
    BY <1>1 DEF TypeOK, NextConfig
  <2>2. CASE /\ left' = <<>> /\ pc' = "check" /\ UNCHANGED algs
    BY <2>1, <2>2
  <2>3. ASSUME NEW i \in DOMAIN left, algs' = Append(algs, left[i]),
               left' = SubSeq(left, i + 1, Len(left)), UNCHANGED pc
        PROVE  left' \in Seq(Algorithm) /\ algs' \in Seq(Algorithm) /\ pc' = "prefer"
    BY <2>1, <2>3
  <2>4. QED
    BY <2>2, <2>3 DEF NextConfig
<1>6. UNCHANGED <<tables, target, known, prev, answer>> /\ pc = "prefer"
  BY DEF NextConfig
<1>7. TypeOK'
  BY <1>1, <1>4, <1>5, <1>6 DEF TypeOK, tables, target, answer, IsPubkey
<1>8. TablesInv'
  BY <1>1, <1>6, TablesStable
<1>9. AnswerInv'
  BY <1>1, <1>5, <1>6 DEF AnswerInv, answer
<1>10. QED
  BY <1>7, <1>8, <1>9 DEF Inv

\* The checks depend on the tables, the host and the port only.
LEMMA ChecksStable ==
    ASSUME UNCHANGED <<tables, target>>
    PROVE  /\ \A key : check_public_key(key)' = check_public_key(key)
           /\ \A cert, valid : check_cert(cert, valid)' = check_cert(cert, valid)
<1>1. /\ rsa' = rsa /\ trusted' = trusted /\ revoked' = revoked
      /\ host' = host /\ port' = port
  BY DEF tables, target
<1>2. \A alg : from(alg)' = from(alg)
  BY <1>1 DEF from
<1>3. \A table, lookup : contains_entry(table, lookup)' = contains_entry(table, lookup)
  BY <1>1 DEF contains_entry
<1>4. has_pubkeys' = has_pubkeys
  BY <1>1 DEF has_pubkeys
<1>5. \A key : check_public_key(key)' = check_public_key(key)
  BY <1>1, <1>2, <1>3, <1>4 DEF check_public_key
<1>6. QED
  BY <1>1, <1>2, <1>3, <1>5 DEF check_cert

\* The checks give a MatchResult.
LEMMA ChecksType ==
    /\ \A key : check_public_key(key) \in MatchResult
    /\ \A cert, valid : check_cert(cert, valid) \in MatchResult
<1>1. \A key : check_public_key(key) \in MatchResult
  BY DEF check_public_key, MatchResult
<1>2. QED
  BY <1>1 DEF check_cert, MatchResult

\* The server's key or certificate is checked.
LEMMA CheckStep ==
    Inv /\ (\/ \E keys \in Servers : \E key \in keys : CheckKey(keys, key)
            \/ \E cert \in Certs, valid \in BOOLEAN : CheckCert(cert, valid)) => Inv'
<1>1. ASSUME Inv, pc = "check", pc' = "done", result' \in MatchResult,
             UNCHANGED <<tables, target, choice>>
      PROVE  TypeOK' /\ TablesInv'
  <2>1. TypeOK /\ TablesInv
    BY <1>1 DEF Inv
  <2>2. TablesInv'
    BY <1>1, <2>1, TablesStable
  <2>3. QED
    BY <1>1, <2>1, <2>2 DEF TypeOK, tables, target, choice, IsPubkey
<1>2. ASSUME Inv, NEW keys \in Servers, NEW key \in keys, CheckKey(keys, key) PROVE Inv'
  <2>1. TypeOK' /\ TablesInv'
    BY <1>1, <1>2, ChecksType DEF CheckKey
  <2>2. result' = check_public_key(key)'
    BY <1>2, ChecksStable DEF CheckKey
  <2>3. AnswerInv'
    BY <1>2, <2>2 DEF AnswerInv, CheckKey
  <2>4. QED
    BY <2>1, <2>3 DEF Inv
<1>3. ASSUME Inv, NEW cert \in Certs, NEW valid \in BOOLEAN, CheckCert(cert, valid) PROVE Inv'
  <2>1. TypeOK' /\ TablesInv'
    BY <1>1, <1>3, ChecksType DEF CheckCert
  <2>2. result' = check_cert(cert, valid)'
    BY <1>3, ChecksStable DEF CheckCert
  <2>3. AnswerInv'
    BY <1>3, <2>2 DEF AnswerInv, CheckCert
  <2>4. QED
    BY <2>1, <2>3 DEF Inv
<1>4. QED
  BY <1>2, <1>3

\* Nothing happens.
LEMMA StutterStep == Inv /\ UNCHANGED vars => Inv'
<1> SUFFICES ASSUME Inv, UNCHANGED vars PROVE Inv'
  OBVIOUS
<1>1. TypeOK /\ TablesInv /\ AnswerInv
  BY DEF Inv
<1>2. pc' = pc /\ UNCHANGED <<tables, target, choice, answer>>
  BY DEF vars
<1>3. TypeOK'
  BY <1>1, <1>2 DEF TypeOK, tables, target, choice, answer, IsPubkey
<1>4. TablesInv'
  BY <1>1, <1>2, TablesStable
<1>5. AnswerInv'
  BY <1>1, <1>2, ChecksStable DEF AnswerInv, answer
<1>6. QED
  BY <1>3, <1>4, <1>5 DEF Inv

\* The invariant holds in every reachable state.
THEOREM Invariance == Spec => []Inv
<1>1. Inv /\ [Next]_vars => Inv'
  BY ReadStep, SortStep, HandlerStep, KnownStep, ConfigStep, CheckStep, StutterStep DEF Next
<1>2. QED
  BY InitInv, <1>1, PTL DEF Spec

\* Handlers keep their types (TypeOK), whatever the file.
THEOREM TypeCorrect == Spec => []TypeOK
<1>1. Inv => TypeOK
  BY DEF Inv
<1>2. QED
  BY Invariance, <1>1, PTL
-----------------------------------------------------------------------------
(***************************************************************************)
(* The searches, read as questions about the lines of the file.            *)
(***************************************************************************)

\* A line found: it belongs to the table, has the lookup, and is for the host.
Hit(line, marked, lookup) ==
    /\ Belongs(line, marked)
    /\ Prepared(line).lookup = lookup
    /\ host_matched(line.hosts, host, port)

\* contains_entry answers whether the file has such a line.
LEMMA SearchLines ==
    ASSUME Inv, pc # "read", NEW lookup \in LookupKey,
           NEW table \in Seq(Entry), NEW marked, InOrder(table), Stored(table, marked, Len(file))
    PROVE  contains_entry(table, lookup) <=> \E k \in DOMAIN file : Hit(file[k], marked, lookup)
<1>1. TypeOK /\ file \in Seq(Line \cup {NULL}) /\ DOMAIN file = 1..Len(file)
  BY FilesAssumption DEF Inv, TypeOK
<1>2. \A k \in DOMAIN file : Belongs(file[k], marked) => Prepared(file[k]).hosts = file[k].hosts
  BY <1>1, KeptIsLine, PreparedType DEF Belongs
<1>3. contains_entry(table, lookup) <=>
          \E i \in DOMAIN table :
              table[i].lookup = lookup /\ host_matched(table[i].hosts, host, port)
  BY SearchFinds
<1>4. ASSUME NEW i \in DOMAIN table,
             table[i].lookup = lookup, host_matched(table[i].hosts, host, port)
      PROVE  \E k \in DOMAIN file : Hit(file[k], marked, lookup)
  <2>1. PICK k \in 1..Len(file) : Belongs(file[k], marked) /\ table[i] = Prepared(file[k])
    BY DEF Stored
  <2>2. QED
    BY <1>1, <1>2, <1>4, <2>1 DEF Hit
<1>5. ASSUME NEW k \in DOMAIN file, Hit(file[k], marked, lookup)
      PROVE  \E i \in DOMAIN table :
                 table[i].lookup = lookup /\ host_matched(table[i].hosts, host, port)
  <2>1. PICK i \in DOMAIN table : table[i] = Prepared(file[k])
    BY <1>1, <1>5 DEF Stored, Hit
  <2>2. QED
    BY <1>2, <1>5, <2>1 DEF Hit
<1>6. QED
  BY <1>3, <1>4, <1>5

\* Both tables, once they are sorted.
LEMMA SortedTables ==
    ASSUME Inv, pc # "read"
    PROVE  /\ trusted \in Seq(Entry) /\ InOrder(trusted) /\ Stored(trusted, FALSE, Len(file))
           /\ revoked \in Seq(Entry) /\ InOrder(revoked) /\ Stored(revoked, TRUE, Len(file))
  BY DEF Inv, TypeOK, TablesInv

\* Two pubkeys are looked up as one when the algorithm and the digest are.
LEMMA PubkeyInjective ==
    ASSUME NEW a, NEW b, NEW d, NEW e
    PROVE  Pubkey(a, d) = Pubkey(b, e) <=> a = b /\ d = e
  BY DEF Pubkey

\* What a key is made of.
LEMMA KeyType ==
    ASSUME NEW key \in Key
    PROVE  /\ key.alg \in 0..7 /\ key.digest \in Digest
           /\ from(key.alg) \in 0..7 /\ from(key.alg) \in SigAlg
           /\ Pubkey(from(key.alg), key.digest) \in LookupKey
           /\ Ca(key.digest) \in LookupKey
<1>1. key.alg \in 0..7 /\ key.digest \in Digest
  BY DEF Key
<1>2. from(key.alg) \in SigAlg /\ from(key.alg) \in 0..7
  BY <1>1, FromType DEF SigAlg
<1>3. QED
  BY <1>1, <1>2, LookupType

\* Membership in Lines, line by line.
LEMMA LinesOf ==
    ASSUME NEW marker, NEW line
    PROVE  line \in Lines(marker) <=>
               \E k \in DOMAIN file :
                   /\ line = file[k] /\ file[k] # NULL /\ file[k].marker = marker
                   /\ host_matched(file[k].hosts, host, port)
  BY DEF Lines

\* The search in the revoked table tells whether the key is revoked.
LEMMA RevokedFound ==
    ASSUME Inv, pc # "read", NEW key \in Key
    PROVE  contains_entry(revoked, Pubkey(from(key.alg), key.digest)) <=> Revoked(key)
<1> DEFINE lookup == Pubkey(from(key.alg), key.digest)
<1>1. contains_entry(revoked, lookup) <=> \E k \in DOMAIN file : Hit(file[k], TRUE, lookup)
  BY KeyType, SearchLines, SortedTables
<1>2. ASSUME NEW k \in DOMAIN file
      PROVE  Hit(file[k], TRUE, lookup) <=>
                 /\ file[k] # NULL /\ file[k].marker = "revoked"
                 /\ host_matched(file[k].hosts, host, port)
                 /\ SameKey(file[k].key, key)
  <2>1. ASSUME file[k] # NULL, file[k].marker = "revoked"
        PROVE  /\ Belongs(file[k], TRUE)
               /\ Prepared(file[k]).lookup = lookup <=> SameKey(file[k].key, key)
    <3>1. Kept(file[k])
      BY <2>1 DEF Kept
    <3>2. file[k] \in Line
      BY <3>1, KeptIsLine DEF Inv
    <3>3. Prepared(file[k]).lookup = Pubkey(from(file[k].key.alg), file[k].key.digest)
      BY <2>1, <3>2, PreparedType
    <3>4. QED
      BY <2>1, <3>1, <3>3, PubkeyInjective DEF Belongs, SameKey
  <2>2. Belongs(file[k], TRUE) => file[k] # NULL /\ file[k].marker = "revoked"
    BY DEF Belongs, Kept
  <2>3. QED
    BY <2>1, <2>2 DEF Hit
<1>3. Revoked(key) <=>
          \E k \in DOMAIN file :
              /\ file[k] # NULL /\ file[k].marker = "revoked"
              /\ host_matched(file[k].hosts, host, port)
              /\ SameKey(file[k].key, key)
  BY LinesOf DEF Revoked
<1>4. QED
  BY <1>1, <1>2, <1>3

\* The search in the trusted table tells whether the key is listed.
LEMMA ListedFound ==
    ASSUME Inv, pc # "read", NEW key \in Key, from(key.alg) # Other
    PROVE  contains_entry(trusted, Pubkey(from(key.alg), key.digest)) <=> Listed(key)
<1> DEFINE lookup == Pubkey(from(key.alg), key.digest)
<1>1. contains_entry(trusted, lookup) <=> \E k \in DOMAIN file : Hit(file[k], FALSE, lookup)
  BY KeyType, SearchLines, SortedTables
<1>2. ASSUME NEW k \in DOMAIN file
      PROVE  Hit(file[k], FALSE, lookup) <=>
                 /\ file[k] # NULL /\ file[k].marker = "none"
                 /\ host_matched(file[k].hosts, host, port)
                 /\ SameKey(file[k].key, key)
  <2>1. ASSUME file[k] # NULL, file[k].marker = "none", SameKey(file[k].key, key)
        PROVE  Belongs(file[k], FALSE) /\ Prepared(file[k]).lookup = lookup
    <3>1. Kept(file[k])
      BY <2>1 DEF Kept, SameKey
    <3>2. file[k] \in Line
      BY <3>1, KeptIsLine DEF Inv
    <3>3. QED
      BY <2>1, <3>1, <3>2, PreparedType DEF Belongs, SameKey
  <2>2. ASSUME Belongs(file[k], FALSE), Prepared(file[k]).lookup = lookup
        PROVE  file[k] # NULL /\ file[k].marker = "none" /\ SameKey(file[k].key, key)
    <3>1. file[k] \in Line /\ file[k] # NULL /\ file[k].marker # "revoked"
      BY <2>2, KeptIsLine DEF Inv, Belongs, Kept
    <3>2. file[k].marker # "ca"
      <4>1. lookup[1] = 1 /\ Ca(file[k].key.digest)[1] = 2
        BY DEF Pubkey, Ca
      <4>2. QED
        BY <2>2, <3>1, <4>1, PreparedType
    <3>3. Prepared(file[k]).lookup = Pubkey(from(file[k].key.alg), file[k].key.digest)
      BY <3>1, <3>2, PreparedType
    <3>4. file[k].marker = "none"
      BY <3>1, <3>2, LineType
    <3>5. from(file[k].key.alg) = from(key.alg) /\ file[k].key.digest = key.digest
      BY <2>2, <3>3 DEF Pubkey
    <3>6. QED
      BY <3>1, <3>4, <3>5 DEF SameKey
  <2>3. QED
    BY <2>1, <2>2 DEF Hit
<1>3. Listed(key) <=>
          \E k \in DOMAIN file :
              /\ file[k] # NULL /\ file[k].marker = "none"
              /\ host_matched(file[k].hosts, host, port)
              /\ SameKey(file[k].key, key)
  BY LinesOf DEF Listed
<1>4. QED
  BY <1>1, <1>2, <1>3

\* The search for the signing key tells whether it is an authority.
LEMMA AuthorityFound ==
    ASSUME Inv, pc # "read", NEW key \in Key
    PROVE  contains_entry(trusted, Ca(key.digest)) <=> Authority(key)
<1> DEFINE lookup == Ca(key.digest)
<1>1. contains_entry(trusted, lookup) <=> \E k \in DOMAIN file : Hit(file[k], FALSE, lookup)
  BY KeyType, SearchLines, SortedTables
<1>2. ASSUME NEW k \in DOMAIN file
      PROVE  Hit(file[k], FALSE, lookup) <=>
                 /\ file[k] # NULL /\ file[k].marker = "ca"
                 /\ host_matched(file[k].hosts, host, port)
                 /\ file[k].key.digest = key.digest
  <2>1. ASSUME file[k] # NULL, file[k].marker = "ca"
        PROVE  /\ Belongs(file[k], FALSE)
               /\ Prepared(file[k]).lookup = lookup <=> file[k].key.digest = key.digest
    <3>1. Kept(file[k])
      BY <2>1 DEF Kept
    <3>2. file[k] \in Line
      BY <3>1, KeptIsLine DEF Inv
    <3>3. Prepared(file[k]).lookup = Ca(file[k].key.digest)
      BY <2>1, <3>2, PreparedType
    <3>4. QED
      BY <2>1, <3>1, <3>3 DEF Belongs, Ca
  <2>2. ASSUME Belongs(file[k], FALSE), Prepared(file[k]).lookup = lookup
        PROVE  file[k] # NULL /\ file[k].marker = "ca"
    <3>1. file[k] \in Line /\ file[k] # NULL /\ file[k].marker # "revoked"
      BY <2>2, KeptIsLine DEF Inv, Belongs, Kept
    <3>2. file[k].marker # "ca" =>
              Prepared(file[k]).lookup = Pubkey(from(file[k].key.alg), file[k].key.digest)
      BY <3>1, PreparedType
    <3>3. Pubkey(from(file[k].key.alg), file[k].key.digest)[1] = 1 /\ lookup[1] = 2
      BY DEF Pubkey, Ca
    <3>4. QED
      BY <2>2, <3>1, <3>2, <3>3
  <2>3. QED
    BY <2>1, <2>2 DEF Hit
<1>3. Authority(key) <=>
          \E k \in DOMAIN file :
              /\ file[k] # NULL /\ file[k].marker = "ca"
              /\ host_matched(file[k].hosts, host, port)
              /\ file[k].key.digest = key.digest
  BY LinesOf DEF Authority
<1>4. QED
  BY <1>1, <1>2, <1>3

\* has_pubkeys tells whether the file has a key of a known algorithm for the host.
LEMMA PubkeysFound ==
    ASSUME Inv, pc # "read"
    PROVE  has_pubkeys <=> \E line \in Lines("none") : from(line.key.alg) # Other
<1>1. TypeOK /\ file \in Seq(Line \cup {NULL}) /\ DOMAIN file = 1..Len(file)
  BY FilesAssumption DEF Inv, TypeOK
<1>2. ASSUME has_pubkeys PROVE \E line \in Lines("none") : from(line.key.alg) # Other
  <2>1. PICK i \in DOMAIN trusted :
            IsPubkey(trusted[i]) /\ host_matched(trusted[i].hosts, host, port)
    BY <1>2 DEF has_pubkeys
  <2>2. PICK k \in DOMAIN file : Belongs(file[k], FALSE) /\ trusted[i] = Prepared(file[k])
    BY <1>1, SortedTables DEF Stored
  <2>3. file[k] \in Line
    BY <1>1, <2>2, KeptIsLine DEF Belongs
  <2>4. file[k].marker = "none" /\ file[k] # NULL /\ from(file[k].key.alg) # Other
    BY <2>1, <2>2, <2>3, PubkeysAreKnown DEF Belongs, Kept
  <2>5. host_matched(file[k].hosts, host, port)
    BY <2>1, <2>2, <2>3, PreparedType
  <2>6. QED
    BY <2>4, <2>5, LinesOf
<1>3. ASSUME NEW line \in Lines("none"), from(line.key.alg) # Other PROVE has_pubkeys
  <2>1. PICK k \in DOMAIN file :
            /\ line = file[k] /\ file[k] # NULL /\ file[k].marker = "none"
            /\ host_matched(file[k].hosts, host, port)
    BY LinesOf
  <2>2. Belongs(file[k], FALSE)
    BY <1>3, <2>1 DEF Belongs, Kept
  <2>3. PICK i \in DOMAIN trusted : trusted[i] = Prepared(file[k])
    BY <1>1, <2>2, SortedTables DEF Stored
  <2>4. file[k] \in Line
    BY <1>1, <2>2, KeptIsLine DEF Belongs
  <2>5. /\ trusted[i].hosts = file[k].hosts
        /\ trusted[i].lookup = Pubkey(from(file[k].key.alg), file[k].key.digest)
    BY <2>1, <2>3, <2>4, PreparedType
  <2>6. IsPubkey(trusted[i])
    BY <2>5 DEF IsPubkey, Pubkey
  <2>7. QED
    BY <2>1, <2>5, <2>6 DEF has_pubkeys
<1>4. QED
  BY <1>2, <1>3

-----------------------------------------------------------------------------
(***************************************************************************)
(* What the checks answer, in terms of the lines.                          *)
(***************************************************************************)

\* The file knows the host by a key of a supported algorithm.
HostIsKnown == \E line \in Lines("none") : from(line.key.alg) # Other

\* check_public_key: revoked, else listed, else known or not.
LEMMA KeyAnswer ==
    ASSUME Inv, pc # "read", NEW key \in Key
    PROVE  check_public_key(key) =
               IF Revoked(key) THEN "Revoked"
               ELSE IF Listed(key) THEN "Found"
               ELSE IF HostIsKnown THEN "KeyMismatch" ELSE "NotFound"
<1>1. contains_entry(revoked, Pubkey(from(key.alg), key.digest)) <=> Revoked(key)
  BY RevokedFound
<1>2. /\ from(key.alg) # Other
      /\ contains_entry(trusted, Pubkey(from(key.alg), key.digest))
      <=> Listed(key)
  BY ListedFound DEF Listed
<1>3. has_pubkeys <=> HostIsKnown
  BY PubkeysFound DEF HostIsKnown
<1>4. QED
  BY <1>1, <1>2, <1>3 DEF check_public_key

\* A certificate's parts.
LEMMA CertType ==
    ASSUME NEW cert \in Certs
    PROVE  cert.is_host \in BOOLEAN /\ cert.critical \in BOOLEAN /\ cert.ca \in Key /\ cert.key \in Key
<1>1. cert \in Cert
  BY CertsAssumption
<1>2. QED
  BY <1>1 DEF Cert

\* check_cert, for a certificate that applies: revoked, else no authority's, else
\* valid, else what its own key is worth.
LEMMA CertAnswer ==
    ASSUME Inv, pc # "read", NEW cert \in Certs, NEW valid \in BOOLEAN
    PROVE  /\ Applies(cert) =>
                  check_cert(cert, valid) =
                      IF Revoked(cert.ca) \/ Revoked(cert.key) THEN "Revoked"
                      ELSE IF ~Authority(cert.ca) THEN "CertNotVerified"
                      ELSE IF valid THEN "Found" ELSE check_public_key(cert.key)
           /\ ~Applies(cert) =>
                  check_cert(cert, valid) \in
                      {"CertNotVerified", "UnknownCriticalOptions", "PrincipalMismatch"}
<1>1. /\ contains_entry(revoked, Pubkey(from(cert.ca.alg), cert.ca.digest)) <=> Revoked(cert.ca)
      /\ contains_entry(revoked, Pubkey(from(cert.key.alg), cert.key.digest)) <=> Revoked(cert.key)
      /\ contains_entry(trusted, Ca(cert.ca.digest)) <=> Authority(cert.ca)
  BY CertType, RevokedFound, AuthorityFound
<1> DEFINE wrong == /\ cert.principals # <<>>
                    /\ \A i \in DOMAIN cert.principals : host \notin cert.principals[i]
<1>2. check_cert(cert, valid) =
          IF ~cert.is_host THEN "CertNotVerified"
          ELSE IF cert.critical THEN "UnknownCriticalOptions"
          ELSE IF wrong THEN "PrincipalMismatch"
          ELSE IF Revoked(cert.ca) \/ Revoked(cert.key) THEN "Revoked"
          ELSE IF ~Authority(cert.ca) THEN "CertNotVerified"
          ELSE IF valid THEN "Found" ELSE check_public_key(cert.key)
  BY <1>1 DEF check_cert
<1>3. Applies(cert) <=> cert.is_host /\ ~cert.critical /\ ~wrong
  BY DEF Applies
<1> HIDE DEF wrong
<1>4. QED
  BY <1>2, <1>3

\* Which of the two was shown.
LEMMA Answered ==
    ASSUME Inv
    PROVE  /\ result # NULL => pc = "done"
           /\ ShowedKey => shown.key \in Key /\ result = check_public_key(shown.key)
           /\ ShowedCert => /\ shown.cert \in Certs /\ shown.valid \in BOOLEAN
                            /\ result = check_cert(shown.cert, shown.valid)
           /\ pc = "done" => (ShowedKey /\ ~ShowedCert) \/ (ShowedCert /\ ~ShowedKey)
<1>1. AnswerInv
  BY DEF Inv
<1>2. CASE pc # "done"
  BY <1>1, <1>2 DEF AnswerInv, ShowedKey, ShowedCert
<1>3. ASSUME NEW keys \in Servers, NEW key \in keys, pc = "done",
             shown = [keys |-> keys, key |-> key], result = check_public_key(key)
      PROVE  /\ ShowedKey /\ ~ShowedCert /\ shown.key \in Key
             /\ result = check_public_key(shown.key)
  BY <1>3, ServersAssumption DEF ShowedKey, ShowedCert
<1>4. ASSUME NEW cert \in Certs, NEW valid \in BOOLEAN, pc = "done",
             shown = [cert |-> cert, valid |-> valid], result = check_cert(cert, valid)
      PROVE  /\ ShowedCert /\ ~ShowedKey /\ shown.cert \in Certs /\ shown.valid \in BOOLEAN
             /\ result = check_cert(shown.cert, shown.valid)
  BY <1>4 DEF ShowedKey, ShowedCert
<1>5. QED
  BY <1>1, <1>2, <1>3, <1>4 DEF AnswerInv

-----------------------------------------------------------------------------
(***************************************************************************)
(* Places in an ordered set of numbers.                                    *)
(***************************************************************************)

\* The members of S up to x, and the place of x among them.
Upto(S, x) == {y \in S : y <= x}
Rank(S, x) == Cardinality(Upto(S, x))

\* A rank is a number, none before the first number, all at the last; it does
\* not decrease, and a member has a rank of its own.
LEMMA RankType ==
    ASSUME NEW n \in Nat, NEW S, S \subseteq 1..n, NEW x \in Int
    PROVE  /\ IsFiniteSet(S) /\ IsFiniteSet(Upto(S, x))
           /\ Rank(S, x) \in Nat
           /\ Upto(S, 0) = {} /\ Rank(S, 0) = 0
           /\ Upto(S, n) = S
<1>1. IsFiniteSet(1..n)
  BY FS_Interval
<1>2. IsFiniteSet(S)
  BY <1>1, FS_Subset
<1>3. Upto(S, x) \subseteq S
  BY DEF Upto
<1>4. IsFiniteSet(Upto(S, x))
  BY <1>2, <1>3, FS_Subset
<1>5. Rank(S, x) \in Nat
  BY <1>4, FS_CardinalityType DEF Rank
<1>6. Upto(S, 0) = {} /\ Upto(S, n) = S
  <2>1. \A z \in S : z \in Int /\ ~(z <= 0) /\ z <= n
    OBVIOUS
  <2>2. QED
    BY <2>1 DEF Upto
<1>7. Rank(S, 0) = 0
  BY <1>6, FS_EmptySet DEF Rank
<1>8. QED
  BY <1>2, <1>4, <1>5, <1>6, <1>7

\* The next member has the next rank.
LEMMA RankNext ==
    ASSUME NEW n \in Nat, NEW S, S \subseteq 1..n, NEW x \in Int, NEW y \in S,
           x < y, \A z \in S : ~(x < z /\ z < y)
    PROVE  Upto(S, y) = Upto(S, x) \cup {y} /\ Rank(S, y) = Rank(S, x) + 1
<1>1. Upto(S, y) = Upto(S, x) \cup {y} /\ y \notin Upto(S, x)
  <2>1. \A z \in S : (z <= y <=> z <= x \/ z = y) /\ y \in Int /\ ~(y <= x)
    OBVIOUS
  <2>2. QED
    BY <2>1 DEF Upto
<1>2. IsFiniteSet(Upto(S, x))
  BY RankType
<1>3. QED
  BY <1>1, <1>2, FS_AddElement DEF Rank

\* Nothing is counted where there is no member.
LEMMA RankSame ==
    ASSUME NEW n \in Nat, NEW S, S \subseteq 1..n, NEW x \in Int, NEW y \in Int,
           x <= y, \A z \in S : ~(x < z /\ z <= y)
    PROVE  Upto(S, y) = Upto(S, x) /\ Rank(S, y) = Rank(S, x)
<1>1. Upto(S, y) = Upto(S, x)
  <2>1. \A z \in S : z <= y <=> z <= x
    OBVIOUS
  <2>2. QED
    BY <2>1 DEF Upto
<1>2. QED
  BY <1>1 DEF Rank

\* Ranks do not decrease, and the rank of a member is at least one.
LEMMA RankBounds ==
    ASSUME NEW n \in Nat, NEW S, S \subseteq 1..n, NEW x \in Int, NEW y \in S, y <= x
    PROVE  Rank(S, y) >= 1 /\ Rank(S, y) <= Rank(S, x) /\ Rank(S, x) <= Cardinality(S)
<1>1. y \in Int
  OBVIOUS
<1>2. /\ IsFiniteSet(S) /\ IsFiniteSet(Upto(S, y)) /\ IsFiniteSet(Upto(S, x))
      /\ Rank(S, y) \in Nat
  BY <1>1, RankType
<1>3. Upto(S, y) \subseteq Upto(S, x) /\ Upto(S, x) \subseteq S /\ y \in Upto(S, y)
  <2>1. y <= y /\ \A z \in S : z <= y => z <= x
    BY <1>1
  <2>2. QED
    BY <2>1 DEF Upto
<1>4. Rank(S, y) # 0
  BY <1>2, <1>3, FS_EmptySet DEF Rank
<1>5. Rank(S, y) <= Rank(S, x) /\ Rank(S, x) <= Cardinality(S)
  BY <1>2, <1>3, FS_Subset DEF Rank
<1>6. QED
  BY <1>2, <1>4, <1>5

\* In an interval a number is its own rank.
LEMMA RankOfAll ==
    ASSUME NEW n \in Nat, NEW x \in 0..n
    PROVE  Rank(1..n, x) = x
<1>1. Upto(1..n, x) = 1..x
  BY DEF Upto
<1>2. Cardinality(1..x) = x
  BY FS_Interval
<1>3. QED
  BY <1>1, <1>2 DEF Rank

-----------------------------------------------------------------------------
(***************************************************************************)
(* The order collected.                                                    *)
(***************************************************************************)

\* The places of config.key that are not of a known algorithm.
Besides(K) == {q \in DOMAIN ConfigKey : from(ConfigKey[q]) \notin K}

\* s is the members of K up to x, in order, then what config.key has at the
\* places R up to c; none of the latter before all of the former.
Laid(s, K, x, R, c) ==
    /\ c > 0 => Upto(K, x) = K
    /\ Len(s) = Rank(K, x) + Rank(R, c)
    /\ \A j \in 1..Rank(K, x) : s[j] \in K
    /\ \A a \in Upto(K, x) : s[Rank(K, a)] = a
    /\ \A q \in Upto(R, c) : s[Cardinality(K) + Rank(R, q)] = ConfigKey[q]

\* Nothing is collected at first.
LEMMA LaidNothing ==
    ASSUME NEW n \in Nat, NEW K, K \subseteq 1..6, NEW R, R \subseteq 1..n
    PROVE  Laid(<<>>, K, 0, R, 0)
<1>1. 6 \in Nat /\ 0 \in Int
  OBVIOUS
<1>2. Upto(K, 0) = {} /\ Rank(K, 0) = 0
  BY <1>1, RankType
<1>3. Upto(R, 0) = {} /\ Rank(R, 0) = 0
  BY <1>1, RankType
<1>4. QED
  BY <1>2, <1>3 DEF Laid

\* One more known algorithm.
LEMMA LaidKnown ==
    ASSUME NEW n \in Nat, NEW K, K \subseteq 1..6, NEW R, R \subseteq 1..n,
           NEW s \in Seq(Algorithm), NEW x \in 0..6, NEW c \in 0..n, Laid(s, K, x, R, c),
           NEW y \in K, x < y, \A z \in K : ~(x < z /\ z < y)
    PROVE  c = 0 /\ Laid(Append(s, y), K, y, R, 0)
<1>1. y \in 1..6 /\ y \in Algorithm /\ x \in Int
  BY DEF Algorithm
<1>2. y \notin Upto(K, x)
  BY <1>1 DEF Upto
<1>3. c = 0
  BY <1>2 DEF Laid
<1>4. /\ Upto(K, y) = Upto(K, x) \cup {y} /\ Rank(K, y) = Rank(K, x) + 1
      /\ Rank(K, x) \in Nat /\ Upto(R, 0) = {} /\ Rank(R, 0) = 0
  <2>1. 6 \in Nat /\ 0 \in Int
    OBVIOUS
  <2>2. Upto(K, y) = Upto(K, x) \cup {y} /\ Rank(K, y) = Rank(K, x) + 1
    BY <1>1, <2>1, RankNext
  <2>3. Rank(K, x) \in Nat
    BY <1>1, <2>1, RankType
  <2>4. Upto(R, 0) = {} /\ Rank(R, 0) = 0
    BY <2>1, RankType
  <2>5. QED
    BY <2>2, <2>3, <2>4
<1>5. Len(s) = Rank(K, x)
  BY <1>3, <1>4 DEF Laid
<1>6. /\ Len(Append(s, y)) = Rank(K, y)
      /\ \A j \in 1..Rank(K, x) : Append(s, y)[j] = s[j]
      /\ Append(s, y)[Rank(K, y)] = y
  BY <1>1, <1>4, <1>5
<1>7. \A j \in 1..Rank(K, y) : Append(s, y)[j] \in K
  <2> SUFFICES ASSUME NEW j \in 1..Rank(K, y) PROVE Append(s, y)[j] \in K
    OBVIOUS
  <2>1. j \in 1..Rank(K, x) \/ j = Rank(K, y)
    BY <1>4
  <2>2. j \in 1..Rank(K, x) => Append(s, y)[j] \in K
    BY <1>6 DEF Laid
  <2>3. j = Rank(K, y) => Append(s, y)[j] \in K
    BY <1>6
  <2>4. QED
    BY <2>1, <2>2, <2>3
<1>8. \A a \in Upto(K, y) : Append(s, y)[Rank(K, a)] = a
  <2> SUFFICES ASSUME NEW a \in Upto(K, y) PROVE Append(s, y)[Rank(K, a)] = a
    OBVIOUS
  <2>1. CASE a \in Upto(K, x)
    <3>1. a \in K /\ a <= x /\ a \in Int
      BY <2>1 DEF Upto
    <3>2. Rank(K, a) >= 1 /\ Rank(K, a) <= Rank(K, x)
      BY <1>1, <3>1, RankBounds
    <3>3. Rank(K, a) \in Nat
      BY <3>1, RankType
    <3>4. Rank(K, a) \in 1..Rank(K, x)
      BY <1>4, <3>2, <3>3
    <3>5. s[Rank(K, a)] = a
      BY <2>1 DEF Laid
    <3>6. QED
      BY <1>6, <3>4, <3>5
  <2>2. CASE a = y
    BY <1>6, <2>2
  <2>3. QED
    BY <1>4, <2>1, <2>2
<1>9. ~(0 > 0) /\ Len(Append(s, y)) = Rank(K, y) + Rank(R, 0)
  BY <1>4, <1>6
<1>10. Laid(Append(s, y), K, y, R, 0)
  BY <1>4, <1>7, <1>8, <1>9 DEF Laid
<1>11. QED
  BY <1>3, <1>10

\* One more algorithm of config.key, once all the known ones are there.
LEMMA LaidBesides ==
    ASSUME NEW n \in Nat, NEW K, K \subseteq 1..6, NEW R, R \subseteq 1..n,
           NEW s \in Seq(Algorithm), NEW x \in 0..6, NEW c \in 0..n, Laid(s, K, x, R, c),
           Upto(K, x) = K, ConfigKey \in [1..n -> Algorithm],
           NEW d \in R, c < d, \A z \in R : ~(c < z /\ z < d)
    PROVE  Laid(Append(s, ConfigKey[d]), K, x, R, d)
<1> DEFINE v == ConfigKey[d]
<1>1. d \in 1..n /\ d \in Int /\ c \in Int /\ x \in Int /\ v \in Algorithm
  OBVIOUS
<1>2. /\ Upto(R, d) = Upto(R, c) \cup {d} /\ Rank(R, d) = Rank(R, c) + 1
      /\ Rank(R, c) \in Nat
  <2>1. Upto(R, d) = Upto(R, c) \cup {d} /\ Rank(R, d) = Rank(R, c) + 1
    BY <1>1, RankNext
  <2>2. Rank(R, c) \in Nat
    BY <1>1, RankType
  <2>3. QED
    BY <2>1, <2>2
<1>3. Rank(K, x) \in Nat /\ Rank(K, x) = Cardinality(K)
  <2>1. Rank(K, x) \in Nat
    <3>1. 6 \in Nat
      OBVIOUS
    <3>2. QED
      BY <1>1, <3>1, RankType
  <2>2. QED
    BY <2>1 DEF Rank
<1>4. Len(s) = Rank(K, x) + Rank(R, c)
  BY DEF Laid
<1> HIDE DEF v
<1>5. /\ Len(Append(s, v)) = Rank(K, x) + Rank(R, d)
      /\ \A j \in 1..(Rank(K, x) + Rank(R, c)) : Append(s, v)[j] = s[j]
      /\ Append(s, v)[Rank(K, x) + Rank(R, d)] = v
  BY <1>1, <1>2, <1>3, <1>4
<1>6. \A j \in 1..Rank(K, x) : Append(s, v)[j] \in K
  <2> SUFFICES ASSUME NEW j \in 1..Rank(K, x) PROVE Append(s, v)[j] \in K
    OBVIOUS
  <2>1. j \in 1..(Rank(K, x) + Rank(R, c)) /\ s[j] \in K
    BY <1>2, <1>3 DEF Laid
  <2>2. QED
    BY <1>5, <2>1
<1>7. \A a \in Upto(K, x) : Append(s, v)[Rank(K, a)] = a
  <2> SUFFICES ASSUME NEW a \in Upto(K, x) PROVE Append(s, v)[Rank(K, a)] = a
    OBVIOUS
  <2>1. a \in K /\ a <= x /\ a \in Int
    BY DEF Upto
  <2>2. Rank(K, a) >= 1 /\ Rank(K, a) <= Rank(K, x)
    BY <1>1, <2>1, RankBounds
  <2>3. Rank(K, a) \in Nat
    BY <2>1, RankType
  <2>4. Rank(K, a) \in 1..(Rank(K, x) + Rank(R, c))
    BY <1>2, <1>3, <2>2, <2>3
  <2>5. s[Rank(K, a)] = a
    BY DEF Laid
  <2>6. QED
    BY <1>5, <2>4, <2>5
<1>8. \A q \in Upto(R, d) : Append(s, v)[Cardinality(K) + Rank(R, q)] = ConfigKey[q]
  <2> SUFFICES ASSUME NEW q \in Upto(R, d)
               PROVE  Append(s, v)[Cardinality(K) + Rank(R, q)] = ConfigKey[q]
    OBVIOUS
  <2>1. CASE q \in Upto(R, c)
    <3>1. q \in R /\ q <= c /\ q \in Int
      BY <2>1 DEF Upto
    <3>2. Rank(R, q) >= 1 /\ Rank(R, q) <= Rank(R, c)
      BY <1>1, <3>1, RankBounds
    <3>3. Rank(R, q) \in Nat
      BY <3>1, RankType
    <3>4. Cardinality(K) + Rank(R, q) \in 1..(Rank(K, x) + Rank(R, c))
      BY <1>2, <1>3, <3>2, <3>3
    <3>5. s[Cardinality(K) + Rank(R, q)] = ConfigKey[q]
      BY <2>1 DEF Laid
    <3>6. QED
      BY <1>5, <3>4, <3>5
  <2>2. CASE q = d
    BY <1>3, <1>5, <2>2 DEF v
  <2>3. QED
    BY <1>2, <2>1, <2>2
<1>9. Laid(Append(s, v), K, x, R, d)
  BY <1>5, <1>6, <1>7, <1>8 DEF Laid
<1>10. QED
  BY <1>9 DEF v

\* Nothing is left of config.key.
LEMMA LaidEnd ==
    ASSUME NEW n \in Nat, NEW K, K \subseteq 1..6, NEW R, R \subseteq 1..n,
           NEW s, NEW x \in 0..6, NEW c \in 0..n, Laid(s, K, x, R, c),
           Upto(K, x) = K, \A z \in R : ~(c < z)
    PROVE  Laid(s, K, x, R, n)
<1>1. Upto(R, n) = Upto(R, c) /\ Rank(R, n) = Rank(R, c)
  <2>1. c \in Int /\ n \in Int /\ c <= n /\ \A z \in R : ~(c < z /\ z <= n)
    OBVIOUS
  <2>2. QED
    BY <2>1, RankSame
<1>2. QED
  BY <1>1 DEF Laid

\* With no known algorithm, config.key is laid out as it is.
LEMMA LaidAsIs ==
    ASSUME NEW n \in Nat, ConfigKey \in [1..n -> Algorithm], Len(ConfigKey) = n
    PROVE  Laid(ConfigKey, {}, 0, 1..n, n)
<1>1. Upto({}, 0) = {} /\ Rank({}, 0) = 0 /\ Cardinality({}) = 0
  BY FS_EmptySet DEF Upto, Rank
<1>2. Rank(1..n, n) = n /\ \A q \in Upto(1..n, n) : Rank(1..n, q) = q /\ q \in Int
  BY RankOfAll DEF Upto
<1>3. QED
  BY <1>1, <1>2 DEF Laid

-----------------------------------------------------------------------------
(***************************************************************************)
(* The algorithms asked for: what the two loops of the iterator collect.   *)
(***************************************************************************)

\* The algorithm yielded last, 0 before the first.
Latest == IF prev = Other THEN 0 ELSE prev

\* What is to come in the trusted table: no algorithm before the last one, and
\* every known one after it.
Walked ==
    /\ \A k \in at..Len(trusted) : IsPubkey(trusted[k]) => Latest <= trusted[k].lookup[2]
    /\ \A a \in known : Latest < a =>
           \E k \in at..Len(trusted) : IsPubkey(trusted[k]) /\ trusted[k].lookup[2] = a

\* config.key without its first c algorithms.
Remaining(c) == SubSeq(ConfigKey, c + 1, Len(ConfigKey))

Collecting ==
    \E c \in 0..Len(ConfigKey) : left = Remaining(c) /\ Laid(algs, known, Latest, Besides(known), c)

Collected ==
    \E x \in 0..6 : Upto(known, x) = known /\ Laid(algs, known, x, Besides(known), Len(ConfigKey))

ChoiceInv ==
    /\ pc \in {"read", "make"} => algs = <<>>
    /\ pc \in {"prefer", "check", "done"} => known = known_public_key_algs(host, port)
    /\ pc = "prefer" => Walked /\ Collecting
    /\ pc \in {"check", "done"} => Collected

\* In the sorted table the pubkeys come first, ordered by algorithm.
LEMMA TableOrder ==
    ASSUME Inv, pc # "read", NEW i \in DOMAIN trusted, NEW j \in DOMAIN trusted,
           i <= j, IsPubkey(trusted[j])
    PROVE  IsPubkey(trusted[i]) /\ trusted[i].lookup[2] <= trusted[j].lookup[2]
<1>1. trusted \in Seq(Entry) /\ InOrder(trusted)
  BY SortedTables
<1>2. \A e \in Entry : e.lookup \in LookupKey
  BY DEF Entry
<1>3. trusted[i].lookup \in LookupKey /\ trusted[j].lookup \in LookupKey
  BY <1>1, <1>2
<1>4. PICK a1 \in {1, 2}, a2 \in 0..7, a3 \in Digest : trusted[i].lookup = <<a1, a2, a3>>
  BY <1>3 DEF LookupKey
<1>5. PICK b1 \in {1, 2}, b2 \in 0..7, b3 \in Digest : trusted[j].lookup = <<b1, b2, b3>>
  BY <1>3 DEF LookupKey
<1>6. b1 = 1
  BY <1>5 DEF IsPubkey
<1>7. CASE i = j
  BY <1>4, <1>5, <1>6, <1>7 DEF IsPubkey
<1>8. CASE i < j
  <2>1. ~Less(trusted[j].lookup, trusted[i].lookup)
    BY <1>1, <1>8 DEF InOrder
  <2>2. ~(b1 < a1) /\ ~(b1 = a1 /\ b2 < a2)
    BY <1>4, <1>5, <2>1 DEF Less
  <2>3. a1 = 1 /\ a2 <= b2
    BY <1>6, <2>2
  <2>4. QED
    BY <1>4, <1>5, <2>3 DEF IsPubkey
<1>9. QED
  <2>1. i \in Int /\ j \in Int
    BY <1>1
  <2>2. QED
    BY <1>7, <1>8, <2>1

\* The known algorithms are algorithms of pubkeys in the table.
LEMMA KnownInTable ==
    ASSUME Inv, NEW h, NEW p
    PROVE  /\ known_public_key_algs(h, p) \subseteq 1..6
           /\ \A a \in known_public_key_algs(h, p) :
                  \E k \in 1..Len(trusted) : IsPubkey(trusted[k]) /\ trusted[k].lookup[2] = a
<1>1. /\ trusted \in Seq(Entry)
      /\ \A i \in DOMAIN trusted : IsPubkey(trusted[i]) => trusted[i].lookup[2] \in SigAlg \ {Other}
  BY DEF Inv, TypeOK
<1>2. \A a \in known_public_key_algs(h, p) :
          \E k \in 1..Len(trusted) : IsPubkey(trusted[k]) /\ trusted[k].lookup[2] = a
  <2> SUFFICES ASSUME NEW a \in known_public_key_algs(h, p)
               PROVE  \E k \in 1..Len(trusted) : IsPubkey(trusted[k]) /\ trusted[k].lookup[2] = a
    OBVIOUS
  <2>1. PICK k \in DOMAIN trusted :
            (\A j \in 1..k : IsPubkey(trusted[j])) /\ trusted[k].lookup[2] = a
    BY DEF known_public_key_algs
  <2>2. k \in 1..Len(trusted) /\ k \in 1..k
    BY <1>1
  <2>3. QED
    BY <2>1, <2>2
<1>3. known_public_key_algs(h, p) \subseteq 1..6
  BY <1>1, <1>2 DEF SigAlg, Other
<1>4. QED
  BY <1>2, <1>3

\* known_public_key_algs collects the supported algorithms of the unmarked lines
\* for the host: no pubkey comes after the first CA, where its loop ends.
LEMMA KnownAreListed ==
    ASSUME Inv, pc # "read"
    PROVE  known_public_key_algs(host, port) = KnownAlgs
<1>1. TypeOK /\ file \in Seq(Line \cup {NULL}) /\ DOMAIN file = 1..Len(file)
  BY FilesAssumption DEF Inv, TypeOK
<1>2. trusted \in Seq(Entry) /\ DOMAIN trusted = 1..Len(trusted)
  BY SortedTables
<1>3. ASSUME NEW a \in known_public_key_algs(host, port) PROVE a \in KnownAlgs
  <2>1. PICK i \in DOMAIN trusted :
            /\ \A j \in 1..i : IsPubkey(trusted[j])
            /\ host_matched(trusted[i].hosts, host, port)
            /\ trusted[i].lookup[2] = a
    BY DEF known_public_key_algs
  <2>2. PICK k \in DOMAIN file : Belongs(file[k], FALSE) /\ trusted[i] = Prepared(file[k])
    BY <1>1, SortedTables DEF Stored
  <2>3. file[k] \in Line
    BY <1>1, <2>2, KeptIsLine DEF Belongs
  <2>4. i \in 1..i
    BY <1>2
  <2>5. IsPubkey(Prepared(file[k]))
    BY <2>1, <2>2, <2>4
  <2>6. file[k].marker = "none" /\ file[k] # NULL /\ from(file[k].key.alg) # Other
    BY <2>2, <2>3, <2>5, PubkeysAreKnown DEF Belongs, Kept
  <2>7. host_matched(file[k].hosts, host, port) /\ a = from(file[k].key.alg)
    BY <2>1, <2>2, <2>3, <2>6, PreparedType DEF Pubkey
  <2>8. file[k] \in Lines("none")
    BY <2>6, <2>7, LinesOf
  <2>9. QED
    BY <2>6, <2>7, <2>8 DEF KnownAlgs
<1>4. ASSUME NEW line \in Lines("none"), from(line.key.alg) # Other
      PROVE  from(line.key.alg) \in known_public_key_algs(host, port)
  <2>1. PICK k \in DOMAIN file :
            /\ line = file[k] /\ file[k] # NULL /\ file[k].marker = "none"
            /\ host_matched(file[k].hosts, host, port)
    BY LinesOf
  <2>2. Belongs(file[k], FALSE)
    BY <1>4, <2>1 DEF Belongs, Kept
  <2>3. PICK i \in DOMAIN trusted : trusted[i] = Prepared(file[k])
    BY <1>1, <2>2, SortedTables DEF Stored
  <2>4. file[k] \in Line
    BY <1>1, <2>2, KeptIsLine DEF Belongs
  <2>5. /\ trusted[i].hosts = file[k].hosts
        /\ trusted[i].lookup = Pubkey(from(file[k].key.alg), file[k].key.digest)
    BY <2>1, <2>3, <2>4, PreparedType
  <2>6. IsPubkey(trusted[i]) /\ trusted[i].lookup[2] = from(line.key.alg)
    BY <2>1, <2>5 DEF IsPubkey, Pubkey
  <2>7. \A j \in 1..i : j \in DOMAIN trusted /\ j <= i
    BY <1>2
  <2>8. \A j \in 1..i : IsPubkey(trusted[j])
    BY <2>6, <2>7, TableOrder
  <2>9. QED
    BY <2>1, <2>5, <2>6, <2>8 DEF known_public_key_algs
<1>5. QED
  BY <1>3, <1>4 DEF KnownAlgs

\* What a sequence has after its first i elements.
LEMMA TailPlaces ==
    ASSUME NEW S, NEW w \in Seq(S), NEW i \in 0..Len(w)
    PROVE  /\ SubSeq(w, i + 1, Len(w)) \in Seq(S)
           /\ Len(SubSeq(w, i + 1, Len(w))) = Len(w) - i
           /\ \A j \in 1..(Len(w) - i) : SubSeq(w, i + 1, Len(w))[j] = w[i + j]
  OBVIOUS

\* config.key, and what is left of it.
LEMMA RemainingPlaces ==
    ASSUME NEW c \in 0..Len(ConfigKey)
    PROVE  /\ Remaining(c) \in Seq(Algorithm) /\ Len(Remaining(c)) = Len(ConfigKey) - c
           /\ \A i \in 1..(Len(ConfigKey) - c) : Remaining(c)[i] = ConfigKey[c + i]
<1>1. ConfigKey \in Seq(Algorithm) /\ Len(ConfigKey) \in Nat
  BY ConfigAssumption
<1>2. QED
  BY <1>1 DEF Remaining

LEMMA RemainingTail ==
    ASSUME NEW c \in 0..Len(ConfigKey), NEW i \in 1..(Len(ConfigKey) - c)
    PROVE  SubSeq(Remaining(c), i + 1, Len(Remaining(c))) = Remaining(c + i)
<1> DEFINE n == Len(ConfigKey)
           s == SubSeq(Remaining(c), i + 1, Len(Remaining(c)))
           t == Remaining(c + i)
<1>1. n \in Nat /\ c + i \in 0..n
  BY ConfigAssumption
<1>2. /\ Remaining(c) \in Seq(Algorithm) /\ Len(Remaining(c)) = n - c
      /\ \A j \in 1..(n - c) : Remaining(c)[j] = ConfigKey[c + j]
  BY RemainingPlaces
<1>3. /\ t \in Seq(Algorithm) /\ Len(t) = n - (c + i)
      /\ \A j \in 1..(n - (c + i)) : t[j] = ConfigKey[(c + i) + j]
  BY <1>1, RemainingPlaces
<1>4. /\ s \in Seq(Algorithm) /\ Len(s) = n - (c + i)
      /\ \A j \in 1..(n - (c + i)) : s[j] = Remaining(c)[i + j]
  <2>1. i \in 0..(n - c) /\ (n - c) - i = n - (c + i)
    BY <1>1
  <2>2. PICK w \in Seq(Algorithm) : w = Remaining(c)
    BY <1>2
  <2>3. i \in 0..Len(w) /\ s = SubSeq(w, i + 1, Len(w)) /\ Len(w) - i = n - (c + i)
    BY <1>2, <2>1, <2>2
  <2>4. /\ SubSeq(w, i + 1, Len(w)) \in Seq(Algorithm)
        /\ Len(SubSeq(w, i + 1, Len(w))) = Len(w) - i
        /\ \A j \in 1..(Len(w) - i) : SubSeq(w, i + 1, Len(w))[j] = w[i + j]
    BY <2>3, TailPlaces
  <2> HIDE DEF s
  <2>5. QED
    BY <2>2, <2>3, <2>4
<1> HIDE DEF n, s, t
<1>5. \A j \in 1..(n - (c + i)) : s[j] = t[j]
  <2> SUFFICES ASSUME NEW j \in 1..(n - (c + i)) PROVE s[j] = t[j]
    OBVIOUS
  <2>1. i + j \in 1..(n - c) /\ c + (i + j) = (c + i) + j
    BY <1>1 DEF n
  <2>2. QED
    BY <1>2, <1>3, <1>4, <2>1
<1>6. s = t
  BY <1>3, <1>4, <1>5
<1>7. QED
  BY <1>6 DEF s, t

\* What the choice was made from stays as it is.
LEMMA ChoiceStable ==
    ASSUME UNCHANGED <<tables, target, known>>
    PROVE  /\ (known = known_public_key_algs(host, port))' <=> known = known_public_key_algs(host, port)
           /\ Besides(known)' = Besides(known)
<1>1. /\ rsa' = rsa /\ trusted' = trusted /\ host' = host /\ port' = port /\ known' = known
  BY DEF tables, target
<1>2. \A alg : from(alg)' = from(alg)
  BY <1>1 DEF from
<1>3. known_public_key_algs(host, port)' = known_public_key_algs(host, port)
  BY <1>1 DEF known_public_key_algs, IsPubkey
<1>4. QED
  BY <1>1, <1>2, <1>3 DEF Besides

\* A handler is made.
LEMMA ChoiceMade ==
    ASSUME Inv, ChoiceInv, NEW h \in HostName, NEW p \in Port, MakeHandler(h, p)
    PROVE  ChoiceInv'
<1> DEFINE n == Len(ConfigKey)
<1>1. /\ pc = "make" /\ host' = h /\ port' = p
      /\ known' = known_public_key_algs(h, p)
      /\ at' = 1 /\ prev' = Other /\ left' = ConfigKey
      /\ rsa' = rsa /\ trusted' = trusted
      /\ IF known' = {} THEN pc' = "check" /\ algs' = ConfigKey
                        ELSE pc' = "prefer" /\ algs' = algs
  BY DEF MakeHandler, update_preferred_config, preferred_public_key_alg, tables
<1>2. n \in Nat /\ ConfigKey \in [1..n -> Algorithm] /\ ConfigKey \in Seq(Algorithm)
  BY ConfigAssumption
<1>3. known' = known_public_key_algs(host, port)'
  BY <1>1 DEF known_public_key_algs, IsPubkey
<1>4. known' \subseteq 1..6
  BY <1>1, KnownInTable
<1>5. Besides(known)' \subseteq 1..n
  BY <1>2 DEF Besides
<1>6. Latest' = 0
  BY <1>1 DEF Latest
<1>7. CASE known' = {}
  <2>1. Besides(known)' = 1..n
    BY <1>2, <1>7 DEF Besides
  <2>2. Laid(ConfigKey, {}, 0, 1..n, n)
    BY <1>2, LaidAsIs
  <2>3. Upto({}, 0) = {} /\ 0 \in 0..6
    BY DEF Upto
  <2>4. Collected'
    BY <1>1, <1>7, <2>1, <2>2, <2>3 DEF Collected
  <2>5. QED
    BY <1>1, <1>3, <1>7, <2>4 DEF ChoiceInv
<1>8. CASE known' # {}
  <2>1. algs' = <<>> /\ pc' = "prefer"
    BY <1>1, <1>8 DEF ChoiceInv
  <2>2. Laid(<<>>, known', 0, Besides(known)', 0)
    BY <1>2, <1>4, <1>5, LaidNothing
  <2>3. Remaining(0) = ConfigKey /\ 0 \in 0..n
    BY <1>2 DEF Remaining
  <2>4. Collecting'
    BY <1>1, <1>6, <2>1, <2>2, <2>3 DEF Collecting
  <2>5. \A k \in 1..Len(trusted) : IsPubkey(trusted[k]) => trusted[k].lookup[2] \in 1..6
    BY DEF Inv, TypeOK, SigAlg, Other
  <2>6. \A k \in 1..Len(trusted) : IsPubkey(trusted[k]) => 0 <= trusted[k].lookup[2]
    BY <2>5
  <2>7. \A a \in known' :
            \E k \in 1..Len(trusted) : IsPubkey(trusted[k]) /\ trusted[k].lookup[2] = a
    BY <1>1, KnownInTable
  <2>8. Walked'
    BY <1>1, <1>6, <2>6, <2>7 DEF Walked, IsPubkey
  <2>9. QED
    BY <1>3, <2>1, <2>4, <2>8 DEF ChoiceInv
<1>9. QED
  BY <1>7, <1>8

\* The parts of the state the iterator walks with.
LEMMA WalkType ==
    ASSUME Inv, ChoiceInv, pc = "prefer"
    PROVE  /\ known \subseteq 1..6 /\ Latest \in 0..6
           /\ Besides(known) \subseteq 1..Len(ConfigKey)
           /\ Len(ConfigKey) \in Nat /\ ConfigKey \in [1..Len(ConfigKey) -> Algorithm]
           /\ algs \in Seq(Algorithm)
           /\ at \in Nat /\ at >= 1 /\ Len(trusted) \in Nat
           /\ \A k \in at..Len(trusted) : k \in DOMAIN trusted
<1>1. ConfigKey \in Seq(Algorithm)
  BY ConfigAssumption
<1>2. known \subseteq 1..6 /\ prev \in 1..7 /\ algs \in Seq(Algorithm) /\ trusted \in Seq(Entry)
  BY DEF Inv, TypeOK, SigAlg, Other
<1>3. Latest \in 0..6
  BY <1>2 DEF Latest, Other
<1>4. at \in Nat /\ at >= 1 /\ Len(trusted) \in Nat
  BY FilesAssumption, <1>2 DEF Inv, TypeOK
<1>5. \A k \in at..Len(trusted) : k \in DOMAIN trusted
  BY <1>2, <1>4
<1>6. Besides(known) \subseteq 1..Len(ConfigKey)
  BY <1>1 DEF Besides
<1>7. QED
  BY <1>1, <1>2, <1>3, <1>4, <1>5, <1>6

\* A known algorithm is yielded: the next one, and none is passed over.
LEMMA ChoiceKnown ==
    ASSUME Inv, ChoiceInv, NextKnown
    PROVE  ChoiceInv'
<1> DEFINE n == Len(ConfigKey)
<1>1. PICK i \in at..Len(trusted) :
          /\ \A j \in at..(i - 1) : Passed(trusted[j])
          /\ IsPubkey(trusted[i]) /\ ~Passed(trusted[i])
          /\ at' = i + 1 /\ prev' = trusted[i].lookup[2] /\ algs' = Append(algs, prev')
  BY DEF NextKnown
<1>2. pc = "prefer" /\ pc' = pc /\ known' = known /\ left' = left /\ trusted' = trusted
      /\ UNCHANGED <<tables, target, known>>
  BY DEF NextKnown, tables
<1>3. Walked /\ Collecting /\ known = known_public_key_algs(host, port)
  BY <1>2 DEF ChoiceInv
<1>4. /\ known \subseteq 1..6 /\ Latest \in 0..6 /\ Besides(known) \subseteq 1..n
      /\ n \in Nat /\ algs \in Seq(Algorithm)
      /\ at \in Nat /\ at >= 1 /\ Len(trusted) \in Nat
      /\ \A k \in at..Len(trusted) : k \in DOMAIN trusted
  BY <1>2, WalkType
<1>5. PICK y : y = trusted[i].lookup[2]
  OBVIOUS
<1>6. y \in known /\ y # prev /\ y \in 1..6 /\ prev' = y /\ algs' = Append(algs, y)
  BY <1>1, <1>4, <1>5 DEF Passed
<1>7. Latest' = y
  BY <1>6 DEF Latest, Other
<1>8. Latest < y
  <2>1. Latest <= y
    BY <1>1, <1>3, <1>5 DEF Walked
  <2>2. Latest # y
    BY <1>6 DEF Latest
  <2>3. QED
    BY <1>4, <1>6, <2>1, <2>2
<1>9. ASSUME NEW a \in known, Latest < a
      PROVE  \E k \in i..Len(trusted) :
                 IsPubkey(trusted[k]) /\ trusted[k].lookup[2] = a
  <2>1. PICK k \in at..Len(trusted) : IsPubkey(trusted[k]) /\ trusted[k].lookup[2] = a
    BY <1>3, <1>9 DEF Walked
  <2>2. a # prev
    <3>1. a \in 1..6
      BY <1>4
    <3>2. QED
      BY <1>9, <3>1 DEF Latest, Other
  <2>3. ~Passed(trusted[k])
    BY <2>1, <2>2 DEF Passed
  <2>4. k \notin at..(i - 1)
    BY <1>1, <2>3
  <2>5. k \in i..Len(trusted)
    BY <1>4, <2>4
  <2>6. QED
    BY <2>1, <2>5
<1>10. \A k \in i..Len(trusted) : IsPubkey(trusted[k]) => y <= trusted[k].lookup[2]
  <2> SUFFICES ASSUME NEW k \in i..Len(trusted), IsPubkey(trusted[k])
               PROVE  y <= trusted[k].lookup[2]
    OBVIOUS
  <2>1. i \in DOMAIN trusted /\ k \in DOMAIN trusted /\ i <= k
    BY <1>4
  <2>2. QED
    BY <1>2, <1>5, <2>1, TableOrder
<1>11. \A a \in known : ~(Latest < a /\ a < y)
  <2> SUFFICES ASSUME NEW a \in known, Latest < a, a < y PROVE FALSE
    OBVIOUS
  <2>1. y <= a
    BY <1>9, <1>10
  <2>2. a \in 1..6
    BY <1>4
  <2>3. QED
    BY <1>6, <2>1, <2>2
<1>12. PICK c \in 0..n : left = Remaining(c) /\ Laid(algs, known, Latest, Besides(known), c)
  BY <1>3 DEF Collecting
<1>13. c = 0 /\ Laid(Append(algs, y), known, y, Besides(known), 0)
  BY <1>4, <1>6, <1>8, <1>11, <1>12, LaidKnown
<1>14. Besides(known)' = Besides(known)
  BY <1>2, ChoiceStable
<1>15. Collecting'
  BY <1>2, <1>6, <1>7, <1>12, <1>13, <1>14 DEF Collecting
<1>16. Walked'
  <2>1. \A k \in (i + 1)..Len(trusted) : IsPubkey(trusted[k]) => y <= trusted[k].lookup[2]
    BY <1>4, <1>10
  <2>2. ASSUME NEW a \in known, y < a
        PROVE  \E k \in (i + 1)..Len(trusted) : IsPubkey(trusted[k]) /\ trusted[k].lookup[2] = a
    <3>1. a \in 1..6 /\ Latest < a
      BY <1>4, <1>6, <1>8, <2>2
    <3>2. PICK k \in i..Len(trusted) : IsPubkey(trusted[k]) /\ trusted[k].lookup[2] = a
      BY <1>9, <3>1
    <3>3. k # i
      BY <1>5, <1>6, <2>2, <3>1, <3>2
    <3>4. k \in (i + 1)..Len(trusted)
      BY <1>4, <3>3
    <3>5. QED
      BY <3>2, <3>4
  <2>3. QED
    BY <1>1, <1>2, <1>7, <2>1, <2>2 DEF Walked, IsPubkey
<1>17. (known = known_public_key_algs(host, port))'
  BY <1>2, <1>3, ChoiceStable
<1>18. QED
  BY <1>2, <1>15, <1>16, <1>17 DEF ChoiceInv

\* When the walk is over, every known algorithm has been yielded.
LEMMA WalkIsOver ==
    ASSUME Inv, ChoiceInv, pc = "prefer", NEW next, KnownIsOver(next)
    PROVE  Upto(known, Latest) = known
<1>1. Walked
  BY DEF ChoiceInv
<1>2. /\ known \subseteq 1..6 /\ Latest \in 0..6
      /\ at \in Nat /\ at >= 1 /\ Len(trusted) \in Nat
      /\ \A k \in at..Len(trusted) : k \in DOMAIN trusted
  BY WalkType
<1>3. ASSUME NEW a \in known, Latest < a PROVE FALSE
  <2>1. PICK k \in at..Len(trusted) : IsPubkey(trusted[k]) /\ trusted[k].lookup[2] = a
    BY <1>1, <1>3 DEF Walked
  <2>2. a # prev
    <3>1. a \in 1..6
      BY <1>2
    <3>2. QED
      BY <1>3, <3>1 DEF Latest, Other
  <2>3. ~Passed(trusted[k])
    BY <2>1, <2>2 DEF Passed
  <2>4. CASE \A j \in at..Len(trusted) : Passed(trusted[j])
    BY <2>3, <2>4
  <2>5. ASSUME NEW i \in at..Len(trusted), ~IsPubkey(trusted[i]),
               \A j \in at..(i - 1) : Passed(trusted[j])
        PROVE  FALSE
    <3>1. k \notin at..(i - 1)
      BY <2>3, <2>5
    <3>2. i <= k /\ i \in DOMAIN trusted /\ k \in DOMAIN trusted
      BY <1>2, <3>1
    <3>3. IsPubkey(trusted[i])
      BY <2>1, <3>2, TableOrder
    <3>4. QED
      BY <2>5, <3>3
  <2>6. QED
    BY <2>4, <2>5 DEF KnownIsOver
<1>4. \A a \in known : a <= Latest
  BY <1>2, <1>3
<1>5. QED
  BY <1>4 DEF Upto

\* An algorithm of config.key is yielded, or the end.
LEMMA ChoiceBesides ==
    ASSUME Inv, ChoiceInv, NextConfig
    PROVE  ChoiceInv'
<1> DEFINE n == Len(ConfigKey)
           R == Besides(known)
<1>1. PICK next \in at..(Len(trusted) + 1) : KnownIsOver(next) /\ at' = next
  BY DEF NextConfig
<1>2. pc = "prefer" /\ known' = known /\ prev' = prev /\ trusted' = trusted
      /\ UNCHANGED <<tables, target, known>>
  BY DEF NextConfig, tables
<1>3. Walked /\ Collecting /\ known = known_public_key_algs(host, port)
  BY <1>2 DEF ChoiceInv
<1>4. /\ known \subseteq 1..6 /\ Latest \in 0..6 /\ R \subseteq 1..n
      /\ n \in Nat /\ ConfigKey \in [1..n -> Algorithm] /\ algs \in Seq(Algorithm)
      /\ at \in Nat /\ Len(trusted) \in Nat
  BY <1>2, WalkType
<1>5. Upto(known, Latest) = known
  BY <1>1, <1>2, WalkIsOver
<1>6. PICK c \in 0..n : left = Remaining(c) /\ Laid(algs, known, Latest, R, c)
  BY <1>3 DEF Collecting
<1>7. /\ left \in Seq(Algorithm) /\ Len(left) = n - c /\ DOMAIN left = 1..(n - c)
      /\ \A i \in 1..(n - c) : left[i] = ConfigKey[c + i]
  <2>1. /\ left \in Seq(Algorithm) /\ Len(left) = n - c
        /\ \A i \in 1..(n - c) : left[i] = ConfigKey[c + i]
    BY <1>6, RemainingPlaces
  <2>2. DOMAIN left = 1..Len(left)
    BY <2>1
  <2>3. QED
    BY <2>1, <2>2
<1>8. Latest' = Latest /\ Besides(known)' = R
  BY <1>2, ChoiceStable DEF Latest
<1>9. (known = known_public_key_algs(host, port))'
  BY <1>2, <1>3, ChoiceStable
<1>10. \A q \in R : q \in 1..n /\ from(ConfigKey[q]) \notin known
  BY <1>4 DEF Besides
<1>11. \A q \in 1..n : c < q => q - c \in 1..(n - c) /\ left[q - c] = ConfigKey[q]
  <2> SUFFICES ASSUME NEW q \in 1..n, c < q
               PROVE  q - c \in 1..(n - c) /\ left[q - c] = ConfigKey[q]
    OBVIOUS
  <2>1. q - c \in 1..(n - c) /\ c + (q - c) = q
    BY <1>4
  <2>2. QED
    BY <1>7, <2>1
<1>12. ASSUME NEW i \in DOMAIN left,
              \A j \in 1..(i - 1) : from(left[j]) \in known,
              from(left[i]) \notin known,
              algs' = Append(algs, left[i]),
              left' = SubSeq(left, i + 1, Len(left)), pc' = pc
       PROVE  ChoiceInv'
  <2> DEFINE d == c + i
  <2>1. i \in 1..(n - c) /\ d \in 1..n /\ c < d /\ left[i] = ConfigKey[d]
    BY <1>4, <1>7
  <2>2. d \in R
    BY <1>4, <1>12, <2>1 DEF Besides
  <2>3. \A q \in R : ~(c < q /\ q < d)
    <3> SUFFICES ASSUME NEW q \in R, c < q, q < d PROVE FALSE
      OBVIOUS
    <3>1. q \in 1..n /\ from(ConfigKey[q]) \notin known /\ left[q - c] = ConfigKey[q]
      BY <1>10, <1>11
    <3>2. q - c \in 1..(i - 1)
      BY <2>1, <3>1
    <3>3. QED
      BY <1>12, <3>1, <3>2
  <2>4. Laid(Append(algs, ConfigKey[d]), known, Latest, R, d)
    <3> HIDE DEF d, R, n
    <3>1. QED
      BY <1>4, <1>5, <1>6, <2>1, <2>2, <2>3, LaidBesides
  <2>5. left' = Remaining(d)
    BY <1>6, <1>12, <2>1, RemainingTail
  <2>6. Collecting'
    <3>1. algs' = Append(algs, ConfigKey[d]) /\ d \in 0..n
      BY <1>4, <1>12, <2>1
    <3>2. QED
      BY <1>2, <1>8, <2>4, <2>5, <3>1 DEF Collecting
  <2>7. Walked'
    <3>1. \A k \in next..Len(trusted) : k \in at..Len(trusted)
      BY <1>1, <1>4
    <3>2. \A k \in next..Len(trusted) : IsPubkey(trusted[k]) => Latest <= trusted[k].lookup[2]
      BY <1>3, <3>1 DEF Walked
    <3>3. \A a \in known : a \in 1..6 /\ a <= Latest
      BY <1>4, <1>5 DEF Upto
    <3>4. \A a \in known : ~(Latest < a)
      BY <1>4, <3>3
    <3>5. QED
      BY <1>1, <1>2, <1>8, <3>2, <3>4 DEF Walked, IsPubkey
  <2>8. QED
    BY <1>2, <1>9, <1>12, <2>6, <2>7 DEF ChoiceInv
<1>13. ASSUME \A j \in DOMAIN left : from(left[j]) \in known,
              pc' = "check", algs' = algs
       PROVE  ChoiceInv'
  <2>1. \A q \in R : ~(c < q)
    <3> SUFFICES ASSUME NEW q \in R, c < q PROVE FALSE
      OBVIOUS
    <3>1. q \in 1..n /\ from(ConfigKey[q]) \notin known
      BY <1>10
    <3>2. q - c \in DOMAIN left /\ left[q - c] = ConfigKey[q]
      BY <1>7, <1>11, <3>1
    <3>3. QED
      BY <1>13, <3>1, <3>2
  <2>2. Laid(algs, known, Latest, R, n)
    <3> HIDE DEF R, n
    <3>1. QED
      BY <1>4, <1>5, <1>6, <2>1, LaidEnd
  <2>3. Collected'
    BY <1>2, <1>4, <1>5, <1>8, <1>13, <2>2 DEF Collected
  <2>4. QED
    BY <1>9, <1>13, <2>3 DEF ChoiceInv
<1>14. QED
  BY <1>12, <1>13 DEF NextConfig

\* The order holds in every reachable state.
LEMMA ChoiceInvariance == Spec => []ChoiceInv
<1>1. Init => ChoiceInv
  BY DEF Init, ChoiceInv
<1>2. ASSUME ChoiceInv, ReadLine \/ Sort PROVE ChoiceInv'
  BY <1>2 DEF ChoiceInv, ReadLine, Sort, choice
<1>3. ASSUME ChoiceInv, UNCHANGED <<tables, target, choice>>,
             pc' = pc \/ (pc = "check" /\ pc' = "done")
      PROVE  ChoiceInv'
  <2>1. /\ Besides(known)' = Besides(known)
        /\ (known = known_public_key_algs(host, port))' <=> known = known_public_key_algs(host, port)
    BY <1>3, ChoiceStable DEF choice
  <2>2. /\ trusted' = trusted /\ known' = known /\ at' = at /\ prev' = prev
        /\ left' = left /\ algs' = algs
    BY <1>3 DEF tables, choice
  <2>3. Latest' = Latest /\ (Walked' <=> Walked)
    BY <2>2 DEF Latest, Walked, IsPubkey
  <2>4. (Collecting' <=> Collecting) /\ (Collected' <=> Collected)
    BY <2>1, <2>2, <2>3 DEF Collecting, Collected
  <2>5. QED
    BY <1>3, <2>1, <2>2, <2>3, <2>4 DEF ChoiceInv
<1>4. ASSUME ChoiceInv,
             \/ \E keys \in Servers : \E key \in keys : CheckKey(keys, key)
             \/ \E cert \in Certs, valid \in BOOLEAN : CheckCert(cert, valid)
             \/ UNCHANGED vars
      PROVE  ChoiceInv'
  <2>1. UNCHANGED <<tables, target, choice>> /\ (pc' = pc \/ (pc = "check" /\ pc' = "done"))
    BY <1>4 DEF CheckKey, CheckCert, vars
  <2>2. QED
    BY <1>3, <1>4, <2>1
<1>5. Inv /\ ChoiceInv /\ [Next]_vars => ChoiceInv'
  BY <1>2, <1>4, ChoiceMade, ChoiceKnown, ChoiceBesides DEF Next
<1>6. QED
  BY <1>1, <1>5, Invariance, PTL DEF Spec

-----------------------------------------------------------------------------
(***************************************************************************)
(* The properties.                                                         *)
(***************************************************************************)

\* A matched @revoked entry decides whatever else the file says and in whatever
\* order (RevocationWins), for every file.
THEOREM RevocationWinsAlways == Spec => []RevocationWins
<1>1. ASSUME Inv PROVE RevocationWins
  <2>1. ASSUME ShowedKey, Revoked(shown.key) PROVE result = "Revoked"
    BY <1>1, <2>1, Answered, KeyAnswer DEF ShowedKey
  <2>2. ASSUME ShowedCert, Revoked(shown.cert.ca) \/ Revoked(shown.cert.key)
        PROVE  result # "Found" /\ (Applies(shown.cert) => result = "Revoked")
    <3>1. pc # "read" /\ shown.cert \in Certs /\ shown.valid \in BOOLEAN
          /\ result = check_cert(shown.cert, shown.valid)
      BY <1>1, <2>2, Answered DEF ShowedCert
    <3>2. QED
      BY <1>1, <2>2, <3>1, CertAnswer
  <2>3. QED
    BY <2>1, <2>2 DEF RevocationWins
<1>2. QED
  BY Invariance, <1>1, PTL

\* A server is accepted only on the word of a line for its host and port
\* (AcceptedIsVouched), for every file.
THEOREM AcceptedIsVouchedAlways == Spec => []AcceptedIsVouched
<1>1. ASSUME Inv PROVE AcceptedIsVouched
  <2>1. ASSUME ShowedKey, result = "Found" PROVE Listed(shown.key)
    BY <1>1, <2>1, Answered, KeyAnswer DEF ShowedKey
  <2>2. ASSUME ShowedCert, result = "Found"
        PROVE  /\ Applies(shown.cert) /\ Authority(shown.cert.ca)
               /\ shown.valid \/ Listed(shown.cert.key)
    <3>1. pc # "read" /\ shown.cert \in Certs /\ shown.valid \in BOOLEAN
          /\ result = check_cert(shown.cert, shown.valid)
      BY <1>1, <2>2, Answered DEF ShowedCert
    <3>2. Applies(shown.cert)
      BY <1>1, <2>2, <3>1, CertAnswer
    <3>3. Authority(shown.cert.ca) /\ (shown.valid \/ check_public_key(shown.cert.key) = "Found")
      BY <1>1, <2>2, <3>1, <3>2, CertAnswer
    <3>4. check_public_key(shown.cert.key) = "Found" => Listed(shown.cert.key)
      BY <1>1, <3>1, CertType, KeyAnswer
    <3>5. QED
      BY <3>2, <3>3, <3>4
  <2>3. QED
    BY <2>1, <2>2 DEF AcceptedIsVouched
<1>2. QED
  BY Invariance, <1>1, PTL

\* And on any such line: none is lost between the file, the tables and the
\* binary search (VouchedIsAccepted), for every file.
THEOREM VouchedIsAcceptedAlways == Spec => []VouchedIsAccepted
<1>1. ASSUME Inv PROVE VouchedIsAccepted
  <2>1. ASSUME ShowedKey, Listed(shown.key), ~Revoked(shown.key) PROVE result = "Found"
    BY <1>1, <2>1, Answered, KeyAnswer DEF ShowedKey
  <2>2. ASSUME ShowedCert, Applies(shown.cert), Authority(shown.cert.ca),
               ~Revoked(shown.cert.ca), ~Revoked(shown.cert.key),
               shown.valid \/ Listed(shown.cert.key)
        PROVE  result = "Found"
    <3>1. pc # "read" /\ shown.cert \in Certs /\ shown.valid \in BOOLEAN
          /\ result = check_cert(shown.cert, shown.valid)
      BY <1>1, <2>2, Answered DEF ShowedCert
    <3>2. Listed(shown.cert.key) => check_public_key(shown.cert.key) = "Found"
      BY <1>1, <2>2, <3>1, CertType, KeyAnswer
    <3>3. QED
      BY <1>1, <2>2, <3>1, <3>2, CertAnswer
  <2>3. QED
    BY <2>1, <2>2 DEF VouchedIsAccepted
<1>2. QED
  BY Invariance, <1>1, PTL

\* A changed key is told from a host never seen by the unmarked lines for the
\* host, and by nothing else (MismatchMeansKnown), for every file.
THEOREM MismatchMeansKnownAlways == Spec => []MismatchMeansKnown
<1>1. ASSUME Inv PROVE MismatchMeansKnown
  <2> SUFFICES ASSUME result \in {"KeyMismatch", "NotFound"}
               PROVE  result = "KeyMismatch" <=> HostIsKnown
    BY DEF MismatchMeansKnown, HostIsKnown
  <2>1. pc = "done"
    BY <1>1, NullAssumption, Answered DEF MatchResult
  <2>2. CASE ShowedKey
    BY <1>1, <2>1, <2>2, Answered, KeyAnswer
  <2>3. CASE ShowedCert
    <3>1. /\ shown.cert \in Certs /\ shown.valid \in BOOLEAN
          /\ result = check_cert(shown.cert, shown.valid)
      BY <1>1, <2>3, Answered
    <3>2. result = check_public_key(shown.cert.key)
      BY <1>1, <2>1, <3>1, CertAnswer
    <3>3. QED
      BY <1>1, <2>1, <3>1, <3>2, CertType, KeyAnswer
  <2>4. QED
    BY <1>1, <2>1, <2>2, <2>3, Answered
<1>2. QED
  BY Invariance, <1>1, PTL

\* The algorithms asked for are the known ones, each once and in the order of
\* SigAlg, then what config.key has besides, in its order (KnownFirst), for every
\* file and every config.key.
THEOREM KnownFirstAlways == Spec => []KnownFirst
<1>1. ASSUME Inv, ChoiceInv PROVE KnownFirst
  <2> SUFFICES ASSUME pc \in {"check", "done"}
               PROVE  /\ Len(algs) = Cardinality(KnownAlgs) + Cardinality(Besides(KnownAlgs))
                      /\ \A a \in KnownAlgs : algs[Rank(KnownAlgs, a)] = a
                      /\ \A q \in Besides(KnownAlgs) :
                             algs[Cardinality(KnownAlgs) + Rank(Besides(KnownAlgs), q)]
                                 = ConfigKey[q]
    BY DEF KnownFirst, Besides, Rank, Upto
  <2>1. known = KnownAlgs
    BY <1>1, KnownAreListed DEF ChoiceInv
  <2>2. PICK x \in 0..6 :
            Upto(known, x) = known /\ Laid(algs, known, x, Besides(known), Len(ConfigKey))
    BY <1>1 DEF ChoiceInv, Collected
  <2>3. Len(ConfigKey) \in Nat /\ Besides(known) \subseteq 1..Len(ConfigKey)
    BY ConfigAssumption DEF Besides
  <2>4. Upto(Besides(known), Len(ConfigKey)) = Besides(known)
    BY <2>3, RankType
  <2>5. QED
    BY <2>1, <2>2, <2>4 DEF Laid, Rank
<1>2. QED
  BY Invariance, ChoiceInvariance, <1>1, PTL

\* A key is shown when the algorithms asked for have come to it.
ShownInv ==
    ShowedKey => shown.keys \in Servers /\ Negotiated(shown.keys, shown.key)

LEMMA ShownInvariance == Spec => []ShownInv
<1>1. Init => ShownInv
  BY DEF Init, ShownInv, ShowedKey
<1>2. ASSUME pc' # "done" PROVE ShownInv'
  BY <1>2 DEF ShownInv, ShowedKey
<1>3. ReadLine \/ Sort \/ (\E h \in HostName, p \in Port : MakeHandler(h, p))
          \/ NextKnown \/ NextConfig => pc' # "done"
  BY DEF ReadLine, Sort, MakeHandler, update_preferred_config, NextKnown, NextConfig
<1>4. ASSUME NEW keys \in Servers, NEW key \in keys, CheckKey(keys, key) PROVE ShownInv'
  <2>1. shown' = [keys |-> keys, key |-> key] /\ Negotiated(keys, key) /\ algs' = algs
    BY <1>4 DEF CheckKey, choice
  <2>2. Negotiated(keys, key)'
    BY <2>1 DEF Negotiated
  <2>3. shown'.keys = keys /\ shown'.key = key
    BY <2>1
  <2>4. QED
    BY <2>2, <2>3 DEF ShownInv, Negotiated
<1>5. ASSUME NEW cert \in Certs, NEW valid \in BOOLEAN, CheckCert(cert, valid) PROVE ShownInv'
  <2>1. shown' = [cert |-> cert, valid |-> valid]
    BY <1>5 DEF CheckCert
  <2>2. "key" \notin DOMAIN shown'
    BY <2>1
  <2>3. QED
    BY <2>2 DEF ShownInv, ShowedKey
<1>6. ASSUME ShownInv, UNCHANGED vars PROVE ShownInv'
  BY <1>6 DEF ShownInv, ShowedKey, Negotiated, vars, choice, answer
<1>7. ShownInv /\ [Next]_vars => ShownInv'
  BY <1>2, <1>3, <1>4, <1>5, <1>6 DEF Next
<1>8. QED
  BY <1>1, <1>7, PTL DEF Spec

\* The algorithm of a line is one a key has, or rsa-sha2-256 for a key of RSA.
LEMMA KnownAlg ==
    ASSUME Inv, NEW a \in KnownAlgs
    PROVE  a \in 1..4 \/ (a = RsaSha256 /\ rsa)
<1>1. PICK line \in Lines("none") : a = from(line.key.alg) /\ a # Other
  BY DEF KnownAlgs
<1>2. PICK k \in DOMAIN file : line = file[k] /\ file[k] # NULL
  BY LinesOf
<1>3. file \in Seq(Line \cup {NULL})
  BY FilesAssumption DEF Inv, TypeOK
<1>4. line \in Line
  BY <1>2, <1>3
<1>5. line.key.alg \in {0, 1, 2, 3, 4, 7}
  <2>1. line.key \in Key
    BY <1>4, LineType
  <2>2. QED
    BY <2>1 DEF Key
<1>6. CASE line.key.alg = 0
  BY <1>1, <1>6 DEF from, Other
<1>7. CASE line.key.alg \in {1, 2, 3, 4, 7}
  BY <1>1, <1>7 DEF from, Other, RsaSha512, RsaSha256
<1>8. QED
  BY <1>5, <1>6, <1>7

\* A key that signs with such an algorithm is listed under it, and the reverse.
LEMMA SignsAsListed ==
    ASSUME NEW key \in Key, NEW a, a \in 1..4 \/ (a = RsaSha256 /\ rsa)
    PROVE  a \in Signs(key) <=> from(key.alg) = a
<1>1. key.alg \in {0, 1, 2, 3, 4, 7}
  BY DEF Key
<1>2. CASE key.alg = 0
  BY <1>2 DEF Signs, from, Other, RsaSha512, RsaSha256
<1>3. CASE key.alg \in {1, 2, 3, 4, 7}
  BY <1>3 DEF Signs, from, Other, RsaSha512, RsaSha256
<1>4. QED
  BY <1>1, <1>2, <1>3

\* A server that still has a listed key, and none changed, is never taken for a
\* changed one (NoFalseMismatch), for every file and server: of its keys, the
\* order asked for comes to one of a known algorithm first.
THEOREM NoFalseMismatchAlways == Spec => []NoFalseMismatch
<1>1. ASSUME Inv, ChoiceInv, ShownInv PROVE NoFalseMismatch
  <2> SUFFICES ASSUME ShowedKey,
                      NEW other \in shown.keys, Listed(other),
                      \A key \in shown.keys : from(key.alg) \in KnownAlgs => Listed(key)
               PROVE  result \in {"Found", "Revoked"}
    BY DEF NoFalseMismatch
  <2>1. pc = "done" /\ shown.keys \subseteq Key
    BY <1>1, ServersAssumption DEF ShownInv, ShowedKey
  <2>2. known = KnownAlgs /\ known \subseteq 1..6
    BY <1>1, <2>1, KnownAreListed, KnownInTable DEF ChoiceInv
  <2>3. PICK b : b = from(other.alg)
    OBVIOUS
  <2>4. b \in KnownAlgs
    BY <2>3 DEF Listed, SameKey, KnownAlgs
  <2>5. b \in Signs(other)
    BY <1>1, <2>1, <2>3, <2>4, KnownAlg, SignsAsListed
  <2>6. PICK i \in DOMAIN algs :
            /\ shown.key \in shown.keys
            /\ algs[i] \in Signs(shown.key)
            /\ \A j \in 1..(i - 1) : \A k \in shown.keys : algs[j] \notin Signs(k)
    BY <1>1 DEF ShownInv, Negotiated
  <2>7. PICK x \in 0..6 :
            Upto(known, x) = known /\ Laid(algs, known, x, Besides(known), Len(ConfigKey))
    BY <1>1, <2>1 DEF ChoiceInv, Collected
  <2>8. algs[Rank(known, b)] = b /\ \A j \in 1..Rank(known, x) : algs[j] \in known
    BY <2>2, <2>4, <2>7 DEF Laid
  <2>9. /\ Rank(known, b) \in Nat /\ Rank(known, b) >= 1 /\ Rank(known, b) <= Rank(known, x)
        /\ Rank(known, x) \in Nat
    <3>1. 6 \in Nat /\ x \in Int /\ b \in known /\ b \in Int
      BY <2>2, <2>4
    <3>2. b <= x
      BY <2>2, <2>4, <2>7 DEF Upto
    <3>3. Rank(known, b) \in Nat /\ Rank(known, x) \in Nat
      BY <2>2, <3>1, RankType
    <3>4. Rank(known, b) >= 1 /\ Rank(known, b) <= Rank(known, x)
      BY <2>2, <3>1, <3>2, RankBounds
    <3>5. QED
      BY <3>3, <3>4
  <2>10. i \in Nat /\ i >= 1
    BY <1>1 DEF Inv, TypeOK
  <2>11. ~(Rank(known, b) <= i - 1)
    BY <2>5, <2>6, <2>8, <2>9, <2>10
  <2>12. algs[i] \in KnownAlgs
    BY <2>2, <2>8, <2>9, <2>10, <2>11
  <2>13. shown.key \in Key /\ from(shown.key.alg) = algs[i]
    BY <1>1, <2>1, <2>6, <2>12, KnownAlg, SignsAsListed
  <2>14. Listed(shown.key)
    BY <2>6, <2>12, <2>13
  <2>15. QED
    BY <1>1, <2>1, <2>14, Answered, KeyAnswer
<1>2. QED
  BY Invariance, ChoiceInvariance, ShownInvariance, <1>1, PTL

-----------------------------------------------------------------------------
(***************************************************************************)
(* HostText.  First what holds of any text: induction over its places, the *)
(* greatest and the least of a set of them, and one text after another.    *)
(***************************************************************************)

\* A set that has 0, and a place whenever it has the one before, has them all.
LEMMA EveryPlace ==
    ASSUME NEW n \in Nat, NEW G, 0 \in G, \A i \in 1..n : i - 1 \in G => i \in G
    PROVE  \A i \in 0..n : i \in G
<1> DEFINE T == {i \in 0..n : i \notin G}
<1>1. SUFFICES ASSUME T # {} PROVE FALSE
  OBVIOUS
<1>2. T \subseteq Nat
  OBVIOUS
<1> HIDE DEF T
<1>3. PICK k \in T : \A i \in T : ~(i < k)
  BY <1>1, <1>2, Least
<1>4. k \in 1..n /\ k \notin G
  BY <1>3 DEF T
<1>5. k - 1 \notin T
  BY <1>3, <1>4
<1>6. QED
  BY <1>4, <1>5 DEF T

\* Max and Min give the bound that is in the set.
LEMMA MaxIs ==
    ASSUME NEW T, T \subseteq Int, NEW m \in T, \A x \in T : m >= x
    PROVE  Max(T) = m
<1>1. \E x \in T : \A y \in T : x >= y
  OBVIOUS
<1> DEFINE w == Max(T)
<1>2. w \in T /\ \A y \in T : w >= y
  BY <1>1 DEF Max
<1> HIDE DEF w
<1>3. w \in Int /\ m \in Int /\ w >= m /\ m >= w
  BY <1>2
<1>4. w = m
  BY <1>3
<1>5. QED
  BY <1>4 DEF w

LEMMA MinIs ==
    ASSUME NEW T, T \subseteq Int, NEW m \in T, \A x \in T : m =< x
    PROVE  Min(T) = m
<1>1. \E x \in T : \A y \in T : x =< y
  OBVIOUS
<1> DEFINE w == Min(T)
<1>2. w \in T /\ \A y \in T : w =< y
  BY <1>1 DEF Min
<1> HIDE DEF w
<1>3. w \in Int /\ m \in Int /\ w =< m /\ m =< w
  BY <1>2
<1>4. w = m
  BY <1>3
<1>5. QED
  BY <1>4 DEF w

\* The least of a non-empty set of places is one of them.
LEMMA MinIn ==
    ASSUME NEW T, T \subseteq Nat, T # {}
    PROVE  Min(T) \in T /\ \A y \in T : Min(T) =< y
<1>1. PICK m \in T : \A y \in T : ~(y < m)
  BY Least
<1>2. m \in Int /\ \A y \in T : m =< y
  BY <1>1
<1>3. T \subseteq Int
  OBVIOUS
<1>4. Min(T) = m
  BY <1>2, <1>3, MinIs
<1>5. QED
  BY <1>2, <1>4

\* The greatest of a bounded set of places is one of them.
LEMMA MaxIn ==
    ASSUME NEW n \in Nat, NEW T, T \subseteq 1..n, T # {}
    PROVE  Max(T) \in T /\ \A y \in T : Max(T) >= y
<1> DEFINE R == {n - x : x \in T}
<1>1. R \subseteq Nat /\ R # {}
  <2>1. \A x \in T : n - x \in Nat
    OBVIOUS
  <2>2. QED
    BY <2>1
<1> HIDE DEF R
<1>2. PICK r \in R : \A y \in R : ~(y < r)
  BY <1>1, Least
<1>3. PICK m \in T : r = n - m
  BY DEF R
<1>4. \A y \in T : n - y \in R
  BY DEF R
<1>5. ASSUME NEW y \in T PROVE m >= y
  <2>1. ~(n - y < n - m)
    BY <1>2, <1>3, <1>4
  <2>2. y \in Int /\ m \in Int
    OBVIOUS
  <2>3. QED
    BY <2>1, <2>2
<1>6. T \subseteq Int
  OBVIOUS
<1>7. Max(T) = m
  BY <1>5, <1>6, MaxIs
<1>8. QED
  BY <1>5, <1>7

\* One text after another, under a name the provers leave as it is.
Cat(s, t) == s \o t

LEMMA CatSeq ==
    ASSUME NEW S, NEW s \in Seq(S), NEW t \in Seq(S)
    PROVE  Cat(s, t) \in Seq(S)
BY DEF Cat

LEMMA CatLen ==
    ASSUME NEW S, NEW s \in Seq(S), NEW t \in Seq(S)
    PROVE  Len(Cat(s, t)) = Len(s) + Len(t)
BY DEF Cat

LEMMA CatLeft ==
    ASSUME NEW S, NEW s \in Seq(S), NEW t \in Seq(S)
    PROVE  \A x \in 1..Len(s) : Cat(s, t)[x] = s[x]
BY DEF Cat

LEMMA CatRight ==
    ASSUME NEW S, NEW s \in Seq(S), NEW t \in Seq(S)
    PROVE  \A x \in 1..Len(t) : Cat(s, t)[Len(s) + x] = t[x]
BY DEF Cat

-----------------------------------------------------------------------------
(***************************************************************************)
(* Escaped lays one block for each character of the pattern.               *)
(***************************************************************************)

\* f joins the first k of the sequences, as the function in FlattenSeq does.
Joins(f, seqs, k) ==
    f = [i \in 1..k |-> IF i = 1 THEN seqs[i] ELSE f[i - 1] \o seqs[i]]

LEMMA FlattenIs ==
    ASSUME NEW seqs, Len(seqs) # 0
    PROVE  FlattenSeq(seqs) = (CHOOSE f : Joins(f, seqs, Len(seqs)))[Len(seqs)]
BY DEF FlattenSeq, Joins

LEMMA JoinsExists ==
    ASSUME NEW seqs, NEW n \in Nat
    PROVE  \E f : Joins(f, seqs, n)
<1> DEFINE G == {k \in 0..n : \E f : Joins(f, seqs, k)}
<1>1. 0 \in G
  <2> DEFINE f == [i \in 1..0 |-> i]
  <2>1. f = [i \in 1..0 |-> IF i = 1 THEN seqs[i] ELSE f[i - 1] \o seqs[i]]
    OBVIOUS
  <2>2. Joins(f, seqs, 0)
    BY <2>1 DEF Joins
  <2>3. QED
    BY <2>2
<1>2. ASSUME NEW k \in 1..n, k - 1 \in G PROVE k \in G
  <2>1. PICK g : Joins(g, seqs, k - 1)
    BY <1>2
  <2>2. \A i \in 1..(k - 1) : g[i] = IF i = 1 THEN seqs[i] ELSE g[i - 1] \o seqs[i]
    BY <2>1 DEF Joins
  <2> DEFINE next == IF k = 1 THEN seqs[k] ELSE g[k - 1] \o seqs[k]
             f == [i \in 1..k |-> IF i = k THEN next ELSE g[i]]
  <2>3. ASSUME NEW i \in 1..k
        PROVE  f[i] = IF i = 1 THEN seqs[i] ELSE f[i - 1] \o seqs[i]
    <3>1. CASE i = k
      <4>1. k # 1 => f[k - 1] = g[k - 1]
        OBVIOUS
      <4>2. f[k] = next
        OBVIOUS
      <4>3. QED
        BY <3>1, <4>1, <4>2
    <3>2. CASE i # k
      <4>1. i \in 1..(k - 1) /\ f[i] = g[i]
        BY <3>2
      <4>2. i # 1 => f[i - 1] = g[i - 1]
        BY <4>1
      <4> HIDE DEF f
      <4>3. QED
        BY <2>2, <4>1, <4>2
    <3>3. QED
      BY <3>1, <3>2
  <2>4. f = [i \in 1..k |-> f[i]]
    OBVIOUS
  <2> HIDE DEF f
  <2>5. f = [i \in 1..k |-> IF i = 1 THEN seqs[i] ELSE f[i - 1] \o seqs[i]]
    BY <2>3, <2>4
  <2>6. Joins(f, seqs, k)
    BY <2>5 DEF Joins
  <2>7. QED
    BY <2>6
<1> HIDE DEF G
<1>3. \A k \in 1..n : k - 1 \in G => k \in G
  BY <1>2
<1>4. n \in G
  <2>1. \A k \in 0..n : k \in G
    BY <1>1, <1>3, EveryPlace
  <2>2. QED
    BY <2>1
<1>5. QED
  BY <1>4 DEF G

Settled(f, k, S) ==
    /\ f[k] \in Seq(S)
    /\ \A i \in 1..k : f[i] \in Seq(S) /\ Len(f[i]) <= Len(f[k])
    /\ \A i \in 1..k : \A x \in 1..Len(f[i]) : f[k][x] = f[i][x]

\* What is joined at a place stays there.
LEMMA JoinsLay ==
    ASSUME NEW S, NEW seqs, NEW n \in Nat \ {0}, NEW f, Joins(f, seqs, n),
           \A i \in 1..n : seqs[i] \in Seq(S)
    PROVE  /\ \A i \in 1..n : f[i] \in Seq(S) /\ Len(f[i]) <= Len(f[n])
           /\ \A i \in 1..n : \A x \in 1..Len(f[i]) : f[n][x] = f[i][x]
           /\ f[1] = seqs[1]
           /\ \A i \in 2..n : f[i] = Cat(f[i - 1], seqs[i])
<1>1. f[1] = seqs[1] /\ \A i \in 2..n : f[i] = Cat(f[i - 1], seqs[i])
  <2>1. \A i \in 1..n : f[i] = IF i = 1 THEN seqs[i] ELSE f[i - 1] \o seqs[i]
    BY DEF Joins
  <2>2. f[1] = seqs[1]
    BY <2>1
  <2>3. ASSUME NEW i \in 2..n PROVE f[i] = Cat(f[i - 1], seqs[i])
    <3>1. i \in 1..n /\ i # 1
      OBVIOUS
    <3>2. QED
      BY <2>1, <3>1 DEF Cat
  <2>4. QED
    BY <2>2, <2>3
<1> DEFINE G == {k \in 0..n : k # 0 => Settled(f, k, S)}
<1>2. 0 \in G
  OBVIOUS
<1>3. ASSUME NEW k \in 1..n, k - 1 \in G PROVE Settled(f, k, S)
  <2>1. CASE k = 1
    <3>1. f[1] \in Seq(S) /\ Len(f[1]) <= Len(f[1])
      BY <1>1
    <3>2. \A i \in 1..k : i = 1
      BY <2>1
    <3>3. QED
      BY <2>1, <3>1, <3>2 DEF Settled
  <2>2. CASE k # 1
    <3>1. k \in 2..n /\ k - 1 \in 1..n /\ k - 1 # 0
      BY <2>2
    <3>2. /\ f[k - 1] \in Seq(S)
          /\ \A i \in 1..(k - 1) : f[i] \in Seq(S) /\ Len(f[i]) <= Len(f[k - 1])
          /\ \A i \in 1..(k - 1) : \A x \in 1..Len(f[i]) : f[k - 1][x] = f[i][x]
      BY <1>3, <3>1 DEF Settled
    <3> DEFINE before == f[k - 1]
               piece == seqs[k]
    <3>3. f[k] = Cat(before, piece) /\ before \in Seq(S) /\ piece \in Seq(S)
      BY <1>1, <3>1, <3>2
    <3> HIDE DEF before, piece
    <3>7. /\ f[k] \in Seq(S)
          /\ Len(f[k]) = Len(before) + Len(piece)
          /\ \A x \in 1..Len(before) : f[k][x] = before[x]
      <4>1. f[k] \in Seq(S)
        BY <3>3, CatSeq
      <4>2. Len(f[k]) = Len(before) + Len(piece)
        BY <3>3, CatLen
      <4>3. \A x \in 1..Len(before) : f[k][x] = before[x]
        BY <3>3, CatLeft
      <4>4. QED
        BY <4>1, <4>2, <4>3
    <3>4. /\ Len(before) \in Nat /\ Len(f[k]) \in Nat /\ Len(before) <= Len(f[k])
      <4>1. Len(before) \in Nat /\ Len(piece) \in Nat
        BY <3>3
      <4>2. QED
        BY <3>7, <4>1
    <3>5. ASSUME NEW i \in 1..k
          PROVE  /\ f[i] \in Seq(S) /\ Len(f[i]) <= Len(f[k])
                 /\ \A x \in 1..Len(f[i]) : f[k][x] = f[i][x]
      <4>1. CASE i = k
        BY <3>4, <3>7, <4>1
      <4>2. CASE i # k
        <5>1. i \in 1..(k - 1)
          BY <4>2
        <5>2. /\ f[i] \in Seq(S) /\ Len(f[i]) <= Len(before)
              /\ \A x \in 1..Len(f[i]) : before[x] = f[i][x]
          BY <3>2, <5>1 DEF before
        <5>3. Len(f[i]) \in Nat /\ \A x \in 1..Len(f[i]) : x \in 1..Len(before)
          BY <3>4, <5>2
        <5>4. Len(f[i]) <= Len(f[k])
          BY <3>4, <5>2, <5>3
        <5>5. \A x \in 1..Len(f[i]) : f[k][x] = f[i][x]
          BY <3>7, <5>2, <5>3
        <5>6. QED
          BY <5>2, <5>4, <5>5
      <4>3. QED
        BY <4>1, <4>2
    <3>6. QED
      BY <3>5, <3>7 DEF Settled
  <2>3. QED
    BY <2>1, <2>2
<1>4. \A k \in 1..n : k - 1 \in G => k \in G
  BY <1>3
<1> HIDE DEF G
<1>5. n \in G
  <2>1. \A k \in 0..n : k \in G
    BY <1>2, <1>4, EveryPlace
  <2>2. QED
    BY <2>1
<1>6. QED
  BY <1>1, <1>5 DEF G, Settled

\* L[i] is where the block of the i-th character ends.
Laid_out(L, pattern, text) ==
    /\ L \in [0..Len(pattern) -> Nat]
    /\ L[0] = 0 /\ L[Len(pattern)] = Len(text)
    /\ \A i \in 1..Len(pattern) :
           LET block == Block(pattern[i])
           IN  /\ L[i] = L[i - 1] + Len(block) /\ L[i] <= Len(text)
               /\ \A x \in 1..Len(block) : text[L[i - 1] + x] = block[x]

LEMMA BlockType ==
    ASSUME NEW c \in Byte
    PROVE  Block(c) \in Seq(Byte) /\ Len(Block(c)) \in {1, 3}
<1>1. CASE c \in {OPEN, CLOSE}
  <2>1. Block(c) = <<OPEN, c, CLOSE>> /\ OPEN \in Byte /\ CLOSE \in Byte
    BY <1>1 DEF Block, Byte, OPEN, CLOSE
  <2>2. QED
    BY <2>1
<1>2. CASE c \notin {OPEN, CLOSE}
  <2>1. Block(c) = <<c>>
    BY <1>2 DEF Block
  <2>2. QED
    BY <2>1
<1>3. QED
  BY <1>1, <1>2

LEMMA EscapedLaid ==
    ASSUME NEW pattern \in Seq(Byte)
    PROVE  Escaped(pattern) \in Seq(Byte) /\ \E L : Laid_out(L, pattern, Escaped(pattern))
<1> DEFINE n == Len(pattern)
           seqs == [i \in DOMAIN pattern |-> Block(pattern[i])]
           text == Escaped(pattern)
<1>1. /\ n \in Nat /\ DOMAIN pattern = 1..n
      /\ \A i \in 1..n : pattern[i] \in Byte
  OBVIOUS
<1>2. \A i \in 1..n : seqs[i] = Block(pattern[i]) /\ seqs[i] \in Seq(Byte)
  BY <1>1, BlockType
<1>3. seqs \in Seq(Seq(Byte)) /\ Len(seqs) = n
  BY <1>1, <1>2
<1>4. text = FlattenSeq(seqs)
  BY DEF Escaped
<1> HIDE DEF seqs, text
<1>5. CASE n = 0
  <2>1. text = seqs
    BY <1>3, <1>4, <1>5 DEF FlattenSeq
  <2>2. text \in Seq(Byte) /\ Len(text) = 0
    BY <1>3, <1>5, <2>1
  <2> DEFINE L == [i \in 0..n |-> 0]
  <2>3. L \in [0..n -> Nat] /\ L[0] = 0 /\ L[n] = Len(text) /\ 1..n = {}
    BY <1>5, <2>2
  <2> HIDE DEF L
  <2>4. Laid_out(L, pattern, text)
    BY <2>3 DEF Laid_out
  <2>5. QED
    BY <2>2, <2>4 DEF text
<1>6. CASE n # 0
  <2>1. n \in Nat \ {0} /\ n \in 1..n
    BY <1>1, <1>6
  <2> DEFINE f == CHOOSE g : Joins(g, seqs, n)
  <2>2. text = f[n]
    BY <1>3, <1>4, <1>6, FlattenIs
  <2>3. Joins(f, seqs, n)
    BY <1>1, JoinsExists
  <2> HIDE DEF f
  <2>4. /\ \A i \in 1..n : f[i] \in Seq(Byte) /\ Len(f[i]) <= Len(f[n])
        /\ \A i \in 1..n : \A x \in 1..Len(f[i]) : f[n][x] = f[i][x]
        /\ f[1] = seqs[1]
        /\ \A i \in 2..n : f[i] = Cat(f[i - 1], seqs[i])
    BY <1>2, <2>1, <2>3, JoinsLay
  <2>5. \A i \in 1..n : Len(f[i]) \in Nat
    BY <2>4
  <2> DEFINE L == [i \in 0..n |-> IF i = 0 THEN 0 ELSE Len(f[i])]
  <2>6. L \in [0..n -> Nat]
    BY <2>5
  <2>7. L[0] = 0 /\ \A i \in 1..n : L[i] = Len(f[i])
    BY <1>1
  <2>8. L[n] = Len(text)
    BY <2>1, <2>2, <2>7
  <2> HIDE DEF L
  <2>9. ASSUME NEW i \in 1..n
        PROVE  /\ L[i] = L[i - 1] + Len(seqs[i])
               /\ \A x \in 1..Len(seqs[i]) : f[i][L[i - 1] + x] = seqs[i][x]
    <3>1. seqs[i] \in Seq(Byte) /\ Len(seqs[i]) \in Nat
      BY <1>2
    <3>2. CASE i = 1
      <4>1. L[i - 1] = 0 /\ L[i] = Len(seqs[i]) /\ f[i] = seqs[i]
        BY <2>4, <2>7, <3>2
      <4>2. QED
        BY <3>1, <4>1
    <3>3. CASE i # 1
      <4>1. i \in 2..n /\ i - 1 \in 1..n
        BY <3>3
      <4> DEFINE before == f[i - 1]
                 piece == seqs[i]
      <4>2. /\ f[i] = Cat(before, piece) /\ before \in Seq(Byte) /\ piece \in Seq(Byte)
            /\ L[i - 1] = Len(before) /\ L[i] = Len(f[i])
        BY <2>4, <2>7, <3>1, <4>1
      <4> HIDE DEF before, piece
      <4>3. /\ L[i] = L[i - 1] + Len(piece)
            /\ \A x \in 1..Len(piece) : f[i][L[i - 1] + x] = piece[x]
        <5>1. Len(f[i]) = Len(before) + Len(piece)
          BY <4>2, CatLen
        <5>2. \A x \in 1..Len(piece) : f[i][Len(before) + x] = piece[x]
          BY <4>2, CatRight
        <5>3. QED
          BY <4>2, <5>1, <5>2
      <4>4. QED
        BY <4>3 DEF piece
    <3>4. QED
      BY <3>2, <3>3
  <2>10. ASSUME NEW i \in 1..n
         PROVE  /\ L[i] = L[i - 1] + Len(Block(pattern[i])) /\ L[i] <= Len(text)
                /\ \A x \in 1..Len(Block(pattern[i])) :
                       text[L[i - 1] + x] = Block(pattern[i])[x]
    <3> DEFINE block == Block(pattern[i])
    <3>1. block = seqs[i] /\ block \in Seq(Byte) /\ Len(block) \in Nat
      BY <1>2
    <3> HIDE DEF block
    <3>2. L[i - 1] \in Nat /\ L[i] \in Nat
      BY <2>6
    <3>3. /\ L[i] = Len(f[i]) /\ L[i] <= Len(text)
          /\ \A x \in 1..L[i] : text[x] = f[i][x]
      BY <2>2, <2>4, <2>7
    <3>4. /\ L[i] = L[i - 1] + Len(block)
          /\ \A x \in 1..Len(block) : f[i][L[i - 1] + x] = block[x]
      BY <2>9, <3>1
    <3>5. \A x \in 1..Len(block) : L[i - 1] + x \in 1..L[i]
      BY <3>1, <3>2, <3>4
    <3>6. QED
      BY <3>3, <3>4, <3>5 DEF block
  <2>11. Laid_out(L, pattern, text)
    BY <2>6, <2>7, <2>8, <2>10 DEF Laid_out
  <2>12. text \in Seq(Byte)
    BY <2>1, <2>2, <2>4
  <2>13. QED
    BY <2>11, <2>12 DEF text
<1>7. QED
  BY <1>5, <1>6

-----------------------------------------------------------------------------
(***************************************************************************)
(* The glob.  MatchedFrom asks only for places further on, so the function *)
(* in GlobMatches has a value at every place.                              *)
(***************************************************************************)
LEMMA ClassMin ==
    ASSUME NEW text, Len(text) \in Nat, NEW i \in 1..Len(text), Class(text, i) # {}
    PROVE  /\ Min(Class(text, i)) \in (i + 2)..Len(text)
           /\ \A j \in Class(text, i) : Min(Class(text, i)) =< j
<1>1. Class(text, i) \subseteq Nat /\ Class(text, i) \subseteq (i + 2)..Len(text)
  BY DEF Class
<1>2. QED
  BY <1>1, MinIn

\* At the end, and at the three kinds of characters of a glob.
LEMMA MatchedAtEnd ==
    ASSUME NEW text, NEW needle, NEW i, NEW later, i > Len(text)
    PROVE  MatchedFrom(text, needle, i, later) = {Len(needle) + 1}
BY DEF MatchedFrom

LEMMA MatchedAtStar ==
    ASSUME NEW text, NEW needle, NEW i, NEW later, ~(i > Len(text)), text[i] = STAR
    PROVE  MatchedFrom(text, needle, i, later) =
               {j \in 1..(Len(needle) + 1) : \E k \in later[i + 1] : j <= k}
<1>1. text[i] # OPEN
  BY DEF STAR, OPEN
<1>2. QED
  BY <1>1 DEF MatchedFrom

InClass(text, needle, i, later, end) ==
    {j \in DOMAIN needle : /\ Class(text, i) # {}
                           /\ j + 1 \in later[end + 1]
                           /\ \E k \in (i + 1)..(end - 1) : text[k] = needle[j]}

LEMMA MatchedAtClass ==
    ASSUME NEW text, NEW needle, NEW i, NEW later, ~(i > Len(text)), text[i] = OPEN
    PROVE  MatchedFrom(text, needle, i, later) =
               InClass(text, needle, i, later, Min(Class(text, i)))
<1>1. text[i] # STAR
  BY DEF STAR, OPEN
<1>2. QED
  BY <1>1 DEF MatchedFrom, InClass

LEMMA MatchedAtOther ==
    ASSUME NEW text, NEW needle, NEW i, NEW later, ~(i > Len(text)), text[i] # STAR, text[i] # OPEN
    PROVE  MatchedFrom(text, needle, i, later) =
               {j \in DOMAIN needle : text[i] \in {QUESTION, needle[j]} /\ j + 1 \in later[i + 1]}
BY DEF MatchedFrom

LEMMA LaterOnly ==
    ASSUME NEW text, Len(text) \in Nat, NEW needle, NEW i \in 1..(Len(text) + 1),
           NEW g, NEW h, \A k \in (i + 1)..(Len(text) + 1) : g[k] = h[k]
    PROVE  MatchedFrom(text, needle, i, g) = MatchedFrom(text, needle, i, h)
<1>1. CASE i > Len(text)
  BY <1>1, MatchedAtEnd
<1>2. CASE ~(i > Len(text)) /\ text[i] = STAR
  <2>1. g[i + 1] = h[i + 1]
    BY <1>2
  <2> DEFINE At(f) == {j \in 1..(Len(needle) + 1) : \E k \in f[i + 1] : j <= k}
  <2>2. MatchedFrom(text, needle, i, g) = At(g)
    BY <1>2, MatchedAtStar
  <2>3. MatchedFrom(text, needle, i, h) = At(h)
    BY <1>2, MatchedAtStar
  <2>4. At(g) = At(h)
    BY <2>1
  <2>5. QED
    BY <2>2, <2>3, <2>4
<1>3. CASE ~(i > Len(text)) /\ text[i] = OPEN
  <2> DEFINE C == Class(text, i)
             end == Min(C)
  <2>1. C # {} => g[end + 1] = h[end + 1]
    <3>1. ASSUME C # {} PROVE end + 1 \in (i + 1)..(Len(text) + 1)
      <4>1. i \in 1..Len(text)
        BY <1>3
      <4>2. end \in (i + 2)..Len(text)
        BY <3>1, <4>1, ClassMin
      <4> HIDE DEF end
      <4>3. QED
        BY <4>1, <4>2
    <3>2. QED
      BY <3>1
  <2>2. MatchedFrom(text, needle, i, g) = InClass(text, needle, i, g, end)
    BY <1>3, MatchedAtClass
  <2>3. MatchedFrom(text, needle, i, h) = InClass(text, needle, i, h, end)
    BY <1>3, MatchedAtClass
  <2> HIDE DEF end
  <2>4. InClass(text, needle, i, g, end) = InClass(text, needle, i, h, end)
    BY <2>1 DEF InClass
  <2>5. QED
    BY <2>2, <2>3, <2>4
<1>4. CASE ~(i > Len(text)) /\ text[i] # STAR /\ text[i] # OPEN
  <2>1. g[i + 1] = h[i + 1]
    BY <1>4
  <2> DEFINE At(f) == {j \in DOMAIN needle : text[i] \in {QUESTION, needle[j]} /\ j + 1 \in f[i + 1]}
  <2>2. MatchedFrom(text, needle, i, g) = At(g)
    BY <1>4, MatchedAtOther
  <2>3. MatchedFrom(text, needle, i, h) = At(h)
    BY <1>4, MatchedAtOther
  <2>4. At(g) = At(h)
    BY <2>1
  <2>5. QED
    BY <2>2, <2>3, <2>4
<1>5. QED
  BY <1>1, <1>2, <1>3, <1>4

\* f has the values of the function in GlobMatches, from place m on.
Matching(f, text, needle, m) ==
    f = [i \in m..(Len(text) + 1) |-> MatchedFrom(text, needle, i, f)]

LEMMA MatchingExists ==
    ASSUME NEW text, Len(text) \in Nat, NEW needle
    PROVE  \E f : Matching(f, text, needle, 1)
<1> DEFINE n == Len(text)
           G == {k \in 0..n : \E f : Matching(f, text, needle, n + 1 - k)}
<1>1. n \in Nat
  OBVIOUS
<1>2. 0 \in G
  <2> DEFINE f == [i \in (n + 1)..(n + 1) |-> {Len(needle) + 1}]
  <2>1. f = [i \in (n + 1)..(n + 1) |-> f[i]]
    OBVIOUS
  <2>2. \A i \in (n + 1)..(n + 1) : f[i] = {Len(needle) + 1}
    OBVIOUS
  <2> HIDE DEF f
  <2>3. \A i \in (n + 1)..(n + 1) : f[i] = MatchedFrom(text, needle, i, f)
    <3>1. \A i \in (n + 1)..(n + 1) : i > n
      OBVIOUS
    <3>2. QED
      BY <2>2, <3>1, MatchedAtEnd
  <2>4. f = [i \in (n + 1)..(n + 1) |-> MatchedFrom(text, needle, i, f)]
    BY <2>1, <2>3
  <2>5. Matching(f, text, needle, n + 1)
    BY <2>4 DEF Matching
  <2>6. n + 1 - 0 = n + 1
    OBVIOUS
  <2>7. QED
    BY <2>5, <2>6
<1>3. ASSUME NEW k \in 1..n, k - 1 \in G PROVE k \in G
  <2> DEFINE m == n + 1 - k
  <2>1. PICK g : Matching(g, text, needle, n + 1 - (k - 1))
    BY <1>3
  <2>2. m \in 1..n /\ n + 1 - (k - 1) = m + 1
    OBVIOUS
  <2> HIDE DEF m
  <2>3. \A i \in (m + 1)..(n + 1) : g[i] = MatchedFrom(text, needle, i, g)
    BY <2>1, <2>2 DEF Matching
  <2> DEFINE first == MatchedFrom(text, needle, m, g)
             f == [i \in m..(n + 1) |-> IF i = m THEN first ELSE g[i]]
  <2>4. f[m] = first /\ \A i \in (m + 1)..(n + 1) : f[i] = g[i]
    <3>1. m \in m..(n + 1) /\ \A i \in (m + 1)..(n + 1) : i # m /\ i \in m..(n + 1)
      BY <2>2
    <3> HIDE DEF first
    <3>2. QED
      BY <3>1
  <2>5. f = [i \in m..(n + 1) |-> f[i]]
    OBVIOUS
  <2> HIDE DEF f
  <2>6. ASSUME NEW i \in m..(n + 1) PROVE f[i] = MatchedFrom(text, needle, i, f)
    <3>1. i \in 1..(n + 1) /\ (i = m \/ i \in (m + 1)..(n + 1))
      BY <2>2
    <3>2. \A j \in (i + 1)..(n + 1) : j \in (m + 1)..(n + 1)
      BY <2>2, <3>1
    <3>3. \A j \in (i + 1)..(n + 1) : f[j] = g[j]
      BY <2>4, <3>2
    <3>4. MatchedFrom(text, needle, i, f) = MatchedFrom(text, needle, i, g)
      BY <3>1, <3>3, LaterOnly
    <3>5. QED
      BY <2>3, <2>4, <3>1, <3>4
  <2>7. f = [i \in m..(n + 1) |-> MatchedFrom(text, needle, i, f)]
    BY <2>5, <2>6
  <2>8. Matching(f, text, needle, m)
    BY <2>7 DEF Matching
  <2>9. QED
    BY <2>8 DEF m
<1> HIDE DEF G
<1>4. \A k \in 1..n : k - 1 \in G => k \in G
  BY <1>3
<1>5. n \in G
  <2>1. \A k \in 0..n : k \in G
    BY <1>1, <1>2, <1>4, EveryPlace
  <2>2. QED
    BY <1>1, <2>1
<1>6. PICK f : Matching(f, text, needle, n + 1 - n)
  BY <1>5 DEF G
<1>7. n + 1 - n = 1
  BY <1>1
<1>8. QED
  BY <1>6, <1>7

LEMMA GlobMatchesIs ==
    ASSUME NEW text, Len(text) \in Nat, NEW needle
    PROVE  \E f : /\ \A i \in 1..(Len(text) + 1) : f[i] = MatchedFrom(text, needle, i, f)
                  /\ GlobMatches(text, needle) <=>
                         1 \in f[1] /\ (Places(text, <<STAR, STAR>>) = {} \/ text = <<STAR, STAR>>)
<1> DEFINE f == CHOOSE g : Matching(g, text, needle, 1)
<1>1. Matching(f, text, needle, 1)
  BY MatchingExists
<1>2. GlobMatches(text, needle) <=>
          1 \in f[1] /\ (Places(text, <<STAR, STAR>>) = {} \/ text = <<STAR, STAR>>)
  BY DEF GlobMatches, Matching
<1> HIDE DEF f
<1>3. \A i \in 1..(Len(text) + 1) : f[i] = MatchedFrom(text, needle, i, f)
  BY <1>1 DEF Matching
<1>4. QED
  BY <1>2, <1>3

-----------------------------------------------------------------------------
(***************************************************************************)
(* A text fits what a glob has from a place on, piece by piece.            *)
(***************************************************************************)

\* The character c of a glob takes the needle from after place a up to place b.
Suits(c, needle, a, b) ==
    IF c = STAR THEN b >= a ELSE b = a + 1 /\ c \in {QUESTION, needle[b]}

Cuts(cut, needle, glob, i) ==
    /\ cut \in [i..Len(glob) -> 0..Len(needle)]
    /\ cut[Len(glob)] = Len(needle)
    /\ \A k \in (i + 1)..Len(glob) : Suits(glob[k], needle, cut[k - 1], cut[k])

FitsFrom(needle, glob, i, a) == \E cut : Cuts(cut, needle, glob, i) /\ cut[i] = a

LEMMA FitsIs ==
    ASSUME NEW needle \in Seq(Byte), NEW glob \in Seq(Byte)
    PROVE  Fits(needle, glob) <=> FitsFrom(needle, glob, 0, 0)
<1> DEFINE n == Len(glob)
<1>1. DOMAIN glob = 1..n /\ n \in Nat /\ (0 + 1)..n = 1..n
  OBVIOUS
<1> HIDE DEF n
<1>2. ASSUME NEW cut, \A i \in 1..n :
                 IF glob[i] = STAR THEN cut[i] >= cut[i - 1]
                 ELSE cut[i] = cut[i - 1] + 1 /\ glob[i] \in {QUESTION, needle[cut[i]]}
      PROVE  \A k \in 1..n : Suits(glob[k], needle, cut[k - 1], cut[k])
  BY <1>2 DEF Suits
<1>3. ASSUME NEW cut, \A k \in 1..n : Suits(glob[k], needle, cut[k - 1], cut[k])
      PROVE  \A i \in 1..n :
                 IF glob[i] = STAR THEN cut[i] >= cut[i - 1]
                 ELSE cut[i] = cut[i - 1] + 1 /\ glob[i] \in {QUESTION, needle[cut[i]]}
  BY <1>3 DEF Suits
<1>4. ASSUME Fits(needle, glob) PROVE FitsFrom(needle, glob, 0, 0)
  <2>1. PICK cut \in [0..n -> 0..Len(needle)] :
            /\ cut[0] = 0 /\ cut[n] = Len(needle)
            /\ \A i \in 1..n :
                   IF glob[i] = STAR THEN cut[i] >= cut[i - 1]
                   ELSE cut[i] = cut[i - 1] + 1 /\ glob[i] \in {QUESTION, needle[cut[i]]}
    BY <1>1, <1>4 DEF Fits, n
  <2>2. \A k \in 1..n : Suits(glob[k], needle, cut[k - 1], cut[k])
    BY <1>2, <2>1
  <2>3. Cuts(cut, needle, glob, 0)
    BY <1>1, <2>1, <2>2 DEF Cuts, n
  <2>4. QED
    BY <2>1, <2>3 DEF FitsFrom
<1>5. ASSUME FitsFrom(needle, glob, 0, 0) PROVE Fits(needle, glob)
  <2>1. PICK cut : Cuts(cut, needle, glob, 0) /\ cut[0] = 0
    BY <1>5 DEF FitsFrom
  <2>2. /\ cut \in [0..n -> 0..Len(needle)] /\ cut[n] = Len(needle)
        /\ \A k \in 1..n : Suits(glob[k], needle, cut[k - 1], cut[k])
    BY <1>1, <2>1 DEF Cuts, n
  <2>3. \A i \in 1..n :
            IF glob[i] = STAR THEN cut[i] >= cut[i - 1]
            ELSE cut[i] = cut[i - 1] + 1 /\ glob[i] \in {QUESTION, needle[cut[i]]}
    BY <1>3, <2>2
  <2>4. QED
    BY <1>1, <2>1, <2>2, <2>3 DEF Fits, n
<1>6. QED
  BY <1>4, <1>5

LEMMA FitsLast ==
    ASSUME NEW needle \in Seq(Byte), NEW glob \in Seq(Byte), NEW a \in 0..Len(needle)
    PROVE  FitsFrom(needle, glob, Len(glob), a) <=> a = Len(needle)
<1> DEFINE n == Len(glob)
           m == Len(needle)
<1>1. n \in Nat /\ m \in Nat
  OBVIOUS
<1> HIDE DEF n, m
<1>2. ASSUME FitsFrom(needle, glob, n, a) PROVE a = m
  BY <1>2 DEF FitsFrom, Cuts, n, m
<1>3. ASSUME a = m PROVE FitsFrom(needle, glob, n, a)
  <2> DEFINE cut == [k \in n..n |-> m]
  <2>1. cut \in [n..n -> 0..m] /\ cut[n] = m /\ (n + 1)..n = {}
    BY <1>1
  <2> HIDE DEF cut
  <2>2. Cuts(cut, needle, glob, n)
    BY <2>1 DEF Cuts, n, m
  <2>3. QED
    BY <1>3, <2>1, <2>2 DEF FitsFrom
<1>4. QED
  BY <1>2, <1>3 DEF n, m

LEMMA FitsNext ==
    ASSUME NEW needle \in Seq(Byte), NEW glob \in Seq(Byte), NEW i \in 1..Len(glob),
           NEW a \in 0..Len(needle)
    PROVE  FitsFrom(needle, glob, i - 1, a) <=>
               \E b \in 0..Len(needle) : Suits(glob[i], needle, a, b) /\ FitsFrom(needle, glob, i, b)
<1> DEFINE n == Len(glob)
           m == Len(needle)
<1>1. n \in Nat /\ m \in Nat /\ i \in 1..n /\ a \in 0..m
  OBVIOUS
<1> HIDE DEF n, m
<1>2. ASSUME FitsFrom(needle, glob, i - 1, a)
      PROVE  \E b \in 0..m : Suits(glob[i], needle, a, b) /\ FitsFrom(needle, glob, i, b)
  <2>1. PICK cut : Cuts(cut, needle, glob, i - 1) /\ cut[i - 1] = a
    BY <1>2 DEF FitsFrom
  <2>2. /\ cut \in [(i - 1)..n -> 0..m] /\ cut[n] = m
        /\ \A k \in i..n : Suits(glob[k], needle, cut[k - 1], cut[k])
    <3>1. (i - 1) + 1 = i
      BY <1>1
    <3>2. QED
      BY <2>1, <3>1 DEF Cuts, n, m
  <2> DEFINE rest == [k \in i..n |-> cut[k]]
  <2>3. rest \in [i..n -> 0..m] /\ \A k \in i..n : rest[k] = cut[k]
    BY <1>1, <2>2
  <2> HIDE DEF rest
  <2>4. ASSUME NEW k \in (i + 1)..n PROVE Suits(glob[k], needle, rest[k - 1], rest[k])
    <3>1. k \in i..n /\ k - 1 \in i..n
      BY <1>1
    <3>2. QED
      BY <2>2, <2>3, <3>1
  <2>5. rest[n] = m /\ rest[i] = cut[i] /\ cut[i] \in 0..m
    BY <1>1, <2>2, <2>3
  <2>6. Cuts(rest, needle, glob, i)
    BY <2>3, <2>4, <2>5 DEF Cuts, n, m
  <2>7. FitsFrom(needle, glob, i, cut[i])
    BY <2>5, <2>6 DEF FitsFrom
  <2>8. Suits(glob[i], needle, a, cut[i])
    BY <1>1, <2>1, <2>2
  <2>9. QED
    BY <2>5, <2>7, <2>8
<1>3. ASSUME NEW b \in 0..m, Suits(glob[i], needle, a, b), FitsFrom(needle, glob, i, b)
      PROVE  FitsFrom(needle, glob, i - 1, a)
  <2>1. PICK rest : Cuts(rest, needle, glob, i) /\ rest[i] = b
    BY <1>3 DEF FitsFrom
  <2>2. /\ rest \in [i..n -> 0..m] /\ rest[n] = m
        /\ \A k \in (i + 1)..n : Suits(glob[k], needle, rest[k - 1], rest[k])
    BY <2>1 DEF Cuts, n, m
  <2> DEFINE cut == [k \in (i - 1)..n |-> IF k = i - 1 THEN a ELSE rest[k]]
  <2>3. /\ cut \in [(i - 1)..n -> 0..m] /\ cut[i - 1] = a
        /\ \A k \in i..n : cut[k] = rest[k]
    BY <1>1, <2>2
  <2> HIDE DEF cut
  <2>4. ASSUME NEW k \in i..n PROVE Suits(glob[k], needle, cut[k - 1], cut[k])
    <3>1. CASE k = i
      BY <1>3, <2>1, <2>3, <3>1
    <3>2. CASE k # i
      <4>1. k \in (i + 1)..n /\ k - 1 \in i..n
        BY <1>1, <3>2
      <4>2. QED
        BY <2>2, <2>3, <4>1
    <3>3. QED
      BY <3>1, <3>2
  <2>5. cut[n] = m
    BY <1>1, <2>2, <2>3
  <2>6. (i - 1) + 1 = i
    BY <1>1
  <2>7. Cuts(cut, needle, glob, i - 1)
    BY <2>3, <2>4, <2>5, <2>6 DEF Cuts, n, m
  <2>8. QED
    BY <2>3, <2>7 DEF FitsFrom
<1>4. QED
  BY <1>2, <1>3 DEF m

-----------------------------------------------------------------------------
(***************************************************************************)
(* What the glob makes of a block is what the character is meant for.      *)
(***************************************************************************)
LEMMA MatchedType ==
    ASSUME NEW text \in Seq(Byte), NEW needle \in Seq(Byte), NEW i, NEW later
    PROVE  MatchedFrom(text, needle, i, later) \subseteq 1..(Len(needle) + 1)
<1>1. DOMAIN needle = 1..Len(needle) /\ Len(needle) \in Nat
  OBVIOUS
<1>2. CASE i > Len(text)
  BY <1>1, <1>2, MatchedAtEnd
<1>3. CASE ~(i > Len(text)) /\ text[i] = STAR
  BY <1>3, MatchedAtStar
<1>4. CASE ~(i > Len(text)) /\ text[i] = OPEN
  <2>1. MatchedFrom(text, needle, i, later) = InClass(text, needle, i, later, Min(Class(text, i)))
    BY <1>4, MatchedAtClass
  <2>2. MatchedFrom(text, needle, i, later) \subseteq DOMAIN needle
    BY <2>1 DEF InClass
  <2>3. QED
    BY <1>1, <2>2
<1>5. CASE ~(i > Len(text)) /\ text[i] # STAR /\ text[i] # OPEN
  <2>1. MatchedFrom(text, needle, i, later) \subseteq DOMAIN needle
    BY <1>5, MatchedAtOther
  <2>2. QED
    BY <1>1, <2>1
<1>6. QED
  BY <1>2, <1>3, <1>4, <1>5

\* Where the block of a character stands in the text, and what is there.
LEMMA BlockPlaces ==
    ASSUME NEW pattern \in Seq(Byte), NEW text, NEW L, Laid_out(L, pattern, text),
           NEW i \in 1..Len(pattern)
    PROVE  /\ L[i - 1] \in Nat /\ L[i] \in Nat /\ L[i] <= Len(text)
           /\ pattern[i] \in {OPEN, CLOSE} =>
                  /\ L[i] = L[i - 1] + 3 /\ text[L[i - 1] + 1] = OPEN
                  /\ text[L[i - 1] + 2] = pattern[i] /\ text[L[i - 1] + 3] = CLOSE
           /\ pattern[i] \notin {OPEN, CLOSE} =>
                  L[i] = L[i - 1] + 1 /\ text[L[i - 1] + 1] = pattern[i]
<1> DEFINE c == pattern[i]
           block == Block(c)
<1>1. L[i - 1] \in Nat /\ L[i] \in Nat
  BY DEF Laid_out
<1>2. /\ L[i] = L[i - 1] + Len(block) /\ L[i] <= Len(text)
      /\ \A x \in 1..Len(block) : text[L[i - 1] + x] = block[x]
  BY DEF Laid_out
<1>3. CASE c \in {OPEN, CLOSE}
  <2>1. block = <<OPEN, c, CLOSE>>
    BY <1>3 DEF Block
  <2>2. Len(block) = 3 /\ block[1] = OPEN /\ block[2] = c /\ block[3] = CLOSE
    BY <2>1
  <2> HIDE DEF block
  <2>3. 1 \in 1..Len(block) /\ 2 \in 1..Len(block) /\ 3 \in 1..Len(block)
    BY <2>2
  <2>4. /\ L[i] = L[i - 1] + 3 /\ text[L[i - 1] + 1] = OPEN
        /\ text[L[i - 1] + 2] = c /\ text[L[i - 1] + 3] = CLOSE
    BY <1>2, <2>2, <2>3
  <2>5. QED
    BY <1>1, <1>2, <1>3, <2>4
<1>4. CASE c \notin {OPEN, CLOSE}
  <2>1. block = <<c>>
    BY <1>4 DEF Block
  <2>2. Len(block) = 1 /\ block[1] = c
    BY <2>1
  <2> HIDE DEF block
  <2>3. 1 \in 1..Len(block)
    BY <2>2
  <2>4. L[i] = L[i - 1] + 1 /\ text[L[i - 1] + 1] = c
    BY <1>2, <2>2, <2>3
  <2>5. QED
    BY <1>1, <1>2, <1>4, <2>4
<1>5. QED
  BY <1>3, <1>4

LEMMA BlockMatches ==
    ASSUME NEW pattern \in Seq(Byte), NEW needle \in Seq(Byte), NEW text \in Seq(Byte),
           NEW L, Laid_out(L, pattern, text),
           NEW f, \A i \in 1..(Len(text) + 1) : f[i] = MatchedFrom(text, needle, i, f),
           NEW i \in 1..Len(pattern), NEW a \in 0..Len(needle)
    PROVE  a + 1 \in f[L[i - 1] + 1] <=>
               \E b \in 0..Len(needle) : Suits(pattern[i], needle, a, b) /\ b + 1 \in f[L[i] + 1]
<1> DEFINE m == Len(needle)
           n == Len(text)
           c == pattern[i]
           x == L[i - 1] + 1
           y == L[i] + 1
<1>1. /\ m \in Nat /\ n \in Nat /\ DOMAIN needle = 1..m
      /\ a \in Nat /\ a <= m
  OBVIOUS
<1>2. L[i - 1] \in Nat /\ L[i] \in Nat /\ L[i] <= n
  BY BlockPlaces
<1>3. c \in {OPEN, CLOSE} =>
          L[i] = L[i - 1] + 3 /\ text[L[i - 1] + 1] = OPEN
          /\ text[L[i - 1] + 2] = c /\ text[L[i - 1] + 3] = CLOSE
  BY BlockPlaces
<1>4. c \notin {OPEN, CLOSE} => L[i] = L[i - 1] + 1 /\ text[L[i - 1] + 1] = c
  BY BlockPlaces
<1>5. x \in 1..n /\ x \in Nat /\ ~(x > n) /\ y \in 1..(n + 1)
  <2>1. L[i] = L[i - 1] + 3 \/ L[i] = L[i - 1] + 1
    BY <1>3, <1>4
  <2> DEFINE u == L[i - 1]
             v == L[i]
  <2>2. u \in Nat /\ v \in Nat /\ v <= n /\ (v = u + 3 \/ v = u + 1)
    BY <1>2, <2>1
  <2> HIDE DEF u, v, n
  <2>3. u + 1 \in 1..n /\ u + 1 \in Nat /\ ~(u + 1 > n) /\ v + 1 \in 1..(n + 1)
    BY <1>1, <2>2
  <2>4. QED
    BY <2>3 DEF u, v
<1>6. c \in {OPEN, CLOSE} =>
          y = x + 3 /\ x + 2 <= n /\ text[x] = OPEN /\ text[x + 1] = c /\ text[x + 2] = CLOSE
  <2> DEFINE u == L[i - 1]
             v == L[i]
  <2>1. u \in Nat /\ v \in Nat /\ v <= n
    BY <1>2
  <2>2. c \in {OPEN, CLOSE} =>
            v = u + 3 /\ text[u + 1] = OPEN /\ text[u + 2] = c /\ text[u + 3] = CLOSE
    BY <1>3
  <2> HIDE DEF u, v, n, c
  <2>3. (u + 1) + 1 = u + 2 /\ (u + 1) + 2 = u + 3
    BY <2>1
  <2>4. v = u + 3 => v + 1 = (u + 1) + 3 /\ (u + 1) + 2 <= n
    BY <1>1, <2>1
  <2>5. QED
    BY <2>2, <2>3, <2>4 DEF u, v
<1>7. c \notin {OPEN, CLOSE} => y = x + 1 /\ text[x] = c
  BY <1>2, <1>4
<1> HIDE DEF c, x, y, m, n
<1>8. f[x] = MatchedFrom(text, needle, x, f)
  BY <1>5 DEF n
<1>9. f[y] \subseteq 1..(m + 1)
  BY <1>5, MatchedType DEF n, m
<1>10. CASE c = STAR
  <2>1. y = x + 1 /\ text[x] = STAR
    BY <1>7, <1>10 DEF STAR, OPEN, CLOSE
  <2>2. f[x] = {j \in 1..(m + 1) : \E k \in f[x + 1] : j <= k}
    BY <1>5, <1>8, <2>1, MatchedAtStar DEF m, n
  <2>3. a + 1 \in f[x] <=> \E k \in f[y] : a + 1 <= k
    BY <1>1, <2>1, <2>2
  <2>4. \A b : Suits(c, needle, a, b) <=> b >= a
    BY <1>10 DEF Suits
  <2>5. ASSUME NEW k \in f[y], a + 1 <= k
        PROVE  \E b \in 0..m : b >= a /\ b + 1 \in f[y]
    <3>1. k \in 1..(m + 1)
      BY <1>9, <2>5
    <3>2. k - 1 \in 0..m /\ k - 1 >= a /\ (k - 1) + 1 = k
      BY <1>1, <2>5, <3>1
    <3>3. QED
      BY <2>5, <3>2
  <2>6. ASSUME NEW b \in 0..m, b >= a, b + 1 \in f[y]
        PROVE  \E k \in f[y] : a + 1 <= k
    BY <1>1, <2>6
  <2>7. QED
    BY <2>3, <2>4, <2>5, <2>6 DEF c, x, y, m
<1>11. CASE c \in {OPEN, CLOSE}
  <2>1. y = x + 3 /\ x + 2 <= n /\ text[x] = OPEN /\ text[x + 1] = c /\ text[x + 2] = CLOSE
    BY <1>6, <1>11
  <2> DEFINE end == x + 2
  <2>2. end \in Class(text, x) /\ Class(text, x) \subseteq Int /\ \A j \in Class(text, x) : end =< j
    BY <1>1, <1>5, <2>1 DEF Class, n
  <2>3. end = Min(Class(text, x))
    BY <2>2, MinIs
  <2>4. end + 1 = y /\ (x + 1)..(end - 1) = {x + 1} /\ Class(text, x) # {}
    BY <1>5, <2>1, <2>2
  <2> HIDE DEF end
  <2>5. f[x] = InClass(text, needle, x, f, end)
    <3>1. ~(x > Len(text))
      BY <1>5 DEF n
    <3>2. MatchedFrom(text, needle, x, f) = InClass(text, needle, x, f, Min(Class(text, x)))
      BY <2>1, <3>1, MatchedAtClass
    <3>3. QED
      BY <1>8, <2>3, <3>2
  <2>6. f[x] = {j \in 1..m : j + 1 \in f[y] /\ c = needle[j]}
    <3>1. \A d : (\E k \in (x + 1)..(end - 1) : text[k] = d) <=> c = d
      BY <2>1, <2>4
    <3>2. QED
      BY <1>1, <2>4, <2>5, <3>1 DEF InClass
  <2>7. c # STAR /\ c # QUESTION
    BY <1>11 DEF OPEN, CLOSE, STAR, QUESTION
  <2>8. \A b : Suits(c, needle, a, b) <=> b = a + 1 /\ c = needle[b]
    BY <2>7 DEF Suits
  <2>9. a + 1 \in f[x] <=> a + 1 \in 1..m /\ (a + 1) + 1 \in f[y] /\ c = needle[a + 1]
    BY <2>6
  <2>10. (\E b \in 0..m : Suits(c, needle, a, b) /\ b + 1 \in f[y]) <=>
             a + 1 \in 0..m /\ c = needle[a + 1] /\ (a + 1) + 1 \in f[y]
    BY <2>8
  <2>11. a + 1 \in 0..m <=> a + 1 \in 1..m
    BY <1>1
  <2>12. QED
    BY <2>9, <2>10, <2>11 DEF c, x, y, m
<1>12. CASE c # STAR /\ c \notin {OPEN, CLOSE}
  <2>1. y = x + 1 /\ text[x] = c /\ c # OPEN
    BY <1>7, <1>12
  <2>2. f[x] = {j \in DOMAIN needle : text[x] \in {QUESTION, needle[j]} /\ j + 1 \in f[x + 1]}
    BY <1>5, <1>8, <1>12, <2>1, MatchedAtOther DEF n
  <2>3. f[x] = {j \in 1..m : c \in {QUESTION, needle[j]} /\ j + 1 \in f[y]}
    BY <1>1, <2>1, <2>2
  <2>4. \A b : Suits(c, needle, a, b) <=> b = a + 1 /\ c \in {QUESTION, needle[b]}
    BY <1>12 DEF Suits
  <2>5. a + 1 \in f[x] <=>
            a + 1 \in 1..m /\ c \in {QUESTION, needle[a + 1]} /\ (a + 1) + 1 \in f[y]
    BY <2>3
  <2>6. (\E b \in 0..m : Suits(c, needle, a, b) /\ b + 1 \in f[y]) <=>
            a + 1 \in 0..m /\ c \in {QUESTION, needle[a + 1]} /\ (a + 1) + 1 \in f[y]
    BY <2>4
  <2>7. a + 1 \in 0..m <=> a + 1 \in 1..m
    BY <1>1
  <2>8. QED
    BY <2>5, <2>6, <2>7 DEF c, x, y, m
<1>13. QED
  BY <1>10, <1>11, <1>12

-----------------------------------------------------------------------------
(***************************************************************************)
(* Two stars side by side stay so in the escaped text, and none come up.   *)
(***************************************************************************)
LEMMA PairPlaces ==
    ASSUME NEW text \in Seq(Byte), NEW c \in Byte, NEW d \in Byte, NEW x
    PROVE  x \in Places(text, <<c, d>>) <=>
               x \in 1..(Len(text) - 1) /\ text[x] = c /\ text[x + 1] = d
<1> DEFINE n == Len(text)
           sep == <<c, d>>
<1>1. n \in Nat /\ Len(sep) = 2 /\ n - Len(sep) + 1 = n - 1
  OBVIOUS
<1>2. x \in Places(text, sep) <=> x \in 1..(n - 1) /\ SubSeq(text, x, x + 1) = sep
  <2>1. \A y \in 1..(n - 1) : y + Len(sep) - 1 = y + 1
    BY <1>1
  <2>2. x \in Places(text, sep) <=>
            x \in 1..(n - 1) /\ SubSeq(text, x, x + Len(sep) - 1) = sep
    BY <1>1 DEF Places
  <2>3. QED
    BY <2>1, <2>2
<1>3. ASSUME x \in 1..(n - 1)
      PROVE  SubSeq(text, x, x + 1) = sep <=> text[x] = c /\ text[x + 1] = d
  <2>1. x \in Nat /\ x \in 1..n /\ x + 1 \in 1..n
    BY <1>1, <1>3
  <2> DEFINE s == SubSeq(text, x, x + 1)
  <2>2. s \in Seq(Byte) /\ Len(s) = 2 /\ s[1] = text[x] /\ s[2] = text[x + 1]
    BY <2>1
  <2> HIDE DEF s
  <2>3. s = <<s[1], s[2]>>
    BY <2>2
  <2>4. ASSUME s = sep PROVE text[x] = c /\ text[x + 1] = d
    BY <2>2, <2>4
  <2>5. ASSUME text[x] = c, text[x + 1] = d PROVE s = sep
    BY <2>2, <2>3, <2>5
  <2>6. QED
    BY <2>4, <2>5 DEF s
<1>4. QED
  BY <1>2, <1>3

\* Every character of the text is in a block, and no block is empty.
LEMMA InBlock ==
    ASSUME NEW pattern \in Seq(Byte), NEW text \in Seq(Byte), NEW L,
           Laid_out(L, pattern, text), NEW x \in 1..Len(text)
    PROVE  \E i \in 1..Len(pattern) : L[i - 1] < x /\ x <= L[i]
<1> DEFINE n == Len(pattern)
           T == {i \in 0..n : x <= L[i]}
<1>1. n \in Nat /\ L \in [0..n -> Nat] /\ L[0] = 0 /\ L[n] = Len(text) /\ Len(text) \in Nat
  BY DEF Laid_out
<1>2. n \in T /\ T \subseteq Nat
  BY <1>1
<1>3. PICK i \in T : \A y \in T : ~(y < i)
  BY <1>2, Least
<1>4. i \in 1..n
  BY <1>1, <1>3
<1>5. i - 1 \notin T /\ i - 1 \in 0..n
  BY <1>3, <1>4
<1>6. L[i - 1] < x
  BY <1>1, <1>5
<1>7. QED
  BY <1>3, <1>4, <1>6

LEMMA BlocksGrow ==
    ASSUME NEW pattern \in Seq(Byte), NEW text, NEW L, Laid_out(L, pattern, text)
    PROVE  \A i \in 0..Len(pattern) : i <= L[i]
<1> DEFINE n == Len(pattern)
           G == {i \in 0..n : i <= L[i]}
<1>1. n \in Nat /\ L[0] = 0
  BY DEF Laid_out
<1>2. 0 \in G
  BY <1>1
<1>3. ASSUME NEW i \in 1..n, i - 1 \in G PROVE i \in G
  <2>1. L[i - 1] \in Nat /\ L[i] \in Nat
    BY BlockPlaces
  <2>2. L[i] = L[i - 1] + 3 \/ L[i] = L[i - 1] + 1
    BY BlockPlaces
  <2>3. i - 1 <= L[i - 1]
    BY <1>3
  <2>4. QED
    BY <2>1, <2>2, <2>3
<1> HIDE DEF G
<1>4. \A i \in 1..n : i - 1 \in G => i \in G
  BY <1>3
<1>5. \A i \in 0..n : i \in G
  BY <1>1, <1>2, <1>4, EveryPlace
<1>6. QED
  BY <1>5 DEF G

\* A star of the text is one of the pattern.
LEMMA StarBlock ==
    ASSUME NEW pattern \in Seq(Byte), NEW text \in Seq(Byte), NEW L,
           Laid_out(L, pattern, text), NEW i \in 1..Len(pattern), NEW x \in Nat,
           L[i - 1] < x, x <= L[i], text[x] = STAR
    PROVE  pattern[i] = STAR /\ x = L[i - 1] + 1 /\ L[i] = x
<1>1. L[i - 1] \in Nat /\ L[i] \in Nat
  BY BlockPlaces
<1>2. pattern[i] \notin {OPEN, CLOSE}
  <2> SUFFICES ASSUME pattern[i] \in {OPEN, CLOSE} PROVE FALSE
    OBVIOUS
  <2>1. /\ L[i] = L[i - 1] + 3 /\ text[L[i - 1] + 1] = OPEN
        /\ text[L[i - 1] + 2] = pattern[i] /\ text[L[i - 1] + 3] = CLOSE
    <3>1. L[i] = L[i - 1] + 3
      BY BlockPlaces
    <3>2. text[L[i - 1] + 1] = OPEN
      BY BlockPlaces
    <3>3. text[L[i - 1] + 2] = pattern[i]
      BY BlockPlaces
    <3>4. text[L[i - 1] + 3] = CLOSE
      BY BlockPlaces
    <3>5. QED
      BY <3>1, <3>2, <3>3, <3>4
  <2>2. x = L[i - 1] + 1 \/ x = L[i - 1] + 2 \/ x = L[i - 1] + 3
    <3> DEFINE u == L[i - 1]
               v == L[i]
    <3>1. u \in Nat /\ v = u + 3 /\ u < x /\ x <= v
      BY <1>1, <2>1
    <3> HIDE DEF u, v
    <3>2. x = u + 1 \/ x = u + 2 \/ x = u + 3
      BY <3>1
    <3>3. QED
      BY <3>2 DEF u
  <2>3. text[x] \in {OPEN, CLOSE}
    BY <2>1, <2>2
  <2>4. QED
    BY <2>3 DEF STAR, OPEN, CLOSE
<1>3. L[i] = L[i - 1] + 1 /\ text[L[i - 1] + 1] = pattern[i]
  BY <1>2, BlockPlaces
<1>4. x = L[i - 1] + 1
  BY <1>1, <1>3
<1>5. QED
  BY <1>3, <1>4

LEMMA StarsFrom ==
    ASSUME NEW pattern \in Seq(Byte), NEW text \in Seq(Byte), NEW L,
           Laid_out(L, pattern, text), NEW i \in Places(pattern, <<STAR, STAR>>)
    PROVE  L[i - 1] + 1 \in Places(text, <<STAR, STAR>>)
<1> DEFINE n == Len(pattern)
           u == L[i - 1]
<1>1. STAR \in Byte /\ STAR \notin {OPEN, CLOSE}
  BY DEF STAR, Byte, OPEN, CLOSE
<1>2. i \in 1..(n - 1) /\ pattern[i] = STAR /\ pattern[i + 1] = STAR
  BY <1>1, PairPlaces
<1>3. n \in Nat /\ i \in 1..n /\ i + 1 \in 1..n /\ (i + 1) - 1 = i
  BY <1>2
<1>4. u \in Nat /\ L[i] = u + 1 /\ text[u + 1] = STAR
  BY <1>1, <1>2, <1>3, BlockPlaces
<1>5. L[i + 1] = L[i] + 1 /\ text[L[i] + 1] = STAR /\ L[i + 1] <= Len(text)
  <2>1. /\ L[i + 1] = L[(i + 1) - 1] + 1 /\ text[L[(i + 1) - 1] + 1] = STAR
        /\ L[i + 1] <= Len(text)
    BY <1>1, <1>2, <1>3, BlockPlaces
  <2>2. QED
    BY <1>3, <2>1
<1> HIDE DEF u
<1>6. u + 1 \in 1..(Len(text) - 1) /\ text[u + 1] = STAR /\ text[(u + 1) + 1] = STAR
  BY <1>4, <1>5
<1>7. QED
  BY <1>1, <1>6, PairPlaces DEF u

LEMMA StarsTo ==
    ASSUME NEW pattern \in Seq(Byte), NEW text \in Seq(Byte), NEW L,
           Laid_out(L, pattern, text), NEW x \in Places(text, <<STAR, STAR>>)
    PROVE  \E i \in Places(pattern, <<STAR, STAR>>) : x = L[i - 1] + 1
<1> DEFINE n == Len(pattern)
<1>1. STAR \in Byte /\ STAR \notin {OPEN, CLOSE} /\ STAR # OPEN
  BY DEF STAR, Byte, OPEN, CLOSE
<1>2. x \in 1..(Len(text) - 1) /\ text[x] = STAR /\ text[x + 1] = STAR
  BY <1>1, PairPlaces
<1>3. x \in 1..Len(text) /\ x \in Nat
  BY <1>2
<1>4. PICK i \in 1..n : L[i - 1] < x /\ x <= L[i]
  BY <1>3, InBlock
<1>5. pattern[i] = STAR /\ x = L[i - 1] + 1 /\ L[i] = x
  BY <1>2, <1>3, <1>4, StarBlock
<1>6. i # n
  <2>1. L[n] = Len(text)
    BY DEF Laid_out
  <2>2. QED
    BY <1>2, <1>5, <2>1
<1>7. i + 1 \in 1..n /\ (i + 1) - 1 = i /\ i \in 1..(n - 1)
  BY <1>6
<1>8. pattern[i + 1] = STAR
  <2>1. pattern[i + 1] \in {OPEN, CLOSE} => text[L[i] + 1] = OPEN
    BY <1>7, BlockPlaces
  <2>2. pattern[i + 1] \notin {OPEN, CLOSE} => text[L[i] + 1] = pattern[i + 1]
    BY <1>7, BlockPlaces
  <2>3. QED
    BY <1>1, <1>2, <1>5, <2>1, <2>2
<1>9. i \in Places(pattern, <<STAR, STAR>>)
  BY <1>1, <1>5, <1>7, <1>8, PairPlaces
<1>10. QED
  BY <1>5, <1>9

\* The escaped text can be parsed when the pattern can.
LEMMA EscapedParses ==
    ASSUME NEW pattern \in Seq(Byte), NEW text \in Seq(Byte), NEW L,
           Laid_out(L, pattern, text)
    PROVE  (Places(text, <<STAR, STAR>>) = {} \/ text = <<STAR, STAR>>) <=> ~Unparsable(pattern)
<1> DEFINE n == Len(pattern)
           stars == <<STAR, STAR>>
<1>1. n \in Nat /\ L[0] = 0 /\ L[n] = Len(text) /\ STAR \in Byte /\ STAR \notin {OPEN, CLOSE}
  BY DEF Laid_out, STAR, Byte, OPEN, CLOSE
<1>2. Len(stars) = 2 /\ stars[1] = STAR /\ stars[2] = STAR /\ stars \in Seq(Byte)
  BY <1>1
<1>3. Places(text, stars) = {} <=> Places(pattern, stars) = {}
  BY StarsFrom, StarsTo
<1>4. ASSUME pattern = stars PROVE text = stars
  <2>1. n = 2 /\ pattern[1] = STAR /\ pattern[2] = STAR /\ 1 \in 1..n /\ 2 \in 1..n
    BY <1>2, <1>4
  <2>2. L[1] = L[1 - 1] + 1 /\ text[L[1 - 1] + 1] = STAR
    BY <1>1, <2>1, BlockPlaces
  <2>3. L[2] = L[2 - 1] + 1 /\ text[L[2 - 1] + 1] = STAR
    BY <1>1, <2>1, BlockPlaces
  <2>4. Len(text) = 2 /\ text[1] = STAR /\ text[2] = STAR
    BY <1>1, <2>1, <2>2, <2>3
  <2>5. text = <<text[1], text[2]>>
    BY <2>4
  <2>6. QED
    BY <2>4, <2>5
<1>5. ASSUME text = stars PROVE pattern = stars
  <2>1. Len(text) = 2 /\ text[1] = STAR /\ text[2] = STAR
    BY <1>2, <1>5
  <2>2. 1 \in Places(text, stars)
    <3>1. 1 \in 1..(Len(text) - 1) /\ text[1 + 1] = STAR
      BY <2>1
    <3>2. QED
      BY <1>1, <2>1, <3>1, PairPlaces
  <2>3. PICK i \in Places(pattern, stars) : 1 = L[i - 1] + 1
    BY <2>2, StarsTo
  <2>4. i \in 1..(n - 1) /\ pattern[i] = STAR /\ pattern[i + 1] = STAR
    BY <1>1, PairPlaces
  <2>5. n <= 2
    BY <1>1, <2>1, BlocksGrow
  <2>6. i = 1 /\ n = 2
    BY <1>1, <2>4, <2>5
  <2>7. pattern[1] = STAR /\ pattern[2] = STAR
    BY <2>4, <2>6
  <2>8. pattern = <<pattern[1], pattern[2]>>
    BY <2>6
  <2>9. QED
    BY <2>7, <2>8
<1>6. QED
  BY <1>3, <1>4, <1>5 DEF Unparsable

-----------------------------------------------------------------------------
(***************************************************************************)
(* The glob of an escaped pattern is the pattern, read as documented.      *)
(***************************************************************************)
LEMMA GlobFits ==
    ASSUME NEW pattern \in Seq(Byte), NEW needle \in Seq(Byte)
    PROVE  GlobMatches(Escaped(pattern), needle) <=> Fits(needle, pattern) /\ ~Unparsable(pattern)
<1> DEFINE n == Len(pattern)
           m == Len(needle)
           text == Escaped(pattern)
<1>1. text \in Seq(Byte) /\ n \in Nat /\ m \in Nat
  BY EscapedLaid
<1>2. PICK L : Laid_out(L, pattern, text)
  BY EscapedLaid
<1>3. Len(text) \in Nat
  BY <1>1
<1>4. PICK f : /\ \A i \in 1..(Len(text) + 1) : f[i] = MatchedFrom(text, needle, i, f)
               /\ GlobMatches(text, needle) <=>
                      1 \in f[1] /\ (Places(text, <<STAR, STAR>>) = {} \/ text = <<STAR, STAR>>)
  BY <1>3, GlobMatchesIs
<1> HIDE DEF text
<1>5. L[0] = 0 /\ L[n] = Len(text)
  BY <1>2 DEF Laid_out
<1> DEFINE Agree(i) == \A a \in 0..m : a + 1 \in f[L[i] + 1] <=> FitsFrom(needle, pattern, i, a)
           G == {k \in 0..n : Agree(n - k)}
<1>6. Agree(n)
  <2> SUFFICES ASSUME NEW a \in 0..m
               PROVE  a + 1 \in f[L[n] + 1] <=> FitsFrom(needle, pattern, n, a)
    OBVIOUS
  <2>1. Len(text) + 1 > Len(text) /\ Len(text) + 1 \in 1..(Len(text) + 1)
    BY <1>3
  <2>2. f[Len(text) + 1] = {m + 1}
    BY <1>4, <2>1, MatchedAtEnd
  <2>3. FitsFrom(needle, pattern, n, a) <=> a = m
    BY FitsLast
  <2>4. a + 1 = m + 1 <=> a = m
    BY <1>1
  <2>5. QED
    BY <1>5, <2>2, <2>3, <2>4
<1>7. ASSUME NEW i \in 1..n, Agree(i) PROVE Agree(i - 1)
  <2> SUFFICES ASSUME NEW a \in 0..m
               PROVE  a + 1 \in f[L[i - 1] + 1] <=> FitsFrom(needle, pattern, i - 1, a)
    OBVIOUS
  <2>1. a + 1 \in f[L[i - 1] + 1] <=>
            \E b \in 0..m : Suits(pattern[i], needle, a, b) /\ b + 1 \in f[L[i] + 1]
    BY <1>1, <1>2, <1>4, BlockMatches
  <2>2. FitsFrom(needle, pattern, i - 1, a) <=>
            \E b \in 0..m : Suits(pattern[i], needle, a, b) /\ FitsFrom(needle, pattern, i, b)
    BY FitsNext
  <2>3. \A b \in 0..m : b + 1 \in f[L[i] + 1] <=> FitsFrom(needle, pattern, i, b)
    BY <1>7
  <2>4. QED
    BY <2>1, <2>2, <2>3
<1> HIDE DEF Agree
<1>8. 0 \in G
  <2>1. n - 0 = n /\ 0 \in 0..n
    BY <1>1
  <2>2. QED
    BY <1>6, <2>1
<1>9. \A k \in 1..n : k - 1 \in G => k \in G
  <2> SUFFICES ASSUME NEW k \in 1..n, k - 1 \in G PROVE k \in G
    OBVIOUS
  <2> DEFINE i == n - (k - 1)
  <2>1. i \in 1..n /\ n - k = i - 1 /\ k \in 0..n
    BY <1>1
  <2>2. Agree(i)
    OBVIOUS
  <2> HIDE DEF i
  <2>3. Agree(i - 1)
    BY <1>7, <2>1, <2>2
  <2>4. QED
    BY <2>1, <2>3
<1> HIDE DEF G
<1>10. n \in G
  <2>1. \A k \in 0..n : k \in G
    BY <1>1, <1>8, <1>9, EveryPlace
  <2>2. QED
    BY <1>1, <2>1
<1>11. Agree(0)
  <2>1. Agree(n - n) /\ n - n = 0
    BY <1>1, <1>10 DEF G
  <2>2. QED
    BY <2>1
<1>12. 1 \in f[1] <=> FitsFrom(needle, pattern, 0, 0)
  <2>1. 0 \in 0..m /\ 0 + 1 = 1 /\ L[0] + 1 = 1
    BY <1>1, <1>5
  <2>2. 0 + 1 \in f[L[0] + 1] <=> FitsFrom(needle, pattern, 0, 0)
    BY <1>11, <2>1 DEF Agree
  <2>3. QED
    BY <2>1, <2>2
<1>13. (Places(text, <<STAR, STAR>>) = {} \/ text = <<STAR, STAR>>) <=> ~Unparsable(pattern)
  BY <1>1, <1>2, EscapedParses
<1>14. QED
  BY <1>4, <1>12, <1>13, FitsIs DEF text

\* Without a wildcard, a text fits a pattern when it is the pattern.
LEMMA PlainFits ==
    ASSUME NEW pattern \in Seq(Byte), NEW needle \in Seq(Byte),
           \A i \in 1..Len(pattern) : pattern[i] # STAR /\ pattern[i] # QUESTION
    PROVE  needle = pattern <=> Fits(needle, pattern) /\ ~Unparsable(pattern)
<1> DEFINE n == Len(pattern)
           m == Len(needle)
<1>1. n \in Nat /\ m \in Nat /\ DOMAIN pattern = 1..n /\ DOMAIN needle = 1..m
  OBVIOUS
<1>2. ~Unparsable(pattern)
  <2>1. STAR \in Byte
    BY DEF STAR, Byte
  <2>2. \A x : x \notin Places(pattern, <<STAR, STAR>>)
    <3> SUFFICES ASSUME NEW x, x \in Places(pattern, <<STAR, STAR>>) PROVE FALSE
      OBVIOUS
    <3>1. x \in 1..(n - 1) /\ pattern[x] = STAR
      BY <2>1, PairPlaces
    <3>2. x \in 1..n
      BY <1>1, <3>1
    <3>3. QED
      BY <3>1, <3>2
  <2>3. QED
    BY <2>2 DEF Unparsable
<1>3. ASSUME needle = pattern PROVE Fits(needle, pattern)
  <2> DEFINE cut == [i \in 0..n |-> i]
  <2>1. cut \in [0..n -> 0..m] /\ cut[0] = 0 /\ cut[n] = m
    BY <1>1, <1>3
  <2>2. \A i \in 1..n : cut[i] = cut[i - 1] + 1 /\ cut[i] = i
    BY <1>1
  <2> HIDE DEF cut
  <2>3. \A i \in DOMAIN pattern :
            IF pattern[i] = STAR THEN cut[i] >= cut[i - 1]
            ELSE cut[i] = cut[i - 1] + 1 /\ pattern[i] \in {QUESTION, needle[cut[i]]}
    BY <1>1, <1>3, <2>2
  <2>4. QED
    BY <2>1, <2>3 DEF Fits
<1>4. ASSUME Fits(needle, pattern) PROVE needle = pattern
  <2>1. PICK cut \in [0..n -> 0..m] :
            /\ cut[0] = 0 /\ cut[n] = m
            /\ \A i \in DOMAIN pattern :
                   IF pattern[i] = STAR THEN cut[i] >= cut[i - 1]
                   ELSE cut[i] = cut[i - 1] + 1 /\ pattern[i] \in {QUESTION, needle[cut[i]]}
    BY <1>4 DEF Fits
  <2>2. \A i \in 1..n : cut[i] = cut[i - 1] + 1 /\ pattern[i] = needle[cut[i]]
    BY <1>1, <2>1
  <2> DEFINE G == {i \in 0..n : cut[i] = i}
  <2>3. 0 \in G
    BY <1>1, <2>1
  <2>4. \A i \in 1..n : i - 1 \in G => i \in G
    BY <1>1, <2>2
  <2> HIDE DEF G
  <2>5. \A i \in 0..n : i \in G
    BY <1>1, <2>3, <2>4, EveryPlace
  <2>6. \A i \in 0..n : cut[i] = i
    BY <2>5 DEF G
  <2>7. m = n
    <3>1. n \in 0..n
      BY <1>1
    <3>2. QED
      BY <2>1, <2>6, <3>1
  <2>8. \A i \in 1..n : needle[i] = pattern[i]
    <3>1. \A i \in 1..n : i \in 0..n
      BY <1>1
    <3>2. QED
      BY <2>2, <2>6, <3>1
  <2>9. QED
    BY <1>1, <2>7, <2>8
<1>5. QED
  BY <1>2, <1>3, <1>4

LEMMA GlobAsDocumented ==
    ASSUME NEW pattern \in Seq(Byte), NEW needle \in Seq(Byte)
    PROVE  matched_glob(needle, pattern) <=> Fits(needle, pattern) /\ ~Unparsable(pattern)
<1>1. CASE Contains(pattern, STAR) \/ Contains(pattern, QUESTION)
  BY <1>1, GlobFits DEF matched_glob
<1>2. CASE ~(Contains(pattern, STAR) \/ Contains(pattern, QUESTION))
  <2>1. \A i \in 1..Len(pattern) : pattern[i] # STAR /\ pattern[i] # QUESTION
    BY <1>2 DEF Contains
  <2>2. needle = pattern <=> Fits(needle, pattern) /\ ~Unparsable(pattern)
    BY <2>1, PlainFits
  <2>3. QED
    BY <1>2, <2>2 DEF matched_glob
<1>3. QED
  BY <1>1, <1>2

-----------------------------------------------------------------------------
(***************************************************************************)
(* [host]:port, and how PatternMatches takes it apart.                     *)
(***************************************************************************)
LEMMA BracketedLen ==
    ASSUME NEW h \in Seq(Byte), NEW q \in Seq(Byte)
    PROVE  Bracketed(h, q) \in Seq(Byte) /\ Len(Bracketed(h, q)) = Len(h) + Len(q) + 3
BY DEF Bracketed, Byte, OPEN, CLOSE, COLON

LEMMA BracketedAt ==
    ASSUME NEW h \in Seq(Byte), NEW q \in Seq(Byte)
    PROVE  /\ Bracketed(h, q)[1] = OPEN
           /\ \A x \in 1..Len(h) : Bracketed(h, q)[x + 1] = h[x]
           /\ Bracketed(h, q)[Len(h) + 2] = CLOSE
           /\ Bracketed(h, q)[Len(h) + 3] = COLON
           /\ \A x \in 1..Len(q) : Bracketed(h, q)[Len(h) + 3 + x] = q[x]
<1> DEFINE open == <<OPEN>>
           ends == <<CLOSE, COLON>>
           one == Cat(open, h)
           two == Cat(one, ends)
           all == Cat(two, q)
           k == Len(h)
<1>1. one = Cat(open, h) /\ two = Cat(one, ends) /\ all = Cat(two, q) /\ Bracketed(h, q) = all
  BY DEF Bracketed, Cat
<1>2. /\ open \in Seq(Byte) /\ Len(open) = 1 /\ open[1] = OPEN
      /\ ends \in Seq(Byte) /\ Len(ends) = 2 /\ ends[1] = CLOSE /\ ends[2] = COLON
      /\ k \in Nat /\ Len(q) \in Nat
  BY DEF Byte, OPEN, CLOSE, COLON
<1> HIDE DEF open, ends, one, two, all
<1>15. open \in Seq(Byte) /\ ends \in Seq(Byte)
  BY <1>2
<1>3. /\ one \in Seq(Byte) /\ Len(one) = 1 + k
      /\ \A x \in 1..1 : one[x] = open[x]
      /\ \A x \in 1..k : one[1 + x] = h[x]
  <2>1. one \in Seq(Byte)
    BY <1>1, <1>2, CatSeq
  <2>2. Len(one) = 1 + k
    BY <1>1, <1>2, CatLen
  <2>3. \A x \in 1..1 : one[x] = open[x]
    <3>1. \A x \in 1..Len(open) : Cat(open, h)[x] = open[x]
      BY <1>2, CatLeft
    <3>2. QED
      BY <1>1, <1>2, <3>1
  <2>4. \A x \in 1..k : one[1 + x] = h[x]
    <3>1. \A x \in 1..Len(h) : Cat(open, h)[Len(open) + x] = h[x]
      BY <1>15, CatRight
    <3>2. QED
      BY <1>1, <1>2, <3>1
  <2>5. QED
    BY <2>1, <2>2, <2>3, <2>4
<1>4. /\ two \in Seq(Byte) /\ Len(two) = k + 3
      /\ \A x \in 1..(1 + k) : two[x] = one[x]
      /\ \A x \in 1..2 : two[(1 + k) + x] = ends[x]
  <2>1. two \in Seq(Byte)
    BY <1>1, <1>2, <1>3, CatSeq
  <2>2. Len(two) = (1 + k) + 2
    <3>1. Len(Cat(one, ends)) = Len(one) + Len(ends)
      BY <1>2, <1>3, CatLen
    <3>2. QED
      BY <1>1, <1>2, <1>3, <3>1
  <2> DEFINE n == 1 + k
  <2>3. n = Len(one)
    BY <1>3
  <2> HIDE DEF n
  <2>4. \A x \in 1..n : two[x] = one[x]
    <3>1. \A x \in 1..Len(one) : Cat(one, ends)[x] = one[x]
      BY <1>2, <1>3, CatLeft
    <3>2. QED
      BY <1>1, <2>3, <3>1
  <2>5. \A x \in 1..Len(ends) : two[n + x] = ends[x]
    <3>1. \A x \in 1..Len(ends) : Cat(one, ends)[Len(one) + x] = ends[x]
      <4>1. one \in Seq(Byte)
        BY <1>3
      <4>2. QED
        BY <1>15, <4>1, CatRight
    <3>2. QED
      BY <1>1, <2>3, <3>1
  <2>6. (1 + k) + 2 = k + 3
    BY <1>2
  <2>7. QED
    BY <1>2, <2>1, <2>2, <2>4, <2>5, <2>6 DEF n
<1> DEFINE w == k + 3
<1>12. w = Len(two)
  BY <1>4
<1> HIDE DEF w
<1>13. \A x \in 1..w : all[x] = two[x]
  <2>1. \A x \in 1..Len(two) : Cat(two, q)[x] = two[x]
    BY <1>4, CatLeft
  <2>2. QED
    BY <1>1, <1>12, <2>1
<1>14. \A x \in 1..Len(q) : all[w + x] = q[x]
  <2>1. \A x \in 1..Len(q) : Cat(two, q)[Len(two) + x] = q[x]
    <3>1. two \in Seq(Byte)
      BY <1>4
    <3>2. QED
      BY <3>1, CatRight
  <2>2. QED
    BY <1>1, <1>12, <2>1
<1>5. \A x \in 1..(k + 3) : all[x] = two[x]
  BY <1>13 DEF w
<1>6. \A x \in 1..Len(q) : all[(k + 3) + x] = q[x]
  BY <1>14 DEF w
<1> HIDE DEF k
<1>7. all[1] = OPEN
  <2>1. 1 \in 1..1 /\ 1 \in 1..(1 + k) /\ 1 \in 1..(k + 3)
    BY <1>2
  <2>2. QED
    BY <1>2, <1>3, <1>4, <1>5, <2>1
<1>8. \A x \in 1..k : all[x + 1] = h[x]
  <2>1. \A x \in 1..k : x + 1 = 1 + x /\ x + 1 \in 1..(1 + k) /\ x + 1 \in 1..(k + 3)
    BY <1>2
  <2>2. QED
    BY <1>3, <1>4, <1>5, <2>1
<1>9. all[k + 2] = CLOSE
  <2>1. (1 + k) + 1 = k + 2 /\ 1 \in 1..2 /\ k + 2 \in 1..(k + 3)
    BY <1>2
  <2>2. two[(1 + k) + 1] = ends[1]
    BY <1>4, <2>1
  <2>3. QED
    BY <1>2, <1>5, <2>1, <2>2
<1>10. all[k + 3] = COLON
  <2>1. (1 + k) + 2 = k + 3 /\ 2 \in 1..2 /\ k + 3 \in 1..(k + 3)
    BY <1>2
  <2>2. two[(1 + k) + 2] = ends[2]
    BY <1>4, <2>1
  <2>3. QED
    BY <1>2, <1>5, <2>1, <2>2
<1>11. QED
  BY <1>1, <1>6, <1>7, <1>8, <1>9, <1>10 DEF k

\* The last ]: is the one Bracketed puts before the port.
LEMMA BracketedPlaces ==
    ASSUME NEW h \in Seq(Byte), NEW q \in Seq(Byte), Places(q, <<CLOSE, COLON>>) = {}
    PROVE  /\ Places(Bracketed(h, q), <<CLOSE, COLON>>) # {}
           /\ Max(Places(Bracketed(h, q), <<CLOSE, COLON>>)) = Len(h) + 2
<1> DEFINE t == Bracketed(h, q)
           k == Len(h)
           l == Len(q)
           ends == Places(t, <<CLOSE, COLON>>)
<1>1. CLOSE \in Byte /\ COLON \in Byte /\ CLOSE # COLON
  BY DEF CLOSE, COLON, Byte
<1>2. t \in Seq(Byte) /\ Len(t) = k + l + 3 /\ k \in Nat /\ l \in Nat
  <2>1. t \in Seq(Byte) /\ Len(t) = k + l + 3
    BY BracketedLen
  <2>2. k \in Nat /\ l \in Nat
    OBVIOUS
  <2>3. QED
    BY <2>1, <2>2
<1>3. /\ t[k + 2] = CLOSE /\ t[k + 3] = COLON
      /\ \A x \in 1..l : t[k + 3 + x] = q[x]
  BY BracketedAt
<1> HIDE DEF t, k, l
<1>4. \A x : x \in ends <=> x \in 1..(Len(t) - 1) /\ t[x] = CLOSE /\ t[x + 1] = COLON
  BY <1>1, <1>2, PairPlaces
<1> HIDE DEF ends
<1>5. k + 2 \in ends
  <2>1. k + 2 \in 1..(Len(t) - 1) /\ (k + 2) + 1 = k + 3
    BY <1>2
  <2>2. QED
    BY <1>3, <1>4, <2>1
<1>6. ASSUME NEW x \in ends PROVE k + 2 >= x
  <2> SUFFICES ASSUME x > k + 2 PROVE FALSE
    BY <1>2, <1>4
  <2>1. x \in 1..(Len(t) - 1) /\ t[x] = CLOSE /\ t[x + 1] = COLON
    BY <1>4
  <2>2. x # k + 3
    BY <1>1, <1>3, <2>1
  <2> DEFINE y == x - (k + 3)
  <2>3. y \in 1..(l - 1) /\ y \in 1..l /\ y + 1 \in 1..l /\ k + 3 + y = x /\ k + 3 + (y + 1) = x + 1
    BY <1>2, <2>1, <2>2
  <2> HIDE DEF y
  <2>4. q[y] = CLOSE /\ q[y + 1] = COLON
    BY <1>3, <2>1, <2>3
  <2>5. y \in Places(q, <<CLOSE, COLON>>)
    BY <1>1, <2>3, <2>4, PairPlaces DEF l
  <2>6. QED
    BY <2>5
<1>7. ends \subseteq Int /\ k + 2 \in Int
  BY <1>2, <1>4
<1>8. Max(ends) = k + 2
  BY <1>5, <1>6, <1>7, MaxIs
<1>9. QED
  BY <1>5, <1>8 DEF ends, t, k

\* What is before it, without the bracket, and what is after it.
LEMMA BracketedParts ==
    ASSUME NEW h \in Seq(Byte), NEW q \in Seq(Byte)
    PROVE  /\ Before(Bracketed(h, q), Len(h) + 2) # <<>>
           /\ Head(Before(Bracketed(h, q), Len(h) + 2)) = OPEN
           /\ Tail(Before(Bracketed(h, q), Len(h) + 2)) = h
           /\ After(Bracketed(h, q), Len(h) + 2 + 2) = q
<1> DEFINE t == Bracketed(h, q)
           k == Len(h)
           l == Len(q)
           name == Before(t, k + 2)
           rest == After(t, k + 2 + 2)
<1>1. t \in Seq(Byte) /\ Len(t) = k + l + 3 /\ k \in Nat /\ l \in Nat
  <2>1. t \in Seq(Byte) /\ Len(t) = k + l + 3
    BY BracketedLen
  <2>2. k \in Nat /\ l \in Nat
    OBVIOUS
  <2>3. QED
    BY <2>1, <2>2
<1>2. /\ t[1] = OPEN
      /\ \A x \in 1..k : t[x + 1] = h[x]
      /\ \A x \in 1..l : t[k + 3 + x] = q[x]
  BY BracketedAt
<1> HIDE DEF t
<1>3. name \in Seq(Byte) /\ Len(name) = k + 1 /\ \A x \in 1..(k + 1) : name[x] = t[x]
  <2>1. (k + 2) - 1 = k + 1 /\ k + 1 \in 0..Len(t)
    BY <1>1
  <2>2. name = SubSeq(t, 1, k + 1)
    BY <2>1 DEF Before
  <2> HIDE DEF name
  <2>3. QED
    BY <1>1, <2>1, <2>2
<1>4. rest \in Seq(Byte) /\ Len(rest) = l /\ \A x \in 1..l : rest[x] = t[k + 3 + x]
  <2>1. rest = SubSeq(t, k + 4, k + l + 3)
    BY <1>1 DEF After
  <2> HIDE DEF rest
  <2>2. QED
    BY <1>1, <2>1
<1> HIDE DEF name, rest
<1>5. name # <<>> /\ Head(name) = OPEN
  BY <1>1, <1>2, <1>3
<1>6. Tail(name) = h
  <2> DEFINE v == Tail(name)
  <2>1. v \in Seq(Byte) /\ Len(v) = k /\ \A x \in 1..k : v[x] = name[x + 1]
    BY <1>1, <1>3, <1>5
  <2> HIDE DEF v
  <2>2. \A x \in 1..k : v[x] = h[x]
    <3>1. \A x \in 1..k : x + 1 \in 1..(k + 1)
      BY <1>1
    <3>2. QED
      BY <1>2, <1>3, <2>1, <3>1
  <2>3. v = h
    BY <2>1, <2>2
  <2>4. QED
    BY <2>3 DEF v
<1>7. rest = q
  BY <1>1, <1>2, <1>4
<1>8. QED
  BY <1>5, <1>6, <1>7 DEF name, rest, t

-----------------------------------------------------------------------------
(***************************************************************************)
(* Decimal numbers, and a pattern as its text is taken apart.              *)
(***************************************************************************)
LEMMA WidthType ==
    ASSUME NEW w
    PROVE  Width(w) \in 1..5
<1> DEFINE T == {5} \cup {k \in 1..4 : w < Powers[k + 1]}
<1>1. T \subseteq Nat /\ T # {} /\ T \subseteq 1..5
  OBVIOUS
<1>2. Width(w) = Min(T)
  BY DEF Width
<1> HIDE DEF T
<1>3. Min(T) \in T
  BY <1>1, MinIn
<1>4. QED
  BY <1>1, <1>2, <1>3

LEMMA PowersType ==
    ASSUME NEW i \in 1..5
    PROVE  Powers[i] \in Nat /\ Powers[i] > 0
BY DEF Powers

LEMMA DecimalType ==
    ASSUME NEW w \in U16
    PROVE  /\ Decimal(w) \in Seq(Byte) /\ Decimal(w) # NONE
           /\ \A i \in 1..Len(Decimal(w)) : Decimal(w)[i] \in Digit
<1> DEFINE width == Width(w)
           d(i) == 48 + ((w \div Powers[width + 1 - i]) % 10)
<1>1. width \in 1..5
  BY WidthType
<1>2. Decimal(w) = [i \in 1..width |-> d(i)]
  BY DEF Decimal
<1> HIDE DEF width
<1>3. ASSUME NEW i \in 1..width PROVE d(i) \in Digit
  <2> DEFINE P == Powers[width + 1 - i]
  <2>1. width + 1 - i \in 1..5
    BY <1>1
  <2>2. P \in Nat /\ P > 0
    BY <2>1, PowersType
  <2> HIDE DEF P
  <2> DEFINE r == w \div P
  <2>3. r \in Int
    BY <2>2 DEF U16
  <2> HIDE DEF r
  <2>4. r % 10 \in 0..9
    BY <2>3
  <2>5. 48 + (r % 10) \in 48..57
    BY <2>4
  <2>6. QED
    BY <2>5 DEF Digit, r, P
<1> HIDE DEF d
<1>4. Decimal(w) \in Seq(Digit) /\ Len(Decimal(w)) = width
  <2> DEFINE f == Decimal(w)
  <2>1. f = [i \in 1..width |-> d(i)]
    BY <1>2
  <2> HIDE DEF f
  <2>2. f \in Seq(Digit) /\ Len(f) = width
    BY <1>1, <1>3, <2>1
  <2>3. QED
    BY <2>2 DEF f
<1>5. \A i \in 1..Len(Decimal(w)) : Decimal(w)[i] \in Digit
  BY <1>4
<1>6. Digit \subseteq Byte
  BY DEF Digit, Byte
<1>7. Decimal(w) \in Seq(Byte)
  BY <1>4, <1>5, <1>6
<1>8. QED
  BY <1>5, <1>7, NoneIsNoText

LEMMA PortTextNone ==
    ASSUME NEW w \in U16
    PROVE  (PortText(w) = NONE) <=> (w = 22)
<1>1. Decimal(w) # NONE
  BY DecimalType
<1>2. QED
  BY <1>1 DEF PortText

LEMMA PortTextOr ==
    ASSUME NEW w \in U16
    PROVE  Or(PortText(w), Decimal(22)) = Decimal(w)
<1>1. Decimal(w) # NONE
  BY DecimalType
<1>2. CASE w = 22
  <2>1. PortText(w) = NONE
    BY <1>2 DEF PortText
  <2>2. QED
    BY <1>2, <2>1 DEF Or
<1>3. CASE w # 22
  <2>1. PortText(w) = Decimal(w)
    BY <1>3 DEF PortText
  <2>2. QED
    BY <1>1, <2>1 DEF Or
<1>4. QED
  BY <1>2, <1>3

\* About of HostText, for any host and port.
Regards(h, w, p) ==
    /\ Fits(h, p.host) /\ ~Unparsable(p.host)
    /\ IF p.port = NONE THEN w = 22
       ELSE Fits(Decimal(w), p.port) /\ ~Unparsable(p.port)

\* The text of a pattern without its sign.
Body(p) == IF p.port = NONE THEN p.host ELSE Bracketed(p.host, p.port)

\* What PatternReading says of a pattern.
WellRead(p) ==
    IF p.port # NONE THEN Places(p.port, <<CLOSE, COLON>>) = {}
    ELSE /\ Places(p.host, <<CLOSE, COLON>>) = {}
         /\ p.neg \/ p.host = <<>> \/ Head(p.host) # BANG

LEMMA PatternType ==
    ASSUME NEW p \in GlobPattern
    PROVE  /\ p.neg \in BOOLEAN /\ p.host \in Seq(Byte)
           /\ p.port # NONE => p.port \in Seq(Byte)
           /\ Body(p) \in Seq(Byte)
<1>1. /\ p.neg \in BOOLEAN /\ p.host \in Seq(Byte)
      /\ p.port # NONE => p.port \in Seq(Byte)
  BY DEF GlobPattern
<1>2. CASE p.port = NONE
  BY <1>1, <1>2 DEF Body
<1>3. CASE p.port # NONE
  <2>1. Bracketed(p.host, p.port) \in Seq(Byte)
    BY <1>1, <1>3, BracketedLen
  <2>2. QED
    BY <1>1, <1>3, <2>1 DEF Body
<1>4. QED
  BY <1>2, <1>3

LEMMA BodyMatches ==
    ASSUME NEW p \in GlobPattern, WellRead(p), NEW h \in Seq(Byte), NEW w \in U16
    PROVE  PatternMatches(h, PortText(w), Body(p)) <=> Regards(h, w, p)
<1>1. p.host \in Seq(Byte) /\ (p.port # NONE => p.port \in Seq(Byte))
  BY PatternType
<1>2. matched_glob(h, p.host) <=> Fits(h, p.host) /\ ~Unparsable(p.host)
  BY <1>1, GlobAsDocumented
<1>3. CASE p.port = NONE
  <2>1. Body(p) = p.host /\ Places(p.host, <<CLOSE, COLON>>) = {}
    BY <1>3 DEF Body, WellRead
  <2>2. PatternMatches(h, PortText(w), p.host) <=> PortText(w) = NONE /\ matched_glob(h, p.host)
    BY <2>1 DEF PatternMatches
  <2>3. (PortText(w) = NONE) <=> (w = 22)
    BY PortTextNone
  <2>4. QED
    BY <1>2, <1>3, <2>1, <2>2, <2>3 DEF Regards
<1>4. CASE p.port # NONE
  <2> DEFINE t == Bracketed(p.host, p.port)
             cut == Max(Places(t, <<CLOSE, COLON>>))
             name == Before(t, cut)
  <2>1. Body(p) = t /\ p.port \in Seq(Byte) /\ Places(p.port, <<CLOSE, COLON>>) = {}
    BY <1>1, <1>4 DEF Body, WellRead
  <2>2. Places(t, <<CLOSE, COLON>>) # {} /\ cut = Len(p.host) + 2
    BY <1>1, <2>1, BracketedPlaces
  <2>3. name # <<>> /\ Head(name) = OPEN /\ Tail(name) = p.host /\ After(t, cut + 2) = p.port
    <3> DEFINE k == Len(p.host) + 2
    <3>1. /\ Before(t, k) # <<>> /\ Head(Before(t, k)) = OPEN
          /\ Tail(Before(t, k)) = p.host /\ After(t, k + 2) = p.port
      BY <1>1, <2>1, BracketedParts
    <3>2. cut = k
      BY <2>2
    <3> HIDE DEF k, t, cut
    <3>3. QED
      BY <3>1, <3>2
  <2>4. PatternMatches(h, PortText(w), t) <=>
            /\ matched_glob(Or(PortText(w), Decimal(22)), After(t, cut + 2))
            /\ matched_glob(h, IF name # <<>> /\ Head(name) = OPEN THEN Tail(name) ELSE name)
    BY <2>2 DEF PatternMatches
  <2> HIDE DEF t, cut, name
  <2>5. PatternMatches(h, PortText(w), t) <=>
            matched_glob(Decimal(w), p.port) /\ matched_glob(h, p.host)
    BY <2>3, <2>4, PortTextOr
  <2>6. Decimal(w) \in Seq(Byte)
    BY DecimalType
  <2>7. matched_glob(Decimal(w), p.port) <=> Fits(Decimal(w), p.port) /\ ~Unparsable(p.port)
    BY <2>1, <2>6, GlobAsDocumented
  <2>8. QED
    BY <1>2, <1>4, <2>1, <2>5, <2>7 DEF Regards
<1>5. QED
  BY <1>3, <1>4

\* The sign of a text of a pattern, and what is left without it.
LEMMA SignOf ==
    ASSUME NEW p \in GlobPattern, WellRead(p)
    PROVE  /\ PatternText(p) # <<>> /\ Head(PatternText(p)) = BANG <=> p.neg
           /\ p.neg => Tail(PatternText(p)) = Body(p)
           /\ ~p.neg => PatternText(p) = Body(p)
<1>1. Body(p) \in Seq(Byte) /\ p.neg \in BOOLEAN /\ p.host \in Seq(Byte)
  BY PatternType
<1>2. BANG \in Byte /\ BANG # OPEN
  BY DEF BANG, Byte, OPEN
<1>3. CASE p.neg
  <2>1. PatternText(p) = <<BANG>> \o Body(p)
    BY <1>3 DEF PatternText, Body
  <2> DEFINE b == Body(p)
             t == PatternText(p)
  <2>2. t = <<BANG>> \o b /\ b \in Seq(Byte)
    BY <1>1, <2>1
  <2> HIDE DEF b, t
  <2>3. t # <<>> /\ Head(t) = BANG /\ Tail(t) = b
    BY <1>2, <2>2
  <2>4. QED
    BY <1>3, <2>3 DEF b, t
<1>4. CASE ~p.neg
  <2>1. PatternText(p) = <<>> \o Body(p)
    BY <1>4 DEF PatternText, Body
  <2>2. PatternText(p) = Body(p)
    BY <1>1, <2>1
  <2>3. Body(p) # <<>> => Head(Body(p)) # BANG
    <3>1. CASE p.port = NONE
      BY <1>4, <3>1 DEF Body, WellRead
    <3>2. CASE p.port # NONE
      <4>1. p.port \in Seq(Byte)
        BY <3>2, PatternType
      <4> DEFINE t == Bracketed(p.host, p.port)
      <4>2. t \in Seq(Byte) /\ t[1] = OPEN
        <5>1. t \in Seq(Byte)
          BY <1>1, <4>1, BracketedLen
        <5>2. t[1] = OPEN
          BY <1>1, <4>1, BracketedAt
        <5>3. QED
          BY <5>1, <5>2
      <4>3. Body(p) = t
        BY <3>2 DEF Body
      <4> HIDE DEF t
      <4>4. t # <<>> => Head(t) = OPEN
        BY <4>2
      <4>5. QED
        BY <1>2, <4>3, <4>4
    <3>3. QED
      BY <3>1, <3>2
  <2>4. QED
    BY <1>4, <2>2, <2>3
<1>5. QED
  BY <1>1, <1>3, <1>4

-----------------------------------------------------------------------------
(***************************************************************************)
(* Parts of a text, and the host and the port of a handler.                *)
(***************************************************************************)
LEMMA BeforeIs ==
    ASSUME NEW text \in Seq(Byte), NEW i \in 1..(Len(text) + 1)
    PROVE  /\ Before(text, i) \in Seq(Byte) /\ Len(Before(text, i)) = i - 1
           /\ \A x \in 1..(i - 1) : Before(text, i)[x] = text[x]
<1> DEFINE s == SubSeq(text, 1, i - 1)
<1>1. Before(text, i) = s
  BY DEF Before
<1>2. s \in Seq(Byte) /\ Len(s) = i - 1 /\ \A x \in 1..(i - 1) : s[x] = text[x]
  OBVIOUS
<1> HIDE DEF s
<1>3. QED
  BY <1>1, <1>2

LEMMA AfterIs ==
    ASSUME NEW text \in Seq(Byte), NEW i \in 1..(Len(text) + 1)
    PROVE  /\ After(text, i) \in Seq(Byte) /\ Len(After(text, i)) = Len(text) - i + 1
           /\ \A x \in 1..(Len(text) - i + 1) : After(text, i)[x] = text[x + i - 1]
<1> DEFINE s == SubSeq(text, i, Len(text))
<1>1. After(text, i) = s
  BY DEF After
<1>2. s \in Seq(Byte) /\ Len(s) = Len(text) - i + 1
      /\ \A x \in 1..(Len(text) - i + 1) : s[x] = text[x + i - 1]
  OBVIOUS
<1> HIDE DEF s
<1>3. QED
  BY <1>1, <1>2

LEMMA OnePlaces ==
    ASSUME NEW text \in Seq(Byte), NEW c \in Byte, NEW x
    PROVE  x \in Places(text, <<c>>) <=> x \in 1..Len(text) /\ text[x] = c
<1> DEFINE n == Len(text)
           sep == <<c>>
<1>1. n \in Nat /\ Len(sep) = 1 /\ n - Len(sep) + 1 = n
  OBVIOUS
<1>2. x \in Places(text, sep) <=> x \in 1..n /\ SubSeq(text, x, x) = sep
  <2>1. \A y \in 1..n : y + Len(sep) - 1 = y
    BY <1>1
  <2>2. x \in Places(text, sep) <=>
            x \in 1..n /\ SubSeq(text, x, x + Len(sep) - 1) = sep
    BY <1>1 DEF Places
  <2>3. QED
    BY <2>1, <2>2
<1>3. ASSUME x \in 1..n
      PROVE  SubSeq(text, x, x) = sep <=> text[x] = c
  <2> DEFINE s == SubSeq(text, x, x)
  <2>1. s \in Seq(Byte) /\ Len(s) = 1 /\ s[1] = text[x]
    BY <1>1, <1>3
  <2> HIDE DEF s
  <2>2. s = <<s[1]>>
    BY <2>1
  <2>3. ASSUME s = sep PROVE text[x] = c
    BY <2>1, <2>3
  <2>4. ASSUME text[x] = c PROVE s = sep
    BY <2>1, <2>2, <2>4
  <2>5. QED
    BY <2>3, <2>4 DEF s
<1>4. QED
  BY <1>2, <1>3

LEMMA PlacesType ==
    ASSUME NEW text \in Seq(Byte), NEW c \in Byte
    PROVE  Places(text, <<c>>) \subseteq 1..Len(text)
BY OnePlaces

LEMMA PairPlacesType ==
    ASSUME NEW text \in Seq(Byte), NEW c \in Byte, NEW d \in Byte
    PROVE  Places(text, <<c, d>>) \subseteq 1..Len(text)
<1>1. \A x \in 1..(Len(text) - 1) : x \in 1..Len(text)
  OBVIOUS
<1>2. \A x \in Places(text, <<c, d>>) : x \in 1..(Len(text) - 1)
  BY PairPlaces
<1>3. QED
  BY <1>1, <1>2

LEMMA PortType ==
    ASSUME NEW text
    PROVE  Or(parse_u16(text), 22) \in U16
<1>1. parse_u16(text) \in U16 \/ parse_u16(text) = NONE
  BY DEF parse_u16
<1>2. 22 \in U16
  BY DEF U16
<1>3. QED
  BY <1>1, <1>2 DEF Or

LEMMA ParsedType ==
    ASSUME NEW query \in Seq(Byte)
    PROVE  /\ Target_parse(query).host \in Seq(Byte)
           /\ Or(Target_parse(query).port, 22) \in U16
<1> DEFINE ats  == Places(query, <<AT>>)
           rest == IF ats = {} THEN query ELSE After(query, Min(ats) + 1)
<1>1. AT \in Byte /\ COLON \in Byte /\ 22 \in U16
  BY DEF AT, COLON, Byte, U16
<1>2. rest \in Seq(Byte)
  <2>1. ASSUME ats # {} PROVE After(query, Min(ats) + 1) \in Seq(Byte)
    <3>1. ats \subseteq 1..Len(query) /\ ats \subseteq Nat
      BY <1>1, PlacesType
    <3> DEFINE m == Min(ats)
    <3>2. m \in 1..Len(query)
      BY <2>1, <3>1, MinIn
    <3> HIDE DEF m
    <3>3. m + 1 \in 1..(Len(query) + 1)
      BY <3>2
    <3>4. After(query, m + 1) \in Seq(Byte)
      BY <3>3, AfterIs
    <3>5. QED
      BY <3>4 DEF m
  <2>2. QED
    BY <2>1
<1>3. Target_parse(query) =
          [user |-> IF ats = {} THEN NONE ELSE Before(query, Min(ats)),
           host |-> IF Contains(rest, COLON) THEN Before(rest, PortColon(rest)) ELSE rest,
           port |-> IF Contains(rest, COLON) THEN parse_u16(After(rest, PortColon(rest) + 1)) ELSE NONE]
  BY DEF Target_parse
<1> HIDE DEF rest, ats
<1>4. /\ Target_parse(query).host = IF Contains(rest, COLON) THEN Before(rest, PortColon(rest)) ELSE rest
      /\ Target_parse(query).port =
             IF Contains(rest, COLON) THEN parse_u16(After(rest, PortColon(rest) + 1)) ELSE NONE
  BY <1>3
<1>5. ASSUME Contains(rest, COLON) PROVE Before(rest, PortColon(rest)) \in Seq(Byte)
  <2> DEFINE T == Places(rest, <<COLON>>)
  <2>1. T \subseteq 1..Len(rest) /\ T # {} /\ Len(rest) \in Nat
    <3>1. PICK i \in 1..Len(rest) : rest[i] = COLON
      BY <1>5 DEF Contains
    <3>2. i \in T
      BY <1>1, <1>2, <3>1, OnePlaces
    <3>3. QED
      BY <1>1, <1>2, <3>2, PlacesType
  <2>2. PortColon(rest) = Max(T)
    BY DEF PortColon
  <2> HIDE DEF T
  <2>3. PortColon(rest) \in 1..Len(rest)
    BY <2>1, <2>2, MaxIn
  <2>4. PortColon(rest) \in 1..(Len(rest) + 1)
    BY <2>1, <2>3
  <2>5. QED
    BY <1>2, <2>4, BeforeIs
<1>6. Target_parse(query).host \in Seq(Byte)
  BY <1>2, <1>4, <1>5
<1>7. Or(Target_parse(query).port, 22) \in U16
  <2>1. CASE Contains(rest, COLON)
    BY <1>4, <2>1, PortType
  <2>2. CASE ~Contains(rest, COLON)
    BY <1>1, <1>4, <2>2 DEF Or
  <2>3. QED
    BY <2>1, <2>2
<1>8. QED
  BY <1>6, <1>7

LEMMA TrimType ==
    ASSUME NEW text \in Seq(Byte), NEW c
    PROVE  trim_start(text, c) \in Seq(Byte) /\ trim_end(text, c) \in Seq(Byte)
<1> DEFINE others == {i \in DOMAIN text : text[i] # c}
           lo == Min(others)
           hi == Max(others)
           n == Len(text)
<1>1. others \subseteq 1..n /\ others \subseteq Nat /\ n \in Nat
  OBVIOUS
<1>2. /\ trim_start(text, c) = IF others = {} THEN <<>> ELSE After(text, lo)
      /\ trim_end(text, c) = IF others = {} THEN <<>> ELSE SubSeq(text, 1, hi)
  BY DEF trim_start, trim_end
<1>3. <<>> \in Seq(Byte)
  OBVIOUS
<1> HIDE DEF others
<1>4. ASSUME others # {} PROVE lo \in 1..n /\ hi \in 1..n
  BY <1>1, <1>4, MinIn, MaxIn
<1> HIDE DEF lo, hi
<1>5. ASSUME others # {} PROVE After(text, lo) \in Seq(Byte)
  <2>1. lo \in 1..(n + 1)
    BY <1>1, <1>4, <1>5
  <2>2. QED
    BY <2>1, AfterIs
<1>6. ASSUME others # {} PROVE SubSeq(text, 1, hi) \in Seq(Byte)
  BY <1>1, <1>4, <1>6
<1>7. QED
  BY <1>2, <1>3, <1>5, <1>6

LEMMA LowerType ==
    ASSUME NEW text \in Seq(Byte)
    PROVE  Lower(text) \in Seq(Byte) /\ Len(Lower(text)) = Len(text)
<1> DEFINE n == Len(text)
           low == Lower(text)
<1>1. n \in Nat /\ DOMAIN text = 1..n /\ \A i \in 1..n : text[i] \in Byte
  OBVIOUS
<1>2. low = [i \in 1..n |-> IF text[i] \in 65..90 THEN text[i] + 32 ELSE text[i]]
  BY <1>1 DEF Lower
<1> HIDE DEF low
<1>3. \A c \in Byte : (IF c \in 65..90 THEN c + 32 ELSE c) \in Byte
  BY DEF Byte
<1>4. \A i \in 1..n : low[i] \in Byte
  BY <1>1, <1>2, <1>3
<1>5. low \in Seq(Byte) /\ Len(low) = n
  BY <1>1, <1>2, <1>4
<1>6. QED
  BY <1>5 DEF low

LEMMA HandlerType ==
    ASSUME NEW h \in Seq(Byte), NEW w
    PROVE  /\ KnownHostsHandler_new(h, w).host \in Seq(Byte)
           /\ KnownHostsHandler_new(h, w).port = w
<1> DEFINE open == trim_start(h, OPEN)
           ends == Places(open, <<CLOSE, COLON>>)
           cut  == IF ends = {} THEN open ELSE Before(open, Min(ends))
<1>1. CLOSE \in Byte /\ COLON \in Byte
  BY DEF CLOSE, COLON, Byte
<1>2. open \in Seq(Byte)
  BY TrimType
<1>3. KnownHostsHandler_new(h, w) = [host |-> Lower(trim_end(cut, CLOSE)), port |-> w]
  BY DEF KnownHostsHandler_new
<1> HIDE DEF open
<1>4. cut \in Seq(Byte)
  <2>1. ASSUME ends # {} PROVE Before(open, Min(ends)) \in Seq(Byte)
    <3> DEFINE n == Len(open)
               m == Min(ends)
    <3>1. ends \subseteq 1..n /\ ends \subseteq Nat /\ n \in Nat
      BY <1>1, <1>2, PairPlacesType
    <3>2. m \in 1..n
      BY <2>1, <3>1, MinIn
    <3> HIDE DEF m
    <3>3. m \in 1..(n + 1)
      BY <3>1, <3>2
    <3>4. Before(open, m) \in Seq(Byte)
      BY <1>2, <3>3, BeforeIs
    <3>5. QED
      BY <3>4 DEF m
  <2>2. QED
    BY <1>2, <2>1
<1> HIDE DEF cut
<1>5. Lower(trim_end(cut, CLOSE)) \in Seq(Byte)
  BY <1>4, TrimType, LowerType
<1>6. QED
  BY <1>3, <1>5

-----------------------------------------------------------------------------
(***************************************************************************)
(* The three steps, and the patterns of a line.                            *)
(***************************************************************************)

\* What Match finds.
Verdict ==
    IF field.is = "written" /\ field.hashed
    THEN verify_hashed(handler.host, PortText(handler.port), WrittenName(field))
    ELSE verify_plain(handler.host, PortText(handler.port),
             IF field.is = "written"
             THEN <<WrittenName(field)>>
             ELSE [i \in DOMAIN field.patterns |-> PatternText(field.patterns[i])])

\* Each result is what the step before it makes it.
TextInv ==
    /\ typed \in Typed /\ field \in Fields
    /\ parsed # NONE => parsed = Target_parse(Text(typed))
    /\ handler # NONE =>
           parsed # NONE /\ handler = KnownHostsHandler_new(parsed.host, Or(parsed.port, 22))
    /\ matched # NONE => handler # NONE /\ (matched <=> Verdict)

LEMMA TextInvAlways == TextSpec => []TextInv
<1>1. TextInit => TextInv
  BY DEF TextInit, TextInv
<1>2. TextInv /\ [TextNext]_text_vars => TextInv'
  <2> SUFFICES ASSUME TextInv, [TextNext]_text_vars PROVE TextInv'
    OBVIOUS
  <2> USE DEF TextInv
  <2>1. CASE Parse
    BY <2>1 DEF Parse
  <2>2. CASE NewHandler
    BY <2>2 DEF NewHandler
  <2>3. CASE Match
    <3>1. matched' = Verdict
      BY <2>3 DEF Match, Verdict
    <3>2. handler # NONE /\ UNCHANGED <<typed, field, parsed, handler>>
      BY <2>3 DEF Match
    <3>3. Verdict' <=> Verdict
      BY <3>2 DEF Verdict
    <3>4. QED
      BY <3>1, <3>2, <3>3
  <2>4. CASE UNCHANGED text_vars
    BY <2>4 DEF text_vars, Verdict
  <2>5. QED
    BY <2>1, <2>2, <2>3, <2>4 DEF TextNext
<1>3. QED
  BY <1>1, <1>2, PTL DEF TextSpec

LEMMA TextType ==
    ASSUME NEW t \in Typed
    PROVE  Text(t) \in Seq(Byte)
<1>1. /\ t.host \in Seq(Byte)
      /\ t.user # NONE => t.user \in Seq(Byte)
      /\ t.port # NONE => t.port \in Seq(Byte)
  BY TypedAssumption
<1>2. <<AT>> \in Seq(Byte) /\ <<COLON>> \in Seq(Byte) /\ <<>> \in Seq(Byte)
  BY DEF AT, COLON, Byte
<1> DEFINE user == IF t.user = NONE THEN <<>> ELSE t.user \o <<AT>>
           tail == IF t.port = NONE THEN <<>> ELSE <<COLON>> \o t.port
<1>3. user \in Seq(Byte)
  BY <1>1, <1>2
<1>4. tail \in Seq(Byte)
  BY <1>1, <1>2
<1>5. Text(t) = user \o t.host \o tail
  BY DEF Text
<1> HIDE DEF user, tail
<1>6. QED
  BY <1>1, <1>3, <1>4, <1>5

\* The handler looks for a text and the number of a port.
LEMMA HandlerReading ==
    ASSUME TextInv, handler # NONE
    PROVE  handler.host \in Seq(Byte) /\ handler.port \in U16
<1> DEFINE q == Text(typed)
           w == Or(Target_parse(q).port, 22)
<1>1. q \in Seq(Byte) /\ handler = KnownHostsHandler_new(Target_parse(q).host, w)
  BY TextType DEF TextInv
<1> HIDE DEF q
<1>2. Target_parse(q).host \in Seq(Byte) /\ w \in U16
  BY <1>1, ParsedType
<1> HIDE DEF w
<1>3. QED
  BY <1>1, <1>2, HandlerType

\* One pattern of a list: its sign, and whether it is about the host and port.
LEMMA OnePattern ==
    ASSUME NEW p \in GlobPattern, WellRead(p), NEW h \in Seq(Byte), NEW w \in U16
    PROVE  PatternMatches(h, PortText(w),
               IF PatternText(p) # <<>> /\ Head(PatternText(p)) = BANG
               THEN Tail(PatternText(p)) ELSE PatternText(p)) <=> Regards(h, w, p)
<1> DEFINE t == PatternText(p)
           n == t # <<>> /\ Head(t) = BANG
<1>1. /\ n <=> p.neg
      /\ p.neg => Tail(t) = Body(p)
      /\ ~p.neg => t = Body(p)
  BY SignOf
<1> HIDE DEF t
<1>2. (IF n THEN Tail(t) ELSE t) = Body(p)
  BY <1>1
<1>3. PatternMatches(h, PortText(w), Body(p)) <=> Regards(h, w, p)
  BY BodyMatches
<1>4. QED
  BY <1>2, <1>3 DEF t

\* A list of patterns: one positive is about the host and port, and no negative.
LEMMA VerifyPlain ==
    ASSUME NEW ps \in Seq(GlobPattern), \A i \in DOMAIN ps : WellRead(ps[i]),
           NEW h \in Seq(Byte), NEW w \in U16
    PROVE  verify_plain(h, PortText(w), [i \in DOMAIN ps |-> PatternText(ps[i])]) <=>
               /\ \E i \in DOMAIN ps : ~ps[i].neg /\ Regards(h, w, ps[i])
               /\ \A i \in DOMAIN ps : ps[i].neg => ~Regards(h, w, ps[i])
<1> DEFINE texts == [i \in DOMAIN ps |-> PatternText(ps[i])]
           Negative(p) == p # <<>> /\ Head(p) = BANG
           Matches(p)  == PatternMatches(h, PortText(w), IF Negative(p) THEN Tail(p) ELSE p)
<1>1. \A i \in DOMAIN ps : Negative(PatternText(ps[i])) <=> ps[i].neg
  <2> SUFFICES ASSUME NEW i \in DOMAIN ps PROVE Negative(PatternText(ps[i])) <=> ps[i].neg
    OBVIOUS
  <2> DEFINE p == ps[i]
  <2>1. p \in GlobPattern /\ WellRead(p)
    OBVIOUS
  <2> HIDE DEF p
  <2>2. Negative(PatternText(p)) <=> p.neg
    BY <2>1, SignOf
  <2>3. QED
    BY <2>2 DEF p
<1>2. \A i \in DOMAIN ps : Matches(PatternText(ps[i])) <=> Regards(h, w, ps[i])
  <2> SUFFICES ASSUME NEW i \in DOMAIN ps
               PROVE  Matches(PatternText(ps[i])) <=> Regards(h, w, ps[i])
    OBVIOUS
  <2> DEFINE p == ps[i]
  <2>1. p \in GlobPattern /\ WellRead(p)
    OBVIOUS
  <2> HIDE DEF p
  <2>2. Matches(PatternText(p)) <=> Regards(h, w, p)
    BY <2>1, OnePattern
  <2>3. QED
    BY <2>2 DEF p
<1>3. verify_plain(h, PortText(w), texts) <=>
          /\ \E i \in DOMAIN texts : ~Negative(texts[i]) /\ Matches(texts[i])
          /\ ~\E i \in DOMAIN texts : Negative(texts[i]) /\ Matches(texts[i])
  BY DEF verify_plain
<1>4. DOMAIN texts = DOMAIN ps /\ \A i \in DOMAIN ps : texts[i] = PatternText(ps[i])
  OBVIOUS
<1> HIDE DEF texts, Negative, Matches
<1>5. QED
  BY <1>1, <1>2, <1>3, <1>4 DEF texts

\* A list of patterns matches exactly when the documentation of the handler says
\* so (verify_plain, PlainPattern::matched and matched_glob, known_hosts.rs).
THEOREM MatchesAsDocumentedAlways == TextSpec => []MatchesAsDocumented
<1>1. TextInv => MatchesAsDocumented
  <2> SUFFICES ASSUME TextInv, matched # NONE, field.is = "patterns"
               PROVE  LET p == field.patterns
                      IN  matched <=>
                              /\ \E i \in DOMAIN p : ~p[i].neg /\ About(p[i])
                              /\ \A i \in DOMAIN p : p[i].neg => ~About(p[i])
    BY DEF MatchesAsDocumented
  <2> DEFINE ps == field.patterns
  <2>1. ps \in Seq(GlobPattern)
    BY FieldsAssumption DEF TextInv, HostField
  <2>2. \A i \in DOMAIN ps : WellRead(ps[i])
    BY PatternReading DEF TextInv, WellRead
  <2>3. handler.host \in Seq(Byte) /\ handler.port \in U16
    BY HandlerReading DEF TextInv
  <2>4. matched <=> verify_plain(handler.host, PortText(handler.port),
                        [i \in DOMAIN ps |-> PatternText(ps[i])])
    BY DEF TextInv, Verdict
  <2>5. \A p : About(p) <=> Regards(handler.host, handler.port, p)
    BY DEF About, Regards
  <2> HIDE DEF ps
  <2>6. QED
    BY <2>1, <2>2, <2>3, <2>4, <2>5, VerifyPlain DEF ps
<1>2. QED
  BY <1>1, TextInvAlways, PTL

-----------------------------------------------------------------------------
(***************************************************************************)
(* A text cut at a separator, and what is typed as Target::parse reads it. *)
(***************************************************************************)
LEMMA CatAssoc ==
    ASSUME NEW S, NEW s \in Seq(S), NEW t \in Seq(S), NEW u \in Seq(S)
    PROVE  Cat(Cat(s, t), u) = Cat(s, Cat(t, u))
BY DEF Cat

LEMMA CatEmpty ==
    ASSUME NEW S, NEW s \in Seq(S)
    PROVE  Cat(<<>>, s) = s /\ Cat(s, <<>>) = s
BY DEF Cat

\* A text with a character between its parts.
Cut(a, c, b) == Cat(Cat(a, <<c>>), b)

LEMMA CutAt ==
    ASSUME NEW a \in Seq(Byte), NEW c \in Byte, NEW b \in Seq(Byte)
    PROVE  /\ Cut(a, c, b) \in Seq(Byte) /\ Len(Cut(a, c, b)) = Len(a) + 1 + Len(b)
           /\ Cut(a, c, b)[Len(a) + 1] = c
           /\ \A x \in 1..Len(a) : Cut(a, c, b)[x] = a[x]
           /\ \A x \in 1..Len(b) : Cut(a, c, b)[Len(a) + 1 + x] = b[x]
<1> DEFINE one == <<c>>
           lead == Cat(a, one)
           n == Len(a)
           k == Len(lead)
<1>1. one \in Seq(Byte)
  OBVIOUS
<1>2. Len(one) = 1 /\ one[1] = c /\ n \in Nat /\ Len(b) \in Nat
  OBVIOUS
<1>3. Cut(a, c, b) = Cat(lead, b)
  BY DEF Cut
<1> HIDE DEF one
<1>4. /\ lead \in Seq(Byte) /\ k = n + Len(one)
      /\ \A x \in 1..n : lead[x] = a[x]
      /\ \A x \in 1..Len(one) : lead[n + x] = one[x]
  <2>1. lead \in Seq(Byte)
    BY <1>1, CatSeq
  <2>2. k = n + Len(one)
    BY <1>1, CatLen
  <2>3. \A x \in 1..n : lead[x] = a[x]
    BY <1>1, CatLeft
  <2>4. \A x \in 1..Len(one) : lead[n + x] = one[x]
    BY <1>1, CatRight
  <2>5. QED
    BY <2>1, <2>2, <2>3, <2>4
<1> HIDE DEF lead
<1>5. /\ Cat(lead, b) \in Seq(Byte) /\ Len(Cat(lead, b)) = k + Len(b)
      /\ \A x \in 1..k : Cat(lead, b)[x] = lead[x]
      /\ \A x \in 1..Len(b) : Cat(lead, b)[k + x] = b[x]
  <2> DEFINE all == Cat(lead, b)
  <2>1. all \in Seq(Byte)
    BY <1>4, CatSeq
  <2>2. Len(all) = k + Len(b)
    BY <1>4, CatLen
  <2>3. \A x \in 1..k : all[x] = lead[x]
    BY <1>4, CatLeft
  <2>4. lead \in Seq(Byte)
    BY <1>4
  <2>5. \A x \in 1..Len(b) : all[k + x] = b[x]
    BY <2>4, CatRight
  <2> HIDE DEF all
  <2>6. QED
    BY <2>1, <2>2, <2>3, <2>5 DEF all
<1>6. k = n + 1 /\ lead[n + 1] = c
  BY <1>2, <1>4
<1> HIDE DEF k, n
<1>7. n + 1 \in 1..k /\ \A x \in 1..n : x \in 1..k
  BY <1>2, <1>6
<1>8. QED
  BY <1>3, <1>4, <1>5, <1>6, <1>7 DEF n

\* What stands on either side of it.
LEMMA CutParts ==
    ASSUME NEW a \in Seq(Byte), NEW c \in Byte, NEW b \in Seq(Byte)
    PROVE  /\ Before(Cut(a, c, b), Len(a) + 1) = a
           /\ After(Cut(a, c, b), Len(a) + 1 + 1) = b
<1> DEFINE t == Cut(a, c, b)
           n == Len(a)
           l == Len(b)
           s == Before(t, n + 1)
           r == After(t, n + 1 + 1)
<1>1. /\ t \in Seq(Byte) /\ Len(t) = n + 1 + l
      /\ \A x \in 1..n : t[x] = a[x]
      /\ \A x \in 1..l : t[n + 1 + x] = b[x]
  <2>1. t \in Seq(Byte) /\ Len(t) = n + 1 + l
    BY CutAt
  <2>2. \A x \in 1..n : t[x] = a[x]
    BY CutAt
  <2>3. \A x \in 1..l : t[n + 1 + x] = b[x]
    BY CutAt
  <2>4. QED
    BY <2>1, <2>2, <2>3
<1>2. n \in Nat /\ l \in Nat
  OBVIOUS
<1> HIDE DEF t
<1>3. a \in Seq(Byte) /\ Len(a) = n /\ b \in Seq(Byte) /\ Len(b) = l
  OBVIOUS
<1> HIDE DEF n, l
<1>4. n + 1 \in 1..(Len(t) + 1) /\ n + 1 + 1 \in 1..(Len(t) + 1)
  BY <1>1, <1>2
<1>5. s \in Seq(Byte) /\ Len(s) = (n + 1) - 1 /\ \A x \in 1..((n + 1) - 1) : s[x] = t[x]
  BY <1>1, <1>4, BeforeIs
<1>6. /\ r \in Seq(Byte) /\ Len(r) = Len(t) - (n + 1 + 1) + 1
      /\ \A x \in 1..(Len(t) - (n + 1 + 1) + 1) : r[x] = t[x + (n + 1 + 1) - 1]
  BY <1>1, <1>4, AfterIs
<1> HIDE DEF s, r
<1>7. s = a
  <2>1. Len(s) = n /\ \A x \in 1..n : s[x] = a[x]
    BY <1>1, <1>2, <1>5
  <2>2. QED
    BY <1>3, <1>5, <2>1
<1>8. r = b
  <2>1. Len(t) - (n + 1 + 1) + 1 = l /\ \A x \in 1..l : x + (n + 1 + 1) - 1 = n + 1 + x
    BY <1>1, <1>2
  <2>2. Len(r) = l /\ \A x \in 1..l : r[x] = b[x]
    BY <1>1, <1>6, <2>1
  <2>3. r \in Seq(Byte)
    BY <1>6
  <2>4. QED
    BY <1>3, <2>2, <2>3
<1>9. QED
  BY <1>7, <1>8 DEF s, r, t, n

\* The separator is in the text; it is the first when the part before has none.
LEMMA CutPlace ==
    ASSUME NEW a \in Seq(Byte), NEW c \in Byte, NEW b \in Seq(Byte)
    PROVE  Len(a) + 1 \in Places(Cut(a, c, b), <<c>>)
<1> DEFINE t == Cut(a, c, b)
           k == Len(a) + 1
<1>1. t \in Seq(Byte) /\ Len(t) = Len(a) + 1 + Len(b) /\ t[k] = c
  BY CutAt
<1>2. k \in 1..Len(t)
  BY <1>1
<1> HIDE DEF t, k
<1>3. k \in Places(t, <<c>>)
  BY <1>1, <1>2, OnePlaces
<1>4. QED
  BY <1>3 DEF t, k

LEMMA CutFirst ==
    ASSUME NEW a \in Seq(Byte), NEW c \in Byte, NEW b \in Seq(Byte), ~Contains(a, c)
    PROVE  Min(Places(Cut(a, c, b), <<c>>)) = Len(a) + 1
<1> DEFINE t == Cut(a, c, b)
           T == Places(t, <<c>>)
           n == Len(a)
<1>1. t \in Seq(Byte) /\ \A x \in 1..n : t[x] = a[x]
  BY CutAt
<1>2. n + 1 \in T
  BY CutPlace
<1>3. n \in Nat /\ \A x \in 1..n : a[x] # c
  BY DEF Contains
<1> HIDE DEF t, n
<1>4. T \subseteq 1..Len(t) /\ \A x \in T : x \in 1..Len(t) /\ t[x] = c
  BY <1>1, OnePlaces
<1>5. Len(t) \in Nat
  BY <1>1
<1> HIDE DEF T
<1>6. ASSUME NEW x \in T PROVE n + 1 =< x
  <2>1. x \notin 1..n /\ x \in 1..Len(t)
    BY <1>1, <1>3, <1>4
  <2>2. QED
    BY <1>3, <1>5, <2>1
<1>7. T \subseteq Int
  BY <1>4, <1>5
<1>8. Min(T) = n + 1
  BY <1>2, <1>6, <1>7, MinIs
<1>9. QED
  BY <1>8 DEF T, t, n

\* It is the last when the part after has none.
LEMMA CutLast ==
    ASSUME NEW a \in Seq(Byte), NEW c \in Byte, NEW b \in Seq(Byte), ~Contains(b, c)
    PROVE  Max(Places(Cut(a, c, b), <<c>>)) = Len(a) + 1
<1> DEFINE t == Cut(a, c, b)
           T == Places(t, <<c>>)
           n == Len(a)
           l == Len(b)
<1>1. /\ t \in Seq(Byte) /\ Len(t) = n + 1 + l
      /\ \A x \in 1..l : t[n + 1 + x] = b[x]
  BY CutAt
<1>2. n + 1 \in T
  BY CutPlace
<1>3. n \in Nat /\ l \in Nat /\ \A x \in 1..l : b[x] # c
  BY DEF Contains
<1> HIDE DEF t, n, l
<1>4. \A x \in T : x \in 1..Len(t) /\ t[x] = c
  BY <1>1, OnePlaces
<1> HIDE DEF T
<1>5. ASSUME NEW x \in T PROVE n + 1 >= x
  <2> SUFFICES ASSUME x > n + 1 PROVE FALSE
    BY <1>1, <1>3, <1>4
  <2> DEFINE y == x - (n + 1)
  <2>1. y \in 1..l /\ n + 1 + y = x
    BY <1>1, <1>3, <1>4
  <2> HIDE DEF y
  <2>2. QED
    BY <1>1, <1>3, <1>4, <2>1
<1>6. T \subseteq Int
  BY <1>1, <1>3, <1>4
<1>7. Max(T) = n + 1
  BY <1>2, <1>5, <1>6, MaxIs
<1>8. QED
  BY <1>7 DEF T, t, n

\* What follows the user.
Rest(t) == IF t.port = NONE THEN t.host ELSE Cut(t.host, COLON, t.port)

LEMMA RestType ==
    ASSUME NEW t \in Typed
    PROVE  Rest(t) \in Seq(Byte)
<1>1. t.host \in Seq(Byte) /\ (t.port # NONE => t.port \in Seq(Byte)) /\ COLON \in Byte
  BY TypedAssumption DEF COLON, Byte
<1>2. t.port # NONE => Cut(t.host, COLON, t.port) \in Seq(Byte)
  BY <1>1, CutAt
<1>3. QED
  BY <1>1, <1>2 DEF Rest

LEMMA TextIs ==
    ASSUME NEW t \in Typed
    PROVE  Text(t) = IF t.user = NONE THEN Rest(t) ELSE Cut(t.user, AT, Rest(t))
<1> DEFINE u == IF t.user = NONE THEN <<>> ELSE Cat(t.user, <<AT>>)
           p == IF t.port = NONE THEN <<>> ELSE Cat(<<COLON>>, t.port)
           h == t.host
<1>1. /\ h \in Seq(Byte)
      /\ t.user # NONE => t.user \in Seq(Byte)
      /\ t.port # NONE => t.port \in Seq(Byte)
  BY TypedAssumption
<1>2. <<AT>> \in Seq(Byte) /\ <<COLON>> \in Seq(Byte) /\ <<>> \in Seq(Byte)
  BY DEF AT, COLON, Byte
<1>3. Text(t) = Cat(Cat(u, h), p)
  BY DEF Text, Cat
<1>4. u \in Seq(Byte)
  BY <1>1, <1>2, CatSeq
<1>5. p \in Seq(Byte)
  BY <1>1, <1>2, CatSeq
<1>6. Cat(Cat(u, h), p) = Cat(u, Cat(h, p))
  <2> HIDE DEF u, h, p
  <2>1. QED
    BY <1>1, <1>4, <1>5, CatAssoc
<1>7. Cat(h, p) = Rest(t)
  <2>1. CASE t.port = NONE
    <3>1. p = <<>> /\ Rest(t) = h
      BY <2>1 DEF Rest
    <3>2. QED
      BY <1>1, <3>1, CatEmpty
  <2>2. CASE t.port # NONE
    <3> DEFINE one == <<COLON>>
    <3>1. p = Cat(one, t.port) /\ Rest(t) = Cat(Cat(h, one), t.port)
      BY <2>2 DEF Rest, Cut
    <3>2. one \in Seq(Byte) /\ t.port \in Seq(Byte)
      BY <1>1, <1>2, <2>2
    <3> HIDE DEF one, p, h
    <3>3. Cat(Cat(h, one), t.port) = Cat(h, Cat(one, t.port))
      BY <1>1, <3>2, CatAssoc
    <3>4. QED
      BY <3>1, <3>3
  <2>3. QED
    BY <2>1, <2>2
<1>8. CASE t.user = NONE
  <2>1. u = <<>>
    BY <1>8
  <2>2. Cat(<<>>, Rest(t)) = Rest(t)
    BY RestType, CatEmpty
  <2> HIDE DEF u, p, h
  <2>3. QED
    BY <1>3, <1>6, <1>7, <1>8, <2>1, <2>2
<1>9. CASE t.user # NONE
  <2>1. u = Cat(t.user, <<AT>>)
    BY <1>9
  <2> HIDE DEF u, p, h
  <2>2. QED
    BY <1>3, <1>6, <1>7, <1>9, <2>1 DEF Cut
<1>10. QED
  BY <1>8, <1>9

LEMMA ContainsPlaces ==
    ASSUME NEW text \in Seq(Byte), NEW c \in Byte
    PROVE  Contains(text, c) <=> Places(text, <<c>>) # {}
BY OnePlaces DEF Contains

\* The user ends at the first @, and there is none where no user is typed.
LEMMA UserCut ==
    ASSUME NEW t \in Typed, Contains(t.host, AT) => t.user # NONE
    PROVE  /\ t.user = NONE => Places(Text(t), <<AT>>) = {} /\ Text(t) = Rest(t)
           /\ t.user # NONE =>
                  /\ Places(Text(t), <<AT>>) # {}
                  /\ Before(Text(t), Min(Places(Text(t), <<AT>>))) = t.user
                  /\ After(Text(t), Min(Places(Text(t), <<AT>>)) + 1) = Rest(t)
<1>1. /\ t.host \in Seq(Byte)
      /\ t.user # NONE => t.user \in Seq(Byte) /\ ~Contains(t.user, AT)
      /\ t.port # NONE => t.port \in Seq(Byte) /\ ~Contains(t.port, AT)
  BY TypedAssumption, TypedReading
<1>2. AT \in Byte /\ COLON \in Byte /\ AT # COLON
  BY DEF AT, COLON, Byte
<1>3. ASSUME t.user = NONE PROVE Places(Text(t), <<AT>>) = {} /\ Text(t) = Rest(t)
  <2>1. Text(t) = Rest(t)
    BY <1>3, TextIs
  <2>2. Rest(t) \in Seq(Byte)
    BY RestType
  <2>3. ~Contains(Rest(t), AT)
    <3>1. CASE t.port = NONE
      BY <1>3, <3>1 DEF Rest
    <3>2. CASE t.port # NONE
      <4> DEFINE a == t.host
                 b == t.port
                 r == Cut(a, COLON, b)
                 n == Len(a)
                 l == Len(b)
      <4>1. a \in Seq(Byte) /\ b \in Seq(Byte) /\ ~Contains(a, AT) /\ ~Contains(b, AT)
        BY <1>1, <1>3, <3>2
      <4>2. Rest(t) = r
        BY <3>2 DEF Rest
      <4> HIDE DEF a, b
      <4>3. /\ r \in Seq(Byte) /\ Len(r) = n + 1 + l
            /\ r[n + 1] = COLON
            /\ \A x \in 1..n : r[x] = a[x]
            /\ \A x \in 1..l : r[n + 1 + x] = b[x]
        <5>1. a \in Seq(Byte) /\ b \in Seq(Byte)
          BY <4>1
        <5>2. r \in Seq(Byte) /\ Len(r) = n + 1 + l
          BY <1>2, <5>1, CutAt
        <5>3. r[n + 1] = COLON
          BY <1>2, <5>1, CutAt
        <5>4. \A x \in 1..n : r[x] = a[x]
          BY <1>2, <5>1, CutAt
        <5>5. \A x \in 1..l : r[n + 1 + x] = b[x]
          BY <1>2, <5>1, CutAt
        <5>6. QED
          BY <5>2, <5>3, <5>4, <5>5
      <4>4. /\ n \in Nat /\ l \in Nat
            /\ \A x \in 1..n : a[x] # AT
            /\ \A x \in 1..l : b[x] # AT
        BY <4>1 DEF Contains
      <4> HIDE DEF r, n, l
      <4>5. ASSUME NEW x \in 1..Len(r) PROVE r[x] # AT
        <5>1. CASE x \in 1..n
          BY <4>3, <4>4, <5>1
        <5>2. CASE x = n + 1
          BY <1>2, <4>3, <5>2
        <5>3. CASE x > n + 1
          <6> DEFINE y == x - (n + 1)
          <6>1. y \in 1..l /\ n + 1 + y = x
            BY <4>3, <4>4, <5>3
          <6> HIDE DEF y
          <6>2. QED
            BY <4>3, <4>4, <6>1
        <5>4. QED
          BY <4>4, <5>1, <5>2, <5>3
      <4>6. QED
        BY <4>2, <4>5 DEF Contains
    <3>3. QED
      BY <3>1, <3>2
  <2>4. QED
    BY <1>2, <2>1, <2>2, <2>3, ContainsPlaces
<1>4. ASSUME t.user # NONE
      PROVE  /\ Places(Text(t), <<AT>>) # {}
             /\ Before(Text(t), Min(Places(Text(t), <<AT>>))) = t.user
             /\ After(Text(t), Min(Places(Text(t), <<AT>>)) + 1) = Rest(t)
  <2> DEFINE u == t.user
             r == Rest(t)
             k == Len(u) + 1
             w == Cut(u, AT, r)
             m == Min(Places(w, <<AT>>))
  <2>1. u \in Seq(Byte) /\ ~Contains(u, AT) /\ r \in Seq(Byte)
    BY <1>1, <1>4, RestType
  <2>2. Text(t) = w
    BY <1>4, TextIs
  <2> HIDE DEF u, r
  <2>3. k \in Places(w, <<AT>>)
    BY <1>2, <2>1, CutPlace
  <2>4. m = k
    BY <1>2, <2>1, CutFirst
  <2>5. Before(w, k) = u /\ After(w, k + 1) = r
    BY <1>2, <2>1, CutParts
  <2> HIDE DEF k, w
  <2>6. QED
    BY <2>2, <2>3, <2>4, <2>5 DEF u, r
<1>5. QED
  BY <1>3, <1>4

\* The port follows the last colon, and there is none where no port is typed.
LEMMA PortCut ==
    ASSUME NEW t \in Typed, Contains(t.host, COLON) => t.port # NONE
    PROVE  /\ t.port = NONE => ~Contains(Rest(t), COLON) /\ Rest(t) = t.host
           /\ t.port # NONE =>
                  /\ Contains(Rest(t), COLON)
                  /\ Before(Rest(t), PortColon(Rest(t))) = t.host
                  /\ After(Rest(t), PortColon(Rest(t)) + 1) = t.port
<1>1. CASE t.port = NONE
  BY <1>1 DEF Rest
<1>2. CASE t.port # NONE
  <2> DEFINE a == t.host
             b == t.port
             k == Len(a) + 1
             r == Cut(a, COLON, b)
  <2>1. a \in Seq(Byte) /\ b \in Seq(Byte) /\ ~Contains(b, COLON) /\ COLON \in Byte
    BY <1>2, TypedAssumption, TypedReading DEF COLON, Byte
  <2>2. Rest(t) = r
    BY <1>2 DEF Rest
  <2> HIDE DEF a, b
  <2>3. k \in Places(r, <<COLON>>) /\ r \in Seq(Byte)
    BY <2>1, CutPlace, CutAt
  <2>4. Contains(r, COLON)
    BY <2>1, <2>3, ContainsPlaces
  <2>5. PortColon(r) = k
    BY <2>1, CutLast DEF PortColon
  <2>6. Before(r, k) = a /\ After(r, k + 1) = b
    BY <2>1, CutParts
  <2> HIDE DEF k, r
  <2>7. QED
    BY <1>2, <2>2, <2>4, <2>5, <2>6 DEF a, b
<1>3. QED
  BY <1>1, <1>2

LEMMA ParsesAsTyped ==
    ASSUME NEW t \in Typed,
           Contains(t.host, COLON) => t.port # NONE,
           Contains(t.host, AT) => t.user # NONE
    PROVE  Target_parse(Text(t)) =
               [user |-> t.user, host |-> t.host,
                port |-> IF t.port = NONE THEN NONE ELSE parse_u16(t.port)]
<1> DEFINE q == Text(t)
           ats == Places(q, <<AT>>)
           rest == IF ats = {} THEN q ELSE After(q, Min(ats) + 1)
           user == IF ats = {} THEN NONE ELSE Before(q, Min(ats))
<1>1. rest = Rest(t) /\ user = t.user
  BY UserCut
<1>2. Target_parse(q) =
          [user |-> user,
           host |-> IF Contains(rest, COLON) THEN Before(rest, PortColon(rest)) ELSE rest,
           port |-> IF Contains(rest, COLON) THEN parse_u16(After(rest, PortColon(rest) + 1)) ELSE NONE]
  BY DEF Target_parse
<1> HIDE DEF q, rest, user
<1>3. (IF Contains(rest, COLON) THEN Before(rest, PortColon(rest)) ELSE rest) = t.host
  BY <1>1, PortCut
<1>4. (IF Contains(rest, COLON) THEN parse_u16(After(rest, PortColon(rest) + 1)) ELSE NONE)
          = IF t.port = NONE THEN NONE ELSE parse_u16(t.port)
  BY <1>1, PortCut
<1>5. QED
  BY <1>1, <1>2, <1>3, <1>4 DEF q

-----------------------------------------------------------------------------
(***************************************************************************)
(* KnownHostsHandler::new takes a name, or a name in brackets, for the     *)
(* name in lower case.                                                     *)
(***************************************************************************)
LEMMA SameText ==
    ASSUME NEW s \in Seq(Byte), NEW t \in Seq(Byte), Len(s) = Len(t),
           \A x \in 1..Len(t) : s[x] = t[x]
    PROVE  s = t
OBVIOUS

LEMMA Inner ==
    ASSUME NEW h \in Seq(Byte), Len(h) >= 2
    PROVE  /\ SubSeq(h, 2, Len(h) - 1) \in Seq(Byte)
           /\ Len(SubSeq(h, 2, Len(h) - 1)) = Len(h) - 2
           /\ \A x \in 1..(Len(h) - 2) : SubSeq(h, 2, Len(h) - 1)[x] = h[x + 1]
<1> DEFINE m == Len(h) - 1
           s == SubSeq(h, 2, m)
<1>1. m \in 1..Len(h) /\ m - 1 = Len(h) - 2
  OBVIOUS
<1> HIDE DEF m
<1>2. s \in Seq(Byte) /\ Len(s) = m - 1 /\ \A x \in 1..(m - 1) : s[x] = h[x + 1]
  BY <1>1
<1> HIDE DEF s
<1>3. QED
  BY <1>1, <1>2 DEF s, m

LEMMA TrimStartIs ==
    ASSUME NEW text \in Seq(Byte), NEW c, NEW k \in 1..Len(text), text[k] # c,
           \A x \in 1..(k - 1) : text[x] = c
    PROVE  trim_start(text, c) = After(text, k)
<1> DEFINE others == {i \in DOMAIN text : text[i] # c}
<1>1. trim_start(text, c) = IF others = {} THEN <<>> ELSE After(text, Min(others))
  BY DEF trim_start
<1>2. k \in others /\ others \subseteq Int /\ Len(text) \in Nat
  OBVIOUS
<1>3. ASSUME NEW x \in others PROVE k =< x
  <2>1. x \in 1..Len(text) /\ text[x] # c
    OBVIOUS
  <2>2. x \notin 1..(k - 1)
    BY <2>1
  <2>3. QED
    BY <1>2, <2>1, <2>2
<1> HIDE DEF others
<1>4. Min(others) = k
  BY <1>2, <1>3, MinIs
<1>5. QED
  BY <1>1, <1>2, <1>4

LEMMA TrimEndIs ==
    ASSUME NEW text \in Seq(Byte), NEW c, NEW k \in 1..Len(text), text[k] # c,
           \A x \in (k + 1)..Len(text) : text[x] = c
    PROVE  trim_end(text, c) = SubSeq(text, 1, k)
<1> DEFINE others == {i \in DOMAIN text : text[i] # c}
<1>1. trim_end(text, c) = IF others = {} THEN <<>> ELSE SubSeq(text, 1, Max(others))
  BY DEF trim_end
<1>2. k \in others /\ others \subseteq Int /\ Len(text) \in Nat
  OBVIOUS
<1>3. ASSUME NEW x \in others PROVE k >= x
  <2>1. x \in 1..Len(text) /\ text[x] # c
    OBVIOUS
  <2>2. x \notin (k + 1)..Len(text)
    BY <2>1
  <2>3. QED
    BY <1>2, <2>1, <2>2
<1> HIDE DEF others
<1>4. Max(others) = k
  BY <1>2, <1>3, MaxIs
<1>5. QED
  BY <1>1, <1>2, <1>4

LEMMA TrimAll ==
    ASSUME NEW text \in Seq(Byte), NEW c, \A x \in 1..Len(text) : text[x] = c
    PROVE  trim_start(text, c) = <<>> /\ trim_end(text, c) = <<>>
<1>1. {i \in DOMAIN text : text[i] # c} = {}
  OBVIOUS
<1>2. QED
  BY <1>1 DEF trim_start, trim_end

\* A name, as it is or between its brackets.
Framed(h, b) ==
    \/ h = b /\ (h # <<>> => Head(h) # OPEN)
    \/ /\ Len(h) = Len(b) + 2 /\ h[1] = OPEN /\ h[Len(b) + 2] = CLOSE
       /\ \A x \in 1..Len(b) : h[x + 1] = b[x]

LEMMA BareFrames ==
    ASSUME NEW h \in Seq(Byte), IsName(Bare(h))
    PROVE  Bare(h) \in Seq(Byte) /\ Framed(h, Bare(h))
<1> DEFINE around == h # <<>> /\ Head(h) = OPEN /\ h[Len(h)] = CLOSE
           n == Len(h)
<1>1. n \in Nat /\ OPEN # CLOSE
  BY DEF OPEN, CLOSE
<1>2. CASE around
  <2> DEFINE b == SubSeq(h, 2, n - 1)
  <2>1. Bare(h) = b
    BY <1>2 DEF Bare
  <2>2. h[1] = OPEN /\ h[n] = CLOSE /\ n >= 2
    BY <1>1, <1>2
  <2>3. b \in Seq(Byte) /\ Len(b) = n - 2 /\ \A x \in 1..(n - 2) : b[x] = h[x + 1]
    BY <2>2, Inner
  <2> HIDE DEF b, n
  <2>4. n = Len(b) + 2 /\ \A x \in 1..Len(b) : h[x + 1] = b[x]
    BY <1>1, <2>2, <2>3
  <2>5. QED
    BY <2>1, <2>2, <2>3, <2>4 DEF Framed, n
<1>3. CASE ~around
  <2>1. Bare(h) = h
    BY <1>3 DEF Bare
  <2>2. QED
    BY <2>1 DEF Framed, IsName
<1>4. QED
  BY <1>2, <1>3

\* Without the bracket before it.
LEMMA OpenTrimmed ==
    ASSUME NEW h \in Seq(Byte), NEW b \in Seq(Byte), Framed(h, b), IsName(b)
    PROVE  /\ trim_start(h, OPEN) \in Seq(Byte)
           /\ \/ trim_start(h, OPEN) = b
              \/ /\ Len(trim_start(h, OPEN)) = Len(b) + 1
                 /\ trim_start(h, OPEN)[Len(b) + 1] = CLOSE
                 /\ \A x \in 1..Len(b) : trim_start(h, OPEN)[x] = b[x]
<1> DEFINE open == trim_start(h, OPEN)
           n == Len(h)
           k == Len(b)
<1>1. open \in Seq(Byte)
  BY TrimType
<1>2. n \in Nat /\ k \in Nat /\ OPEN # CLOSE
  BY DEF OPEN, CLOSE
<1>3. CASE h = b /\ h = <<>>
  <2>1. open = <<>>
    <3>1. \A x \in 1..Len(h) : h[x] = OPEN
      BY <1>3
    <3>2. QED
      BY <3>1, TrimAll
  <2>2. QED
    BY <1>1, <1>3, <2>1
<1>4. CASE h = b /\ h # <<>>
  <2>1. 1 \in 1..n /\ h[1] # OPEN
    BY <1>4 DEF IsName
  <2>2. open = After(h, 1)
    BY <2>1, TrimStartIs
  <2>3. After(h, 1) = h
    BY DEF After
  <2>4. QED
    BY <1>1, <1>4, <2>2, <2>3
<1>5. CASE /\ n = k + 2 /\ h[1] = OPEN /\ h[k + 2] = CLOSE
           /\ \A x \in 1..k : h[x + 1] = b[x]
  <2>1. h[2] # OPEN
    <3>1. CASE k = 0
      BY <1>2, <1>5, <3>1
    <3>2. CASE k # 0
      <4>1. b # <<>> /\ Head(b) = b[1] /\ 1 \in 1..k /\ 1 + 1 = 2
        BY <1>2, <3>2
      <4>2. b[1] # OPEN
        BY <4>1 DEF IsName
      <4>3. h[1 + 1] = b[1]
        BY <1>5, <4>1
      <4>4. QED
        BY <4>1, <4>2, <4>3
    <3>3. QED
      BY <3>1, <3>2
  <2>2. 2 \in 1..n /\ 2 \in 1..(n + 1)
    BY <1>2, <1>5
  <2>3. \A x \in 1..(2 - 1) : h[x] = OPEN
    BY <1>5
  <2>4. open = After(h, 2)
    BY <2>1, <2>2, <2>3, TrimStartIs
  <2>5. Len(After(h, 2)) = n - 2 + 1 /\ \A x \in 1..(n - 2 + 1) : After(h, 2)[x] = h[x + 2 - 1]
    BY <2>2, AfterIs
  <2> HIDE DEF open, n, k
  <2>6. Len(open) = k + 1 /\ \A x \in 1..(k + 1) : open[x] = h[x + 1]
    <3>1. n - 2 + 1 = k + 1 /\ \A x \in 1..(k + 1) : x + 2 - 1 = x + 1
      BY <1>2, <1>5
    <3>2. QED
      BY <2>4, <2>5, <3>1
  <2>7. open[k + 1] = CLOSE
    <3>1. k + 1 \in 1..(k + 1) /\ (k + 1) + 1 = k + 2
      BY <1>2
    <3>2. open[k + 1] = h[(k + 1) + 1]
      BY <2>6, <3>1
    <3>3. QED
      BY <1>5, <3>1, <3>2
  <2>8. \A x \in 1..k : open[x] = b[x]
    <3>1. \A x \in 1..k : x \in 1..(k + 1)
      BY <1>2
    <3>2. QED
      BY <1>5, <2>6, <3>1
  <2>9. QED
    BY <1>1, <2>6, <2>7, <2>8 DEF open, k
<1>6. QED
  BY <1>3, <1>4, <1>5 DEF Framed

\* Without the bracket after it: no ]: is left before it.
LEMMA CloseTrimmed ==
    ASSUME NEW b \in Seq(Byte), IsName(b), NEW s \in Seq(Byte),
           \/ s = b
           \/ /\ Len(s) = Len(b) + 1 /\ s[Len(b) + 1] = CLOSE
              /\ \A x \in 1..Len(b) : s[x] = b[x]
    PROVE  Places(s, <<CLOSE, COLON>>) = {} /\ trim_end(s, CLOSE) = b
<1> DEFINE n == Len(s)
           k == Len(b)
           ends == Places(s, <<CLOSE, COLON>>)
<1>1. n \in Nat /\ k \in Nat /\ CLOSE # COLON /\ CLOSE \in Byte /\ COLON \in Byte
  BY DEF CLOSE, COLON, Byte
<1>2. Places(b, <<CLOSE, COLON>>) = {}
  BY DEF IsName
<1>3. k # 0 => b[k] # CLOSE
  BY DEF IsName
<1>4. k =< n /\ \A x \in 1..k : s[x] = b[x]
  BY <1>1
<1>5. \A x \in (k + 1)..n : s[x] = CLOSE /\ x = k + 1 /\ n = k + 1
  BY <1>1
<1> HIDE DEF n, k
<1>6. ends = {}
  <2> SUFFICES ASSUME NEW x \in ends PROVE FALSE
    OBVIOUS
  <2>1. x \in 1..(n - 1) /\ s[x] = CLOSE /\ s[x + 1] = COLON
    BY <1>1, PairPlaces DEF n
  <2>2. CASE x + 1 \in 1..k
    <3>1. x \in 1..k /\ x \in 1..(k - 1)
      BY <1>1, <2>1, <2>2
    <3>2. b[x] = CLOSE /\ b[x + 1] = COLON
      BY <1>4, <2>1, <2>2, <3>1
    <3>3. x \in Places(b, <<CLOSE, COLON>>)
      BY <1>1, <3>1, <3>2, PairPlaces DEF k
    <3>4. QED
      BY <1>2, <3>3
  <2>3. CASE x + 1 \notin 1..k
    <3>1. x + 1 \in (k + 1)..n
      BY <1>1, <1>4, <2>1, <2>3
    <3>2. QED
      BY <1>1, <1>5, <2>1, <3>1
  <2>4. QED
    BY <2>2, <2>3
<1>7. trim_end(s, CLOSE) = b
  <2>1. CASE k = 0
    <3>1. \A x \in 1..n : s[x] = CLOSE
      BY <1>5, <2>1
    <3>2. trim_end(s, CLOSE) = <<>>
      BY <3>1, TrimAll DEF n
    <3>3. b = <<>>
      BY <2>1 DEF k
    <3>4. QED
      BY <3>2, <3>3
  <2>2. CASE k # 0
    <3>1. k \in 1..n /\ k \in 1..k
      BY <1>1, <1>4, <2>2
    <3>2. s[k] # CLOSE
      BY <1>3, <1>4, <2>2, <3>1
    <3> DEFINE r == SubSeq(s, 1, k)
    <3>3. trim_end(s, CLOSE) = r
      BY <1>5, <3>1, <3>2, TrimEndIs DEF n
    <3>4. r \in Seq(Byte) /\ Len(r) = k /\ \A x \in 1..k : r[x] = s[x]
      BY <1>1, <3>1 DEF n
    <3> HIDE DEF r
    <3>5. \A x \in 1..k : r[x] = b[x]
      BY <1>4, <3>4
    <3>6. r = b
      BY <3>4, <3>5, SameText DEF k
    <3>7. QED
      BY <3>3, <3>6
  <2>3. QED
    BY <2>1, <2>2
<1>8. QED
  BY <1>6, <1>7

LEMMA NewHandlerIs ==
    ASSUME NEW h \in Seq(Byte), IsName(Bare(h)), NEW w
    PROVE  KnownHostsHandler_new(h, w) = [host |-> Lower(Bare(h)), port |-> w]
<1> DEFINE open == trim_start(h, OPEN)
           ends == Places(open, <<CLOSE, COLON>>)
           cut  == IF ends = {} THEN open ELSE Before(open, Min(ends))
           b == Bare(h)
<1>1. b \in Seq(Byte) /\ Framed(h, b)
  BY BareFrames
<1>2. IsName(b)
  OBVIOUS
<1>3. KnownHostsHandler_new(h, w) = [host |-> Lower(trim_end(cut, CLOSE)), port |-> w]
  BY DEF KnownHostsHandler_new
<1> HIDE DEF b
<1>4. /\ open \in Seq(Byte)
      /\ \/ open = b
         \/ /\ Len(open) = Len(b) + 1 /\ open[Len(b) + 1] = CLOSE
            /\ \A x \in 1..Len(b) : open[x] = b[x]
  BY <1>1, <1>2, OpenTrimmed
<1> HIDE DEF open
<1>5. ends = {} /\ trim_end(open, CLOSE) = b
  BY <1>1, <1>2, <1>4, CloseTrimmed
<1>6. cut = open
  BY <1>5
<1> HIDE DEF cut
<1>7. QED
  BY <1>3, <1>5, <1>6 DEF b

\* Lower leaves a bracket where it was, and makes none.
LEMMA LowerFirst ==
    ASSUME NEW text \in Seq(Byte), IsName(text), Lower(text) # <<>>
    PROVE  Lower(text)[1] # OPEN
<1> DEFINE n == Len(text)
           low == Lower(text)
<1>1. n \in Nat /\ DOMAIN text = 1..n /\ \A i \in 1..n : text[i] \in Byte
  OBVIOUS
<1>2. low = [i \in 1..n |-> IF text[i] \in 65..90 THEN text[i] + 32 ELSE text[i]]
  BY <1>1 DEF Lower
<1>3. low \in Seq(Byte) /\ Len(low) = n
  BY LowerType
<1> HIDE DEF low
<1>4. n # 0
  BY <1>3 DEF low
<1>5. 1 \in 1..n /\ text # <<>> /\ Head(text) = text[1]
  BY <1>1, <1>4
<1>6. text[1] # OPEN
  BY <1>5 DEF IsName
<1>7. low[1] = IF text[1] \in 65..90 THEN text[1] + 32 ELSE text[1]
  BY <1>2, <1>5
<1>8. \A c \in 65..90 : c + 32 # OPEN
  BY DEF OPEN
<1>9. QED
  BY <1>6, <1>7, <1>8 DEF low

-----------------------------------------------------------------------------
(***************************************************************************)
(* Two ports with the same digits are the same port.                       *)
(***************************************************************************)
LEMMA WidthBound ==
    ASSUME NEW w \in U16, Width(w) < 5
    PROVE  w < Powers[Width(w) + 1]
<1> DEFINE T == {5} \cup {k \in 1..4 : w < Powers[k + 1]}
<1>1. T \subseteq Nat /\ T # {}
  OBVIOUS
<1>2. Width(w) = Min(T)
  BY DEF Width
<1>3. \A k \in T : k = 5 \/ w < Powers[k + 1]
  OBVIOUS
<1> HIDE DEF T
<1>4. Min(T) \in T
  BY <1>1, MinIn
<1>5. Width(w) # 5
  BY WidthType
<1>6. QED
  BY <1>2, <1>3, <1>4, <1>5

\* A number is its last digit and what is left of it without.
LEMMA SameOnes ==
    ASSUME NEW v \in Nat, NEW w \in Nat, v \div 10 = w \div 10, v % 10 = w % 10
    PROVE  v = w
OBVIOUS

LEMMA SameTens ==
    ASSUME NEW v \in Nat, NEW w \in Nat, v \div 100 = w \div 100,
           (v \div 10) % 10 = (w \div 10) % 10
    PROVE  v \div 10 = w \div 10
OBVIOUS

LEMMA SameHundreds ==
    ASSUME NEW v \in Nat, NEW w \in Nat, v \div 1000 = w \div 1000,
           (v \div 100) % 10 = (w \div 100) % 10
    PROVE  v \div 100 = w \div 100
OBVIOUS

LEMMA SameThousands ==
    ASSUME NEW v \in Nat, NEW w \in Nat, v \div 10000 = w \div 10000,
           (v \div 1000) % 10 = (w \div 1000) % 10
    PROVE  v \div 1000 = w \div 1000
OBVIOUS

\* The first digit of a number is all that is left of it.
LEMMA NoTens ==
    ASSUME NEW w \in Nat, w < 10
    PROVE  w \div 10 = 0
OBVIOUS

LEMMA NoHundreds ==
    ASSUME NEW w \in Nat, w < 100
    PROVE  w \div 100 = 0
OBVIOUS

LEMMA NoThousands ==
    ASSUME NEW w \in Nat, w < 1000
    PROVE  w \div 1000 = 0
OBVIOUS

LEMMA NoTenThousands ==
    ASSUME NEW w \in Nat, w < 10000
    PROVE  w \div 10000 = 0
OBVIOUS

LEMMA OneTenThousand ==
    ASSUME NEW w \in Nat, w < 65536
    PROVE  (w \div 10000) % 10 = w \div 10000
OBVIOUS

LEMMA U16Bound ==
    ASSUME NEW w \in U16
    PROVE  w \in Nat /\ w < 65536
BY DEF U16

LEMMA DecimalDigits ==
    ASSUME NEW w \in U16
    PROVE  /\ Len(Decimal(w)) = Width(w)
           /\ \A i \in 1..Width(w) : Decimal(w)[i] = 48 + ((w \div Powers[Width(w) + 1 - i]) % 10)
<1> DEFINE width == Width(w)
           f == Decimal(w)
           d(i) == 48 + ((w \div Powers[width + 1 - i]) % 10)
<1>1. f = [i \in 1..width |-> d(i)]
  BY DEF Decimal
<1>2. width \in 1..5 /\ f \in Seq(Byte)
  BY WidthType, DecimalType
<1> HIDE DEF f, width
<1>3. \A i \in 1..width : f[i] = d(i)
  BY <1>1
<1>4. Len(f) = width
  <2>1. DOMAIN f = 1..width
    BY <1>1
  <2>2. QED
    BY <1>2, <2>1
<1>5. QED
  BY <1>3, <1>4 DEF f, width

LEMMA DecimalInjective ==
    ASSUME NEW v \in U16, NEW w \in U16, Decimal(v) = Decimal(w)
    PROVE  v = w
<1> DEFINE k == Width(v)
<1>1. k \in 1..5 /\ Width(w) = k
  BY WidthType, DecimalDigits
<1>2. \A i \in 1..k : (v \div Powers[k + 1 - i]) % 10 = (w \div Powers[k + 1 - i]) % 10
  <2> SUFFICES ASSUME NEW i \in 1..k
               PROVE  (v \div Powers[k + 1 - i]) % 10 = (w \div Powers[k + 1 - i]) % 10
    OBVIOUS
  <2> DEFINE x == (v \div Powers[k + 1 - i]) % 10
             y == (w \div Powers[k + 1 - i]) % 10
  <2>1. Decimal(v)[i] = 48 + x
    BY DecimalDigits
  <2>2. Decimal(w)[i] = 48 + y
    BY <1>1, DecimalDigits
  <2>3. x \in Int /\ y \in Int
    <3> DEFINE P == Powers[k + 1 - i]
    <3>1. k + 1 - i \in 1..5
      BY <1>1
    <3>2. P \in Nat /\ P > 0
      BY <3>1, PowersType
    <3> HIDE DEF P
    <3>3. v \div P \in Int /\ w \div P \in Int
      <4>1. v \in Int /\ w \in Int
        BY DEF U16
      <4>2. QED
        BY <3>2, <4>1
    <3> DEFINE r == v \div P
               s == w \div P
    <3> HIDE DEF r, s
    <3>4. r % 10 \in Int /\ s % 10 \in Int
      BY <3>3 DEF r, s
    <3>5. QED
      BY <3>4 DEF r, s, P
  <2> HIDE DEF x, y
  <2>4. QED
    BY <2>1, <2>2, <2>3 DEF x, y
<1>3. k < 5 => v < Powers[k + 1] /\ w < Powers[k + 1]
  BY <1>1, WidthBound
<1>4. v \in Nat /\ w \in Nat /\ v < 65536 /\ w < 65536
  BY U16Bound
<1>5. /\ Powers[1] = 1 /\ Powers[2] = 10 /\ Powers[3] = 100 /\ Powers[4] = 1000
      /\ Powers[5] = 10000
  BY DEF Powers
<1> HIDE DEF k
<1>6. ASSUME NEW j \in 1..k PROVE (v \div Powers[j]) % 10 = (w \div Powers[j]) % 10
  <2> DEFINE i == k + 1 - j
  <2>1. i \in 1..k /\ k + 1 - i = j
    BY <1>1
  <2> HIDE DEF i
  <2>2. QED
    BY <1>2, <2>1
<1>7. v % 10 = w % 10
  <2>1. 1 \in 1..k
    BY <1>1
  <2>2. (v \div 1) % 10 = (w \div 1) % 10
    BY <1>5, <1>6, <2>1
  <2>3. v \div 1 = v /\ w \div 1 = w
    BY <1>4
  <2>4. QED
    BY <2>2, <2>3
<1>8. ASSUME k >= 2 PROVE (v \div 10) % 10 = (w \div 10) % 10
  <2>1. 2 \in 1..k
    BY <1>1, <1>8
  <2>2. QED
    BY <1>5, <1>6, <2>1
<1>9. ASSUME k >= 3 PROVE (v \div 100) % 10 = (w \div 100) % 10
  <2>1. 3 \in 1..k
    BY <1>1, <1>9
  <2>2. QED
    BY <1>5, <1>6, <2>1
<1>10. ASSUME k >= 4 PROVE (v \div 1000) % 10 = (w \div 1000) % 10
  <2>1. 4 \in 1..k
    BY <1>1, <1>10
  <2>2. QED
    BY <1>5, <1>6, <2>1
<1>11. ASSUME k >= 5 PROVE (v \div 10000) % 10 = (w \div 10000) % 10
  <2>1. 5 \in 1..k
    BY <1>1, <1>11
  <2>2. QED
    BY <1>5, <1>6, <2>1
<1>12. v \div 10000 = w \div 10000
  <2>1. CASE k = 5
    BY <1>4, <1>11, <2>1, OneTenThousand
  <2>2. CASE k < 5
    <3>1. v < 10000 /\ w < 10000
      BY <1>1, <1>3, <1>4, <1>5, <2>2
    <3>2. QED
      BY <1>4, <3>1, NoTenThousands
  <2>3. QED
    BY <1>1, <2>1, <2>2
<1>13. v \div 1000 = w \div 1000
  <2>1. CASE k >= 4
    BY <1>4, <1>10, <1>12, <2>1, SameThousands
  <2>2. CASE k < 4
    <3>1. v < 1000 /\ w < 1000
      BY <1>1, <1>3, <1>4, <1>5, <2>2
    <3>2. QED
      BY <1>4, <3>1, NoThousands
  <2>3. QED
    BY <1>1, <2>1, <2>2
<1>14. v \div 100 = w \div 100
  <2>1. CASE k >= 3
    BY <1>4, <1>9, <1>13, <2>1, SameHundreds
  <2>2. CASE k < 3
    <3>1. v < 100 /\ w < 100
      BY <1>1, <1>3, <1>4, <1>5, <2>2
    <3>2. QED
      BY <1>4, <3>1, NoHundreds
  <2>3. QED
    BY <1>1, <2>1, <2>2
<1>15. v \div 10 = w \div 10
  <2>1. CASE k >= 2
    BY <1>4, <1>8, <1>14, <2>1, SameTens
  <2>2. CASE k < 2
    <3>1. v < 10 /\ w < 10
      BY <1>1, <1>3, <1>4, <1>5, <2>2
    <3>2. QED
      BY <1>4, <3>1, NoTens
  <2>3. QED
    BY <1>1, <2>1, <2>2
<1>16. QED
  BY <1>4, <1>7, <1>15, SameOnes

-----------------------------------------------------------------------------
(***************************************************************************)
(* The names ssh writes for a host and a port are theirs alone.            *)
(***************************************************************************)
LEMMA BracketedInjective ==
    ASSUME NEW h \in Seq(Byte), NEW q \in Seq(Byte), NEW g \in Seq(Byte), NEW r \in Seq(Byte),
           Places(q, <<CLOSE, COLON>>) = {}, Places(r, <<CLOSE, COLON>>) = {},
           Bracketed(h, q) = Bracketed(g, r)
    PROVE  h = g /\ q = r
<1> DEFINE k == Len(h) + 2
           l == Len(g) + 2
           t == Bracketed(h, q)
           u == Bracketed(g, r)
<1>1. Max(Places(t, <<CLOSE, COLON>>)) = k
  BY BracketedPlaces
<1>2. Max(Places(u, <<CLOSE, COLON>>)) = l
  BY BracketedPlaces
<1>3. Tail(Before(t, k)) = h /\ After(t, k + 2) = q
  BY BracketedParts
<1>4. Tail(Before(u, l)) = g /\ After(u, l + 2) = r
  BY BracketedParts
<1>5. t = u
  OBVIOUS
<1> HIDE DEF k, l, t, u
<1>6. k = l
  BY <1>1, <1>2, <1>5
<1>7. QED
  BY <1>3, <1>4, <1>5, <1>6

LEMMA DecimalNoEnd ==
    ASSUME NEW w \in U16
    PROVE  Places(Decimal(w), <<CLOSE, COLON>>) = {}
<1> DEFINE d == Decimal(w)
<1>1. d \in Seq(Byte) /\ \A i \in 1..Len(d) : d[i] \in Digit
  BY DecimalType
<1>2. CLOSE \in Byte /\ COLON \in Byte /\ CLOSE \notin Digit
  BY DEF CLOSE, COLON, Byte, Digit
<1> HIDE DEF d
<1>3. \A x \in Places(d, <<CLOSE, COLON>>) : x \in 1..Len(d) /\ d[x] = CLOSE
  <2>1. \A x \in Places(d, <<CLOSE, COLON>>) : x \in 1..(Len(d) - 1) /\ d[x] = CLOSE
    BY <1>1, <1>2, PairPlaces
  <2>2. \A x \in 1..(Len(d) - 1) : x \in 1..Len(d)
    BY <1>1
  <2>3. QED
    BY <2>1, <2>2
<1>4. QED
  BY <1>1, <1>2, <1>3 DEF d

\* A text without wildcards matches itself alone.
Literal(text) == \A i \in 1..Len(text) : text[i] \notin {STAR, QUESTION}

LEMMA LiteralMatches ==
    ASSUME NEW s, NEW text, Literal(text)
    PROVE  matched_glob(s, text) <=> s = text
<1>1. ~Contains(text, STAR) /\ ~Contains(text, QUESTION)
  BY DEF Contains, Literal
<1>2. QED
  BY <1>1 DEF matched_glob

LEMMA DecimalLiteral ==
    ASSUME NEW w \in U16
    PROVE  Literal(Decimal(w))
<1>1. \A i \in 1..Len(Decimal(w)) : Decimal(w)[i] \in Digit
  BY DecimalType
<1>2. STAR \notin Digit /\ QUESTION \notin Digit
  BY DEF STAR, QUESTION, Digit
<1>3. QED
  BY <1>1, <1>2 DEF Literal

\* A text without wildcards can be parsed, and fits itself alone.
LEMMA LiteralFits ==
    ASSUME NEW s \in Seq(Byte), NEW text \in Seq(Byte), Literal(text)
    PROVE  (Fits(s, text) /\ ~Unparsable(text)) <=> s = text
<1>1. matched_glob(s, text) <=> s = text
  BY LiteralMatches
<1>2. matched_glob(s, text) <=> Fits(s, text) /\ ~Unparsable(text)
  BY GlobAsDocumented
<1>3. QED
  BY <1>1, <1>2

\* The name ssh writes, as a pattern.
AsPattern(l) ==
    [neg |-> FALSE, host |-> l.host, port |-> IF l.port = 22 THEN NONE ELSE Decimal(l.port)]

LEMMA WrittenType ==
    ASSUME NEW l \in Fields, l.is = "written"
    PROVE  /\ l.host \in Seq(Byte) /\ l.port \in U16 /\ l.hashed \in BOOLEAN
           /\ IsName(l.host) /\ Literal(l.host)
           /\ l.host # <<>> => Head(l.host) # BANG
<1>1. l.host \in Seq(Byte) /\ l.port \in U16 /\ l.hashed \in BOOLEAN
  BY FieldsAssumption DEF HostField
<1>2. IsName(l.host) /\ \A i \in 1..Len(l.host) : l.host[i] \notin {BANG, STAR, QUESTION}
  BY <1>1, WrittenReading
<1>3. Literal(l.host)
  BY <1>2 DEF Literal
<1>4. l.host # <<>> => Head(l.host) # BANG
  <2> DEFINE s == l.host
  <2>1. s \in Seq(Byte) /\ \A i \in 1..Len(s) : s[i] # BANG
    BY <1>1, <1>2
  <2> HIDE DEF s
  <2>2. s # <<>> => Head(s) = s[1] /\ 1 \in 1..Len(s)
    BY <2>1
  <2>3. s # <<>> => Head(s) # BANG
    BY <2>1, <2>2
  <2>4. QED
    BY <2>3 DEF s
<1>5. QED
  BY <1>1, <1>2, <1>3, <1>4

LEMMA WrittenPattern ==
    ASSUME NEW l \in Fields, l.is = "written"
    PROVE  /\ AsPattern(l) \in GlobPattern /\ WellRead(AsPattern(l))
           /\ PatternText(AsPattern(l)) = WrittenName(l)
<1> DEFINE p == AsPattern(l)
<1>1. p.neg = FALSE /\ p.host = l.host /\ p.port = IF l.port = 22 THEN NONE ELSE Decimal(l.port)
  BY DEF AsPattern
<1>2. l.host \in Seq(Byte) /\ l.port \in U16 /\ Decimal(l.port) \in Seq(Byte) /\ Decimal(l.port) # NONE
  BY WrittenType, DecimalType
<1>3. p \in GlobPattern
  BY <1>2 DEF GlobPattern, AsPattern
<1> HIDE DEF p
<1>4. WellRead(p)
  <2>1. Places(l.host, <<CLOSE, COLON>>) = {} /\ (l.host = <<>> \/ Head(l.host) # BANG)
    BY WrittenType DEF IsName
  <2>2. Places(Decimal(l.port), <<CLOSE, COLON>>) = {}
    BY <1>2, DecimalNoEnd
  <2>3. QED
    BY <1>1, <1>2, <2>1, <2>2 DEF WellRead
<1>5. PatternText(p) = WrittenName(l)
  <2>1. PatternText(p) = <<>> \o WrittenName(l)
    BY <1>1, <1>2 DEF PatternText, WrittenName
  <2>2. WrittenName(l) \in Seq(Byte)
    <3>1. Bracketed(l.host, Decimal(l.port)) \in Seq(Byte)
      BY <1>2, BracketedLen
    <3>2. QED
      BY <1>2, <3>1 DEF WrittenName
  <2>3. QED
    BY <2>1, <2>2
<1>6. QED
  BY <1>3, <1>4, <1>5 DEF p

\* A plain name, and a hashed one.
LEMMA PlainWritten ==
    ASSUME NEW l \in Fields, l.is = "written", NEW h \in Seq(Byte), NEW w \in U16
    PROVE  verify_plain(h, PortText(w), <<WrittenName(l)>>) <=> l.host = h /\ l.port = w
<1> DEFINE p == AsPattern(l)
           ps == <<p>>
<1>1. p \in GlobPattern /\ WellRead(p) /\ PatternText(p) = WrittenName(l)
  BY WrittenPattern
<1>2. l.host \in Seq(Byte) /\ l.port \in U16 /\ Literal(l.host)
  BY WrittenType
<1>3. p.neg = FALSE /\ p.host = l.host /\ p.port = IF l.port = 22 THEN NONE ELSE Decimal(l.port)
  BY DEF AsPattern
<1> HIDE DEF p
<1>4. ps \in Seq(GlobPattern) /\ DOMAIN ps = {1} /\ ps[1] = p
  BY <1>1
<1>5. [i \in DOMAIN ps |-> PatternText(ps[i])] = <<WrittenName(l)>>
  <2> DEFINE f == [i \in DOMAIN ps |-> PatternText(ps[i])]
             g == <<WrittenName(l)>>
  <2>1. DOMAIN f = {1} /\ f[1] = WrittenName(l)
    BY <1>1, <1>4
  <2>2. DOMAIN g = {1} /\ g[1] = WrittenName(l)
    OBVIOUS
  <2>3. f = [i \in {1} |-> f[i]]
    BY <1>4
  <2>4. g = [i \in {1} |-> g[i]]
    BY <2>2
  <2> HIDE DEF f, g
  <2>5. f = g
    BY <2>1, <2>2, <2>3, <2>4
  <2>6. QED
    BY <2>5 DEF f, g
<1> HIDE DEF ps
<1>6. \A i \in DOMAIN ps : WellRead(ps[i])
  BY <1>1, <1>4
<1>7. verify_plain(h, PortText(w), [i \in DOMAIN ps |-> PatternText(ps[i])]) <=>
          /\ \E i \in DOMAIN ps : ~ps[i].neg /\ Regards(h, w, ps[i])
          /\ \A i \in DOMAIN ps : ps[i].neg => ~Regards(h, w, ps[i])
  BY <1>4, <1>6, VerifyPlain
<1>8. verify_plain(h, PortText(w), <<WrittenName(l)>>) <=> Regards(h, w, p)
  BY <1>3, <1>4, <1>5, <1>7
<1>9. (Fits(h, l.host) /\ ~Unparsable(l.host)) <=> h = l.host
  BY <1>2, LiteralFits
<1>10. CASE l.port = 22
  <2>1. Regards(h, w, p) <=> Fits(h, l.host) /\ ~Unparsable(l.host) /\ w = 22
    BY <1>3, <1>10 DEF Regards
  <2>2. QED
    BY <1>8, <1>9, <1>10, <2>1
<1>11. CASE l.port # 22
  <2> DEFINE d == Decimal(l.port)
             e == Decimal(w)
  <2>1. d \in Seq(Byte) /\ d # NONE /\ Literal(d) /\ e \in Seq(Byte)
    BY <1>2, DecimalType, DecimalLiteral
  <2>2. e = d => w = l.port
    BY <1>2, DecimalInjective
  <2>3. w = l.port => e = d
    OBVIOUS
  <2>4. p.port = d
    BY <1>3, <1>11
  <2>5. Regards(h, w, p) <=>
            Fits(h, l.host) /\ ~Unparsable(l.host) /\ Fits(e, d) /\ ~Unparsable(d)
    BY <1>3, <2>1, <2>4 DEF Regards
  <2> HIDE DEF d, e
  <2>6. (Fits(e, d) /\ ~Unparsable(d)) <=> e = d
    BY <2>1, LiteralFits
  <2>7. QED
    BY <1>8, <1>9, <2>2, <2>3, <2>5, <2>6
<1>12. QED
  BY <1>10, <1>11

LEMMA HashedWritten ==
    ASSUME NEW l \in Fields, l.is = "written", NEW h \in Seq(Byte), NEW w \in U16,
           h # <<>> => h[1] # OPEN
    PROVE  verify_hashed(h, PortText(w), WrittenName(l)) <=> l.host = h /\ l.port = w
<1> DEFINE g == l.host
           d == Decimal(l.port)
           e == Decimal(w)
<1>1. g \in Seq(Byte) /\ l.port \in U16 /\ (g # <<>> => g[1] # OPEN)
  BY WrittenType DEF IsName
<1>2. /\ d \in Seq(Byte) /\ e \in Seq(Byte) /\ e # NONE
      /\ Places(d, <<CLOSE, COLON>>) = {} /\ Places(e, <<CLOSE, COLON>>) = {}
  BY <1>1, DecimalType, DecimalNoEnd
<1>3. d = e => l.port = w
  BY <1>1, DecimalInjective
<1>4. l.port = w => d = e
  OBVIOUS
<1>5. PortText(w) = IF w = 22 THEN NONE ELSE e
  BY DEF PortText
<1>6. WrittenName(l) = IF l.port = 22 THEN g ELSE Bracketed(g, d)
  BY DEF WrittenName
<1> HIDE DEF g, d, e
<1>7. verify_hashed(h, PortText(w), WrittenName(l)) <=>
          (IF l.port = 22 THEN g ELSE Bracketed(g, d)) = IF w = 22 THEN h ELSE Bracketed(h, e)
  BY <1>2, <1>5, <1>6 DEF verify_hashed
<1>8. Bracketed(g, d) # h
  <2> DEFINE t == Bracketed(g, d)
  <2>1. t \in Seq(Byte) /\ Len(t) = Len(g) + Len(d) + 3
    BY <1>1, <1>2, BracketedLen
  <2>2. t[1] = OPEN
    BY <1>1, <1>2, BracketedAt
  <2>3. Len(g) \in Nat /\ Len(d) \in Nat
    BY <1>1, <1>2
  <2> HIDE DEF t
  <2>4. t # <<>>
    BY <2>1, <2>3
  <2>5. QED
    BY <2>2, <2>4 DEF t
<1>9. Bracketed(h, e) # g
  <2> DEFINE t == Bracketed(h, e)
  <2>1. t \in Seq(Byte) /\ Len(t) = Len(h) + Len(e) + 3
    BY <1>2, BracketedLen
  <2>2. t[1] = OPEN
    BY <1>2, BracketedAt
  <2>3. Len(h) \in Nat /\ Len(e) \in Nat
    BY <1>2
  <2> HIDE DEF t
  <2>4. t # <<>>
    BY <2>1, <2>3
  <2>5. QED
    BY <1>1, <2>2, <2>4 DEF t
<1>10. Bracketed(g, d) = Bracketed(h, e) => g = h /\ d = e
  BY <1>1, <1>2, BracketedInjective
<1>11. CASE l.port = 22 /\ w = 22
  BY <1>7, <1>11 DEF g
<1>12. CASE l.port = 22 /\ w # 22
  BY <1>7, <1>9, <1>12
<1>13. CASE l.port # 22 /\ w = 22
  BY <1>7, <1>8, <1>13
<1>14. CASE l.port # 22 /\ w # 22
  <2>1. verify_hashed(h, PortText(w), WrittenName(l)) <=> Bracketed(g, d) = Bracketed(h, e)
    BY <1>7, <1>14
  <2>2. QED
    BY <1>3, <1>4, <1>10, <2>1 DEF g
<1>15. QED
  BY <1>11, <1>12, <1>13, <1>14

\* What is typed is looked up under the names ssh wrote for that host and port,
\* and under no other (Target::parse, KnownHostsHandler::new, Pattern::host_matched
\* and verify_hashed, known_hosts.rs).
THEOREM KnownAsTypedAlways == TextSpec => []KnownAsTyped
<1>1. TextInv => KnownAsTyped
  <2> DEFINE number == IF typed.port = NONE THEN NONE ELSE parse_u16(typed.port)
             b == Bare(typed.host)
             w == Or(number, 22)
  <2> SUFFICES ASSUME TextInv, matched # NONE, field.is = "written",
                      Contains(typed.host, COLON) => typed.port # NONE,
                      Contains(typed.host, AT) => typed.user # NONE
               PROVE  /\ parsed.user = typed.user
                      /\ matched <=> field.host = Lower(b) /\ field.port = w
    BY DEF KnownAsTyped
  <2>1. /\ typed \in Typed /\ field \in Fields
        /\ parsed = Target_parse(Text(typed))
        /\ handler = KnownHostsHandler_new(parsed.host, Or(parsed.port, 22))
        /\ matched <=> Verdict
    BY DEF TextInv
  <2>2. parsed = [user |-> typed.user, host |-> typed.host, port |-> number]
    BY <2>1, ParsesAsTyped
  <2>3. typed.host \in Seq(Byte) /\ IsName(b)
    BY <2>1, TypedAssumption, TypedReading
  <2>4. b \in Seq(Byte)
    BY <2>3, BareFrames
  <2>5. handler = [host |-> Lower(b), port |-> w]
    <3>1. handler = KnownHostsHandler_new(typed.host, w)
      BY <2>1, <2>2
    <3>2. KnownHostsHandler_new(typed.host, w) = [host |-> Lower(b), port |-> w]
      BY <2>3, NewHandlerIs
    <3>3. QED
      BY <3>1, <3>2
  <2>6. handler.host \in Seq(Byte) /\ handler.port \in U16
    BY HandlerReading DEF TextInv
  <2>7. handler.host # <<>> => handler.host[1] # OPEN
    <3>1. Lower(b) # <<>> => Lower(b)[1] # OPEN
      BY <2>3, <2>4, LowerFirst
    <3>2. QED
      BY <2>5, <3>1
  <2>8. Verdict <=> field.host = handler.host /\ field.port = handler.port
    <3>1. CASE field.hashed
      <4>1. Verdict <=> verify_hashed(handler.host, PortText(handler.port), WrittenName(field))
        BY <3>1 DEF Verdict
      <4>2. QED
        BY <2>1, <2>6, <2>7, <4>1, HashedWritten
    <3>2. CASE ~field.hashed
      <4>1. Verdict <=> verify_plain(handler.host, PortText(handler.port), <<WrittenName(field)>>)
        BY <3>2 DEF Verdict
      <4>2. QED
        BY <2>1, <2>6, <4>1, PlainWritten
    <3>3. QED
      BY <3>1, <3>2
  <2>9. parsed.user = typed.user
    BY <2>2
  <2>10. handler.host = Lower(b) /\ handler.port = w
    BY <2>5
  <2>11. QED
    BY <2>1, <2>8, <2>9, <2>10
<1>2. QED
  BY <1>1, TextInvAlways, PTL
=============================================================================
