----------------------------- MODULE KnownHosts -----------------------------
(***************************************************************************)
(* known_hosts.rs: a file of lines is sorted into two tables               *)
(* (KnownHosts::new); a handler for one host and port takes its preferred  *)
(* key algorithms from them (make_handler) and checks the key or           *)
(* certificate the server shows.                                           *)
(*                                                                         *)
(* A digest stands for the key data it is the SHA-256 of.  An algorithm is *)
(* a number: 0 is ssh-rsa with no hash, 1 to 6 are the algorithms SigAlg   *)
(* names, in its order, 7 is any other.  A host is a name as               *)
(* KnownHostsHandler::new leaves it: without brackets, in lower case.      *)
(***************************************************************************)
EXTENDS Integers, Sequences, FiniteSets, Functions

CONSTANTS
    HostName,
    Port,
    Digest,        \* the digests, ordered as numbers
    NULL,          \* an absent Option, and a line that does not parse
    Builds,        \* the builds considered: whether the feature "rsa" is on
    ConfigKey,     \* russh's default order of key algorithms
    Files,         \* the known_hosts files a behaviour may start with
    Servers,       \* per behaviour, the host keys a server has
    Certs          \* the certificates a server may show instead

Algorithm == 0..7
RsaSha512 == 5
RsaSha256 == 6
Other     == 7
SigAlg    == 1..7

\* A host key: one of RSA has no hash of its own.
Key == [alg : {0, 1, 2, 3, 4, 7}, digest : Digest]

\* A glob is the set of names, or of ports, it matches; a bare pattern has no
\* glob for the port.
Pattern == [neg : BOOLEAN, bare : BOOLEAN, port : SUBSET Port, host : SUBSET HostName]

\* A hashed name hides <<host>>, or <<host, port>> when it was [host]:port.
HostPatterns ==
    [plain : Seq(Pattern), hashed : {NULL}]
    \cup [plain : {<<>>}, hashed : (HostName \X Port) \cup {<<h>> : h \in HostName}]

Line == [marker : {"none", "ca", "revoked"}, key : Key, hosts : HostPatterns]

Cert == [is_host : BOOLEAN, critical : BOOLEAN, principals : Seq(SUBSET HostName),
         ca : Key, key : Key]

\* LookupKey, compared as its derived Ord does: Pubkey before Ca, then the
\* algorithm, then the digest.
LookupKey == {1, 2} \X (0..7) \X Digest

Entry == [lookup : LookupKey, hosts : HostPatterns]

MatchResult == {"Found", "NotFound", "KeyMismatch", "Revoked", "PrincipalMismatch",
                "UnknownCriticalOptions", "CertNotVerified"}

ASSUME DigestAssumption == Digest \subseteq Nat
ASSUME PortAssumption == 22 \in Port
ASSUME BuildsAssumption == Builds \subseteq BOOLEAN
ASSUME FilesAssumption == Files \subseteq Seq(Line \cup {NULL})
ASSUME NullAssumption == NULL \notin Line /\ NULL \notin MatchResult
ASSUME ServersAssumption == Servers \subseteq SUBSET Key
ASSUME CertsAssumption == Certs \subseteq Cert
ASSUME ConfigAssumption == ConfigKey \in Seq(Algorithm)

VARIABLES
    rsa,        \* whether the crate is built with its feature "rsa"
    file,       \* the lines of the file
    read,       \* how many of them have been read
    trusted,    \* the table of unmarked and @cert-authority entries
    revoked,    \* the table of @revoked entries
    pc,         \* "read" | "make" | "prefer" | "check" | "done"
    host, port, \* what the handler was made for, NULL before
    known,      \* known_mask, as a set
    at, prev,   \* where known_it stands, and the algorithm yielded last
    left,       \* what is left of config.key
    algs,       \* config.key of the connection, as far as collected
    shown,      \* the key or certificate the server showed
    result      \* the MatchResult

tables == <<rsa, file, read, trusted, revoked>>
target == <<host, port>>
choice == <<known, at, prev, left, algs>>
answer == <<shown, result>>
vars   == <<pc, tables, target, choice, answer>>

-----------------------------------------------------------------------------
\* SigAlg::from.
from(alg) ==
    CASE alg \in {0, RsaSha512, RsaSha256} /\ ~rsa -> Other
      [] alg = 0 /\ rsa -> RsaSha256
      [] OTHER -> alg

Pubkey(alg, digest) == <<1, alg, digest>>
Ca(digest) == <<2, 0, digest>>

Less(a, b) ==
    \/ a[1] < b[1]
    \/ a[1] = b[1] /\ a[2] < b[2]
    \/ a[1] = b[1] /\ a[2] = b[2] /\ a[3] < b[3]

\* verify_plain (a pattern of another port is skipped, a negated one that hits
\* refuses) and verify_hashed.
host_matched(hosts, h, p) ==
    LET Hits(pat) == (IF pat.bare THEN p = 22 ELSE p \in pat.port) /\ h \in pat.host
    IN  IF hosts.hashed # NULL
        THEN hosts.hashed = IF p = 22 THEN <<h>> ELSE <<h, p>>
        ELSE /\ \E i \in DOMAIN hosts.plain : ~hosts.plain[i].neg /\ Hits(hosts.plain[i])
             /\ \A i \in DOMAIN hosts.plain : hosts.plain[i].neg => ~Hits(hosts.plain[i])

-----------------------------------------------------------------------------
Init ==
    /\ rsa \in Builds /\ file \in Files /\ read = 0
    /\ trusted = <<>> /\ revoked = <<>>
    /\ pc = "read"
    /\ host = NULL /\ port = NULL
    /\ known = {} /\ at = 1 /\ prev = Other /\ left = <<>> /\ algs = <<>>
    /\ shown = NULL /\ result = NULL

\* The table entry of a line: a CA is found by its key alone.
Prepared(line) ==
    [lookup |-> IF line.marker = "ca" THEN Ca(line.key.digest)
                ELSE Pubkey(from(line.key.alg), line.key.digest),
     hosts |-> line.hosts]

\* Unmarked keys of an unknown algorithm, and lines that do not parse, are left
\* out.
Kept(line) ==
    /\ line # NULL
    /\ line.marker = "none" => from(line.key.alg) # Other

ReadLine ==
    /\ pc = "read"
    /\ read < Len(file)
    /\ read' = read + 1
    /\ LET line == file[read + 1]
       IN  /\ trusted' = IF Kept(line) /\ line.marker # "revoked"
                         THEN Append(trusted, Prepared(line)) ELSE trusted
           /\ revoked' = IF Kept(line) /\ line.marker = "revoked"
                         THEN Append(revoked, Prepared(line)) ELSE revoked
    /\ UNCHANGED <<pc, rsa, file, target, choice, answer>>

InOrder(entries) ==
    \A i, j \in DOMAIN entries : i < j => ~Less(entries[j].lookup, entries[i].lookup)

\* Mutant: the tables stay in the order of the file.
InFileOrder(entries) == {entries}

\* sort_unstable_by_key: entries with the same lookup come in any order.
SortsOf(entries) ==
    {t \in {[i \in DOMAIN entries |-> entries[p[i]]] : p \in Bijection(DOMAIN entries, DOMAIN entries)} :
        InOrder(t)}

Sort ==
    /\ pc = "read"
    /\ read = Len(file)
    /\ trusted' \in SortsOf(trusted)
    /\ revoked' \in SortsOf(revoked)
    /\ pc' = "make"
    /\ UNCHANGED <<rsa, file, read, target, choice, answer>>

-----------------------------------------------------------------------------
\* Mutant: the hosts of the entries found are not looked at.
AnyHost(entries, lookup) == \E i \in DOMAIN entries : entries[i].lookup = lookup

\* Mutant: the run of equal lookups is taken to have one entry.
FirstOnly(entries, lookup) ==
    \E start \in DOMAIN entries :
        /\ \A j \in 1..(start - 1) : Less(entries[j].lookup, lookup)
        /\ entries[start].lookup = lookup
        /\ host_matched(entries[start].hosts, host, port)

\* partition_point finds where the run of the lookup starts; take_while stays
\* within it.
contains_entry(entries, lookup) ==
    \E start, i \in DOMAIN entries :
        /\ start <= i
        /\ \A j \in 1..(start - 1) : Less(entries[j].lookup, lookup)
        /\ \A j \in start..i : entries[j].lookup = lookup
        /\ host_matched(entries[i].hosts, host, port)

IsPubkey(entry) == entry.lookup[1] = 1

\* Mutant: the entries of other hosts count too.
HasAnyPubkeys == \E i \in DOMAIN trusted : IsPubkey(trusted[i])

has_pubkeys ==
    \E i \in DOMAIN trusted :
        IsPubkey(trusted[i]) /\ host_matched(trusted[i].hosts, host, port)

\* Mutant: a trusted key is found before anything is looked up as revoked.
TrustedFirst(key) ==
    LET lookup == Pubkey(from(key.alg), key.digest)
    IN  CASE from(key.alg) # Other /\ contains_entry(trusted, lookup) -> "Found"
          [] OTHER -> IF contains_entry(revoked, lookup) THEN "Revoked"
                      ELSE IF has_pubkeys THEN "KeyMismatch" ELSE "NotFound"

check_public_key(key) ==
    LET lookup == Pubkey(from(key.alg), key.digest)
    IN  IF contains_entry(revoked, lookup) THEN "Revoked"
        ELSE IF from(key.alg) # Other /\ contains_entry(trusted, lookup) THEN "Found"
        ELSE IF has_pubkeys THEN "KeyMismatch" ELSE "NotFound"

\* `valid` is what Certificate::validate answers for the CA found: it depends on
\* the signature and on the clock.
check_cert(cert, valid) ==
    LET Revoked(key) == contains_entry(revoked, Pubkey(from(key.alg), key.digest))
    IN  IF ~cert.is_host THEN "CertNotVerified"
        ELSE IF cert.critical THEN "UnknownCriticalOptions"
        ELSE IF cert.principals # <<>> /\ \A i \in DOMAIN cert.principals : host \notin cert.principals[i]
             THEN "PrincipalMismatch"
        ELSE IF Revoked(cert.ca) \/ Revoked(cert.key) THEN "Revoked"
        ELSE IF ~contains_entry(trusted, Ca(cert.ca.digest)) THEN "CertNotVerified"
        ELSE IF valid THEN "Found" ELSE check_public_key(cert.key)

-----------------------------------------------------------------------------
\* known_public_key_algs: the loop ends at the first CA.
known_public_key_algs(h, p) ==
    {trusted[i].lookup[2] : i \in {k \in DOMAIN trusted :
        /\ \A j \in 1..k : IsPubkey(trusted[j])
        /\ host_matched(trusted[k].hosts, h, p)}}

\* The iterator, before its first next().
preferred_public_key_alg(h, p) ==
    /\ known' = known_public_key_algs(h, p)
    /\ at' = 1 /\ prev' = Other /\ left' = ConfigKey

\* config.key is collected from the iterator when a key is known, and stays as
\* it is otherwise.
update_preferred_config(h, p) ==
    /\ preferred_public_key_alg(h, p)
    /\ IF known' = {} THEN pc' = "check" /\ algs' = ConfigKey
                      ELSE pc' = "prefer" /\ UNCHANGED algs

MakeHandler(h, p) ==
    /\ pc = "make"
    /\ host' = h /\ port' = p
    /\ update_preferred_config(h, p)
    /\ UNCHANGED <<tables, answer>>

\* Mutant: an algorithm yielded before is not passed over.
PassedUnknown(entry) == IsPubkey(entry) /\ entry.lookup[2] \notin known

\* An entry the loop over known_it continues from.
Passed(entry) == IsPubkey(entry) /\ (entry.lookup[2] \notin known \/ entry.lookup[2] = prev)

\* A call of next() that yields a known algorithm.
NextKnown ==
    /\ pc = "prefer"
    /\ \E i \in at..Len(trusted) :
           /\ \A j \in at..(i - 1) : Passed(trusted[j])
           /\ IsPubkey(trusted[i]) /\ ~Passed(trusted[i])
           /\ at' = i + 1
           /\ prev' = trusted[i].lookup[2]
           /\ algs' = Append(algs, prev')
    /\ UNCHANGED <<pc, tables, target, known, left, answer>>

\* known_it is used up, or has stopped on a CA; it stands at `next` then.
KnownIsOver(next) ==
    \/ next = Len(trusted) + 1 /\ \A j \in at..Len(trusted) : Passed(trusted[j])
    \/ \E i \in at..Len(trusted) :
           ~IsPubkey(trusted[i]) /\ next = i + 1 /\ \A j \in at..(i - 1) : Passed(trusted[j])

\* A call of next() that yields one of the algorithms of config.key, or None.
NextConfig ==
    /\ pc = "prefer"
    /\ \E next \in at..(Len(trusted) + 1) : KnownIsOver(next) /\ at' = next
    /\ \/ \E i \in DOMAIN left :
              /\ \A j \in 1..(i - 1) : from(left[j]) \in known
              /\ from(left[i]) \notin known
              /\ algs' = Append(algs, left[i])
              /\ left' = SubSeq(left, i + 1, Len(left))
              /\ UNCHANGED pc
       \/ /\ \A j \in DOMAIN left : from(left[j]) \in known
          /\ left' = <<>>
          /\ pc' = "check"
          /\ UNCHANGED algs
    /\ UNCHANGED <<tables, target, known, prev, answer>>

-----------------------------------------------------------------------------
\* The algorithms a key can sign with.
Signs(key) == IF key.alg = 0 THEN {0, RsaSha512, RsaSha256} ELSE {key.alg}

\* The key a server shows: for the first algorithm of the client it has one for.
Negotiated(keys, key) ==
    \E i \in DOMAIN algs :
        /\ key \in keys
        /\ algs[i] \in Signs(key)
        /\ \A j \in 1..(i - 1) : \A other \in keys : algs[j] \notin Signs(other)

CheckKey(keys, key) ==
    /\ pc = "check"
    /\ Negotiated(keys, key)
    /\ shown' = [keys |-> keys, key |-> key]
    /\ result' = check_public_key(key)
    /\ pc' = "done"
    /\ UNCHANGED <<tables, target, choice>>

CheckCert(cert, valid) ==
    /\ pc = "check"
    /\ shown' = [cert |-> cert, valid |-> valid]
    /\ result' = check_cert(cert, valid)
    /\ pc' = "done"
    /\ UNCHANGED <<tables, target, choice>>

Next ==
    \/ ReadLine \/ Sort
    \/ \E h \in HostName, p \in Port : MakeHandler(h, p)
    \/ NextKnown \/ NextConfig
    \/ \E keys \in Servers : \E key \in keys : CheckKey(keys, key)
    \/ \E cert \in Certs, valid \in BOOLEAN : CheckCert(cert, valid)

Spec == Init /\ [][Next]_vars

-----------------------------------------------------------------------------
TypeOK ==
    /\ rsa \in Builds /\ file \in Files /\ read \in 0..Len(file)
    /\ trusted \in Seq(Entry) /\ revoked \in Seq(Entry)
    /\ \A i \in DOMAIN trusted : IsPubkey(trusted[i]) => trusted[i].lookup[2] \in SigAlg \ {Other}
    /\ pc \in {"read", "make", "prefer", "check", "done"}
    /\ host \in HostName \cup {NULL} /\ port \in Port \cup {NULL}
    /\ known \subseteq SigAlg \ {Other}
    /\ at \in 1..(Len(file) + 1) /\ prev \in SigAlg
    /\ left \in Seq(Algorithm) /\ algs \in Seq(Algorithm)
    /\ result \in MatchResult \cup {NULL}

\* What the file says of the host, whatever the order of its lines.
Lines(marker) ==
    {file[i] : i \in {k \in DOMAIN file :
        file[k] # NULL /\ file[k].marker = marker /\ host_matched(file[k].hosts, host, port)}}

SameKey(a, b) == a.digest = b.digest /\ from(a.alg) = from(b.alg)

Listed(key)    == from(key.alg) # Other /\ \E line \in Lines("none") : SameKey(line.key, key)
Revoked(key)   == \E line \in Lines("revoked") : SameKey(line.key, key)
Authority(key) == \E line \in Lines("ca") : line.key.digest = key.digest

ShowedKey  == pc = "done" /\ "key" \in DOMAIN shown
ShowedCert == pc = "done" /\ "cert" \in DOMAIN shown

\* Whether check_cert comes as far as the keys.
Applies(cert) ==
    /\ cert.is_host /\ ~cert.critical
    /\ cert.principals = <<>> \/ \E i \in DOMAIN cert.principals : host \in cert.principals[i]

\* "A matched @revoked entry returns Revoked, even if the key is also trusted.
\* The order of the entries does not affect this result" (known_hosts.rs:266-268),
\* and for a certificate either of its keys (known_hosts.rs:319-321).
RevocationWins ==
    /\ ShowedKey /\ Revoked(shown.key) => result = "Revoked"
    /\ ShowedCert /\ (Revoked(shown.cert.ca) \/ Revoked(shown.cert.key)) =>
           result # "Found" /\ (Applies(shown.cert) => result = "Revoked")

\* A server is accepted only on the word of a line for its host and port: its
\* own key on an unmarked line, or the authority of a certificate that applies;
\* a certificate that is not valid falls back to its own key, and only there.
AcceptedIsVouched ==
    result = "Found" =>
        /\ ShowedKey => Listed(shown.key)
        /\ ShowedCert =>
               /\ Applies(shown.cert)
               /\ Authority(shown.cert.ca)
               /\ shown.valid \/ Listed(shown.cert.key)

\* And it is accepted on any such line: none of them is lost between the file,
\* the tables and the search.
VouchedIsAccepted ==
    /\ ShowedKey /\ Listed(shown.key) /\ ~Revoked(shown.key) => result = "Found"
    /\ (/\ ShowedCert
        /\ Applies(shown.cert) /\ Authority(shown.cert.ca)
        /\ ~Revoked(shown.cert.ca) /\ ~Revoked(shown.cert.key)
        /\ shown.valid \/ Listed(shown.cert.key)) => result = "Found"

\* A key that has changed is told from a host never seen: by the unmarked lines
\* of a supported algorithm for the host, and by nothing else in the file
\* (known_hosts.rs:270-273).
MismatchMeansKnown ==
    result \in {"KeyMismatch", "NotFound"} =>
        (result = "KeyMismatch" <=> \E line \in Lines("none") : from(line.key.alg) # Other)

KnownAlgs == {from(line.key.alg) : line \in Lines("none")} \ {Other}

\* The order of key algorithms asked for: each known one once, in the order of
\* SigAlg, then what config.key has besides, in its order; config.key itself when
\* no key is known (known_hosts.rs:411-417, 430-447).
KnownFirst ==
    LET n    == Cardinality(KnownAlgs)
        Rest == {p \in DOMAIN ConfigKey : from(ConfigKey[p]) \notin KnownAlgs}
    IN  pc \in {"check", "done"} =>
            /\ Len(algs) = n + Cardinality(Rest)
            /\ \A a \in KnownAlgs : algs[Cardinality({b \in KnownAlgs : b <= a})] = a
            /\ \A p \in Rest : algs[n + Cardinality({q \in Rest : q <= p})] = ConfigKey[p]

\* What the preference is for: a server that still has a key the file lists, and
\* has changed none the file lists, is not taken for a changed one because it
\* shows a key of another algorithm.
NoFalseMismatch ==
    (/\ ShowedKey
     /\ \E key \in shown.keys : Listed(key)
     /\ \A key \in shown.keys : from(key.alg) \in KnownAlgs => Listed(key))
    => result \in {"Found", "Revoked"}
=============================================================================
