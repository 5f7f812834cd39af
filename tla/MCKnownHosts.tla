---------------------------- MODULE MCKnownHosts ----------------------------
(***************************************************************************)
(* Files of up to three lines out of twelve, for two host names and two    *)
(* ports.  e1 and e2 are Ed25519 keys, p is a P-256 key, r an RSA key, d   *)
(* one of another algorithm; the digest of p is the least, although its    *)
(* algorithm comes after Ed25519.                                          *)
(***************************************************************************)
EXTENDS KnownHosts

CONSTANTS n1, n2, Longest

MCHostName == {n1, n2}
MCPort == {22, 2222}
MCDigest == 1..5

Key1(alg, digest) == [alg |-> alg, digest |-> digest]
p  == Key1(4, 1)
e1 == Key1(1, 2)
e2 == Key1(1, 3)
r  == Key1(0, 4)
d  == Key1(7, 5)

Glob(hosts) == [neg |-> FALSE, bare |-> TRUE, port |-> {}, host |-> hosts]
Not(pat) == [pat EXCEPT !.neg = TRUE]
At(ports, pat) == [pat EXCEPT !.bare = FALSE, !.port = ports]

Plain(pats) == [plain |-> pats, hashed |-> NULL]
Hashed(name) == [plain |-> <<>>, hashed |-> name]

L(marker, key, hosts) == [marker |-> marker, key |-> key, hosts |-> hosts]

MCLines ==
    {NULL,
     L("none", e1, Plain(<<Glob({n1})>>)),
     L("none", e1, Hashed(<<n2>>)),
     L("none", e2, Plain(<<At({2222}, Glob({n1, n2}))>>)),
     L("none", p, Plain(<<Glob({n1, n2}), Not(Glob({n2}))>>)),
     L("none", r, Plain(<<At({22, 2222}, Glob({n1}))>>)),
     L("none", d, Plain(<<Glob({n1})>>)),
     L("revoked", e1, Hashed(<<n1>>)),
     L("revoked", e1, Hashed(<<n2, 2222>>)),
     L("revoked", d, Plain(<<Glob({n1})>>)),
     L("ca", e2, Plain(<<Glob({n1})>>)),
     L("ca", d, Plain(<<At({2222}, Glob({n1})), Glob({n1})>>))}

MCFiles == UNION {[1..n -> MCLines] : n \in 0..Longest}

\* The order of russh's Preferred: Ed25519, the three curves from the smallest,
\* RSA with either hash and with none.
MCConfigKey == <<1, 4, 3, 2, 5, 6, 0>>

MCServers == {{e1}, {p, e2}, {r, e1}, {p, r}, {d}}

CertOf(ca, key) ==
    [is_host |-> TRUE, critical |-> FALSE, principals |-> <<{n1}>>, ca |-> ca, key |-> key]

MCCerts ==
    {CertOf(e2, e1), CertOf(d, p),
     [CertOf(e2, e1) EXCEPT !.is_host = FALSE],
     [CertOf(d, r) EXCEPT !.critical = TRUE],
     [CertOf(e2, e1) EXCEPT !.principals = <<>>]}
=============================================================================
