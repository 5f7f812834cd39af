----------------------------- MODULE MCConnect -----------------------------
(***************************************************************************)
(* Chains of one to three servers.  k1 and k2 are private keys, p2 is the  *)
(* public half of k2, c1 a certificate for k1; the agent holds a key no    *)
(* configuration lists, a host certificate and a user certificate for k2.  *)
(***************************************************************************)
EXTENDS Connect

CONSTANTS k1, k2, p2, c1, sock, h1, h2, h3, key1, key2, key3

MCFile == {k1, k2, p2, c1}
MCSock == {sock}
MCKey == {key1, key2, key3}

MCContent ==
    [f \in MCFile |-> [pub_ext |-> f \in {p2, c1}, readable |-> TRUE, header |-> "BEGIN PRIVATE"]]

MCPublicOf == [f \in MCFile |-> IF f \in {k1, c1} THEN key1 ELSE key2]

MCIdentity ==
    [s \in MCSock |-> <<[key |-> key3, kind |-> "PublicKey"], [key |-> key1, kind |-> "HostCert"],
                        [key |-> key2, kind |-> "UserCert"]>>]

Settings(identities, cert, agent, only, none) ==
    [identities |-> identities, cert |-> cert, agent |-> agent,
     identities_only |-> only, includes_none |-> none]

\* "none" alone; two local keys; a certificate that fits only the first of them;
\* an agent restricted to a private and a public identity; an agent with all it
\* holds, before a local key; two public identities only, and no "none".
Nothing   == Settings(NULL, NULL, NULL, FALSE, TRUE)
TwoKeys   == Settings(<<k1, k2>>, NULL, NULL, FALSE, TRUE)
OneCert   == Settings(<<k1, k2>>, c1, NULL, TRUE, TRUE)
Filtered  == Settings(<<k1, p2>>, NULL, sock, TRUE, TRUE)
AgentAll  == Settings(<<k2>>, NULL, sock, FALSE, TRUE)
NoNone    == Settings(<<p2, k1>>, c1, sock, TRUE, FALSE)

AllSettings == {Nothing, TwoKeys, OneCert, Filtered, AgentAll, NoNone}

H(name, auth) == [name |-> name, auth |-> auth]

MCHost == {H(n, x) : n \in {h1, h2, h3}, x \in AllSettings}

MCCalls ==
    {[target |-> H(h1, x), bastions |-> <<>>] : x \in AllSettings}
    \cup {[target |-> H(h1, x), bastions |-> <<H(h2, y)>>] : x \in AllSettings, y \in AllSettings}
    \cup {[target |-> H(h1, x), bastions |-> <<H(h2, Nothing), H(h3, y)>>] :
              x \in {Filtered, TwoKeys}, y \in {AgentAll, NoNone}}
=============================================================================
