----------------------------- MODULE MCSettings -----------------------------
(***************************************************************************)
(* Identity lists of up to two paths out of four: relative, in the home of *)
(* the local user, in that of another, and empty.  Every kind of value of  *)
(* IdentityAgent, with and without SSH_AUTH_SOCK and a home directory; the *)
(* local user may have no name, so that reading the destination fails for  *)
(* the target that names no user, and succeeds for the other one after it. *)
(***************************************************************************)
EXTENDS Settings

CONSTANTS me, other, alias, real, k, s, var

MCUser == {me, other}
MCName == {alias, real}
MCRest == {k, s}
MCVar == {var}

Plain(rest) == [first |-> "plain", user |-> NULL, rest |-> rest]
Tilde(user, rest) == [first |-> "tilde", user |-> user, rest |-> rest]
Empty == [first |-> "empty", user |-> NULL, rest |-> k]

MCFile == {Plain(rest) : rest \in MCRest} \cup {InHome(rest) : rest \in MCRest}

\* The key ~/k is known by its name to be a public one.
MCContent ==
    [file \in MCFile |->
        [pub_ext |-> file = InHome(k), readable |-> TRUE, header |-> "BEGIN PRIVATE"]]

Paths == {Plain(k), Tilde(me, k), Tilde(other, s), Empty}

Lists == UNION {[1..n -> Paths] : n \in 0..2}

Values ==
    {[is |-> "none"], [is |-> "SSH_AUTH_SOCK"], [is |-> "var", var |-> var],
     [is |-> "path", path |-> Plain(s)], [is |-> "path", path |-> Tilde(other, s)]}

MCHosts ==
    [host_name : {real}, port : {2222}, user : {NULL},
     identity_file : Lists \cup {NULL}, certificate_file : {NULL, Tilde(NULL, s)},
     identityagent : {<<v>> : v \in Values} \cup {NULL},
     identitiesonly : {NULL, <<"yes">>, <<"no", "yes">>}, requesttty : {<<"Yes">>}]
    \cup
    [host_name : {NULL}, port : {NULL}, user : {NULL, me},
     identity_file : {<<>>, <<Tilde(NULL, s)>>}, certificate_file : {NULL},
     identityagent : {NULL, <<>>, <<[is |-> "path", path |-> Plain(s)], [is |-> "none"]>>},
     identitiesonly : {<<>>, <<"Yes">>},
     requesttty : {NULL, <<>>} \cup {<<w>> : w \in {"NO", "force", "auto"}}]

MCSystems ==
    [whoami : {NULL, me}, home : {TRUE}, sock : {NULL, Plain(k), Tilde(other, s)},
     env : [MCVar -> {NULL, Tilde(NULL, s)}]]
    \cup [whoami : {me}, home : {FALSE}, sock : {Tilde(NULL, k)}, env : [MCVar -> {Plain(s)}]]

MCTargets == {[host |-> alias, port |-> NULL, user |-> NULL], [host |-> alias, port |-> 2022, user |-> other]}
=============================================================================
