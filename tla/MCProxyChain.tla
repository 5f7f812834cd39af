---------------------------- MODULE MCProxyChain ----------------------------
(***************************************************************************)
(* Every configuration of three names: na and nb with a ProxyJump list of  *)
(* up to two entries, nc with one of up to one, an entry being a bare name *)
(* or "me@nb:2222".  na has a User, nb has none, nc may have one; the      *)
(* system may fail to name the local user.                                 *)
(***************************************************************************)
EXTENDS ProxyChain

CONSTANTS na, nb, nc, me

MCName == {na, nb, nc}
MCUser == {me}
MCPort == {22, 2222}

Bare(n) == [host |-> n, port |-> NULL, user |-> NULL]
Entries == {Bare(n) : n \in MCName} \cup {[host |-> nb, port |-> 2222, user |-> me]}

Lists(max) == UNION {[1..n -> Entries] : n \in 0..max}

Params1(max, users) ==
    {[host_name |-> NULL, port |-> NULL, user |-> u, proxy_jump |-> l] :
        u \in users, l \in Lists(max)}

MCConfs ==
    {[n \in MCName |-> CASE n = na -> pa [] n = nb -> pb [] n = nc -> pc1] :
        pa \in Params1(2, {me}), pb \in Params1(2, {NULL}), pc1 \in Params1(1, {NULL, me})}

MCQueries == {Bare(na)}

\* The longest route without a cycle: three rounds of at most two servers.
MCMaxBastions == 6

\* The route of t by recursion over at most `depth` first jumps; NULL when the
\* first jumps have not ended by then, that is when they form a cycle.
RECURSIVE Follow(_, _, _)
Follow(cf, t, depth) ==
    LET jumps == cf[t.host].proxy_jump
        first == Follow(cf, Head(jumps), depth - 1)
    IN  CASE jumps = <<>> -> <<t>>
          [] jumps # <<>> /\ depth = 0 -> NULL
          [] OTHER -> IF first = NULL THEN NULL ELSE first \o Tail(jumps) \o <<t>>

MCExpansion(cf, t) == Follow(cf, t, 3)
=============================================================================
