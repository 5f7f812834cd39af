---------------------------- MODULE TrustedPath ----------------------------
(***************************************************************************)
(* What Connection::connect promises, without saying how: the servers of   *)
(* the route are authenticated one after the other, in the order of the    *)
(* route and none left out, until the target is reached or the attempt is  *)
(* given up; a connection is reported only for the whole route.            *)
(***************************************************************************)
EXTENDS Integers, Sequences

CONSTANTS
    Server,    \* the servers a route may name
    NoRoute    \* the route before connect is called

VARIABLES
    route,     \* the servers to authenticate to, the target last
    path,      \* those that have accepted the client, in that order
    outcome    \* "pending" | "connected" | "failed"

vars == <<route, path, outcome>>

Init ==
    /\ route = NoRoute
    /\ path = <<>>
    /\ outcome = "pending"

Call ==
    /\ route = NoRoute
    /\ route' \in Seq(Server)
    /\ UNCHANGED <<path, outcome>>

Extend ==
    /\ route # NoRoute
    /\ outcome = "pending"
    /\ Len(path) < Len(route)
    /\ path' = Append(path, route[Len(path) + 1])
    /\ outcome' = IF Len(path) + 1 = Len(route) THEN "connected" ELSE "pending"
    /\ UNCHANGED route

GiveUp ==
    /\ route # NoRoute
    /\ outcome = "pending"
    /\ outcome' = "failed"
    /\ UNCHANGED <<route, path>>

Next == Call \/ Extend \/ GiveUp

Spec == Init /\ [][Next]_vars
=============================================================================
