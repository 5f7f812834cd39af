----------------------------- MODULE ProxyChain -----------------------------
(***************************************************************************)
(* Target::query (parse_config in config.rs): from what the user typed to  *)
(* the Chain of servers, following ProxyJump through the configuration.    *)
(*                                                                         *)
(* conf[n] is what the OpenSSH configuration answers for the host name n   *)
(* (SshConfig::query).  A bastion is kept as the Target it was written as; *)
(* the Host the code pushes is parse_dest of it, a function of conf and    *)
(* the Target alone.                                                       *)
(***************************************************************************)
EXTENDS Integers, Sequences, SequencesExt

CONSTANTS
    Name,             \* host names and aliases
    User,
    Port,             \* port numbers; 22 is the default
    NULL,             \* an absent Option
    Confs,            \* the configurations a behaviour may start with
    Queries,          \* the targets the user may type
    Expansion(_, _),  \* the route a configuration gives a target, or NULL
    MaxBastions       \* bound on the bastions a run follows

Maybe(S) == S \cup {NULL}

Target == [host : Name, port : Maybe(Port), user : Maybe(User)]

\* The fields of HostParams the resolution reads.  proxy_jump = <<>> stands for
\* None and for an empty list.
Params == [host_name : Maybe(Name), port : Maybe(Port), user : Maybe(User),
           proxy_jump : Seq(Target)]

VARIABLES
    conf,         \* the parsed configuration
    target,       \* the target typed
    whoami,       \* the local user name, NULL when whoami::username() fails
    proxy_jump,   \* the ProxyJump list still to be expanded
    bastions,     \* pushed so far, nearest to the target first
    pc            \* "query" | "loop" | "done" | "error"

vars == <<conf, target, whoami, proxy_jump, bastions, pc>>
inputs == <<conf, target, whoami>>

ASSUME ConfsAssumption == Confs \subseteq [Name -> Params]
ASSUME QueriesAssumption == Queries \subseteq Target
ASSUME BoundAssumption == MaxBastions \in Nat
ASSUME NullAssumption == NULL \notin User /\ NULL \notin Seq(Target)

\* The route OpenSSH's rule gives t: only the first server of a ProxyJump list
\* has its own ProxyJump followed.  There is none when that never ends.
ASSUME ExpansionAssumption ==
    \A cf \in Confs, t \in Target :
        LET jumps == cf[t.host].proxy_jump
            first == Expansion(cf, Head(jumps))
        IN  /\ Expansion(cf, t) \in Seq(Target) \cup {NULL}
            /\ jumps = <<>> => Expansion(cf, t) = <<t>>
            /\ jumps # <<>> /\ first = NULL => Expansion(cf, t) = NULL
            /\ jumps # <<>> /\ first # NULL => Expansion(cf, t) = first \o Tail(jumps) \o <<t>>

-----------------------------------------------------------------------------
\* unwrap_or, for Option values.
Or(value, default) == IF value # NULL THEN value ELSE default

\* parse_dest: the configuration wins over what was typed.  NULL stands for
\* Err(UserNotFound).
parse_dest(cf, me, t) ==
    LET p    == cf[t.host]
        user == Or(p.user, Or(t.user, me))
    IN  IF user = NULL
        THEN NULL
        ELSE [name |-> Or(p.host_name, t.host), port |-> Or(p.port, Or(t.port, 22)),
              user |-> user]

Resolves(t) == parse_dest(conf, whoami, t) # NULL

AllResolve(targets) == \A i \in DOMAIN targets : Resolves(targets[i])

TypeOK ==
    /\ conf \in [Name -> Params]
    /\ target \in Target
    /\ whoami \in Maybe(User)
    /\ proxy_jump \in Seq(Target)
    /\ bastions \in Seq(Target)
    /\ pc \in {"query", "loop", "done", "error"}

Init ==
    /\ conf \in Confs
    /\ target \in Queries
    /\ whoami \in Maybe(User)
    /\ proxy_jump = <<>>
    /\ bastions = <<>>
    /\ pc = "query"

\* The query for the typed target itself, and proxy_jump.take().
Query ==
    /\ pc = "query"
    /\ IF Resolves(target)
       THEN /\ pc' = "loop"
            /\ proxy_jump' = conf[target.host].proxy_jump
       ELSE /\ pc' = "error"
            /\ UNCHANGED proxy_jump
    /\ UNCHANGED <<inputs, bastions>>

\* Mutant: the first jump is pushed before the rest.
PushFirst(jumps) == <<Head(jumps)>> \o Reverse(Tail(jumps))

\* What one round pushes: the rest of the list from its end, then its first.
Pushed(jumps) == Reverse(Tail(jumps)) \o <<Head(jumps)>>

\* The server of a list whose own ProxyJump is followed next.
Followed(jumps) == Head(jumps)

\* Mutant: a bastion that does not resolve is left out.
SkipUnresolved ==
    /\ pc = "loop"
    /\ proxy_jump # <<>>
    /\ Len(bastions) + Len(proxy_jump) <= MaxBastions
    /\ bastions' = bastions \o SelectSeq(Pushed(proxy_jump), Resolves)
    /\ proxy_jump' = conf[Followed(proxy_jump).host].proxy_jump
    /\ UNCHANGED <<inputs, pc>>

\* Mutant: the ProxyJump list is not taken from the new bastion.
NotTaken ==
    /\ pc = "loop"
    /\ proxy_jump # <<>>
    /\ Len(bastions) + Len(proxy_jump) <= MaxBastions
    /\ bastions' = bastions \o Pushed(proxy_jump)
    /\ UNCHANGED <<inputs, proxy_jump, pc>>

\* One round of the loop on a non-empty list.  parse_host fails for the whole
\* call as soon as one server of the list has no user.
Expand ==
    /\ pc = "loop"
    /\ proxy_jump # <<>>
    /\ Len(bastions) + Len(proxy_jump) <= MaxBastions
    /\ IF AllResolve(proxy_jump)
       THEN /\ bastions' = bastions \o Pushed(proxy_jump)
            /\ proxy_jump' = conf[Followed(proxy_jump).host].proxy_jump
            /\ UNCHANGED pc
       ELSE /\ pc' = "error"
            /\ UNCHANGED <<bastions, proxy_jump>>
    /\ UNCHANGED inputs

Return ==
    /\ pc = "loop"
    /\ proxy_jump = <<>>
    /\ pc' = "done"
    /\ UNCHANGED <<inputs, proxy_jump, bastions>>

Next == Query \/ Expand \/ Return

Spec == Init /\ [][Next]_vars /\ WF_vars(Next)

-----------------------------------------------------------------------------
chain == [target |-> target, bastions |-> bastions]

C == INSTANCE Chain WITH Host <- Target

Acyclic == Expansion(conf, target) # NULL

\* The servers are dialled along the route OpenSSH's rule gives the typed
\* target, in the order of the route (parse_config pushes them in reverse,
\* config.rs:742-752, and Chain::iter reverses them again, config.rs:649-664).
\* A configuration whose first jumps form a cycle gives no route, and is never
\* turned into a chain: the loop has no other way out.
RouteIsExpansion ==
    pc = "done" => Acyclic /\ C!Route(chain) = Expansion(conf, target)

\* The guarantees the doc of Chain::iter spells out (config.rs:555-619): as
\* many items as bastions, the first leaves the first server, each next one
\* leaves the server the one before reached, the last reaches the target.
IterLinks ==
    LET items == C!Items(chain)
    IN  pc = "done" =>
            /\ Len(items) = Len(bastions)
            /\ items = <<>> => C!First(chain) = target
            /\ items # <<>> =>
                   /\ items[1].from = C!First(chain)
                   /\ items[Len(items)].to = target
            /\ \A k \in 2..Len(items) : items[k].from = items[k - 1].to

\* query fails exactly when a server of the route has no user anywhere: not in
\* its configuration, not as written, not from the system (config.rs:128).
FailsIffUnresolved ==
    Acyclic =>
        /\ pc = "error" => ~AllResolve(Expansion(conf, target))
        /\ pc = "done" => AllResolve(Expansion(conf, target))

\* The loop ends for every configuration without a cycle of first jumps.
AcyclicReturns == Acyclic ~> pc \in {"done", "error"}
=============================================================================
