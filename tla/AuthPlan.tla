------------------------------ MODULE AuthPlan ------------------------------
(***************************************************************************)
(* One call of AuthMethods::from_config for any settings of a bounded set, *)
(* and what the resulting plan of methods owes the settings it comes from. *)
(* Its names differ from those of Settings, beside which it is proved.     *)
(***************************************************************************)
EXTENDS AuthMethods

CONSTANT Auths    \* the settings the calls are made with

ASSUME AuthsAssumption == Auths \subseteq Auth

VARIABLES
    settings,   \* the settings of the host
    methods     \* the plan, NULL until from_config has returned

plan_vars == <<settings, methods>>

TypeOK ==
    /\ settings \in Auths
    /\ methods # NULL => methods \in Seq(Methods) /\ \A i \in DOMAIN methods : WellFormed(methods[i])

PlanInit ==
    /\ settings \in Auths
    /\ methods = NULL

Plan ==
    /\ methods = NULL
    /\ methods' = from_config(settings)
    /\ UNCHANGED settings

PlanNext == Plan

PlanSpec == PlanInit /\ [][PlanNext]_plan_vars

-----------------------------------------------------------------------------
Planned == methods # NULL

plan == IF Planned THEN methods ELSE <<>>

Planned1(by, key) == \E p \in DOMAIN plan : plan[p].by = by /\ plan[p].key = key

Listed == {Identities(settings)[i] : i \in DOMAIN Identities(settings)}

Rank(m) == CASE m.by = "None" -> 0 [] m.by = "Agent" -> 1 [] m.by = "Local" -> 2

\* IdentitiesOnly: no method lets the agent offer a key of its own choice, and
\* every key named by a method is one the configuration lists (from_config,
\* auth.rs:735-758: the difference between AgentFiltered and AgentFull).
IdentitiesOnlyRespected ==
    \A p \in DOMAIN plan :
        /\ plan[p].key \in Listed \cup {NULL}
        /\ settings.identities_only => plan[p].kind # "Full"

\* The order of the attempts: "none", then the agent, then the local keys, each
\* group in the order of the IdentityFile directives (config.rs:217).
TriesInOrder ==
    \A p, q \in DOMAIN plan : p < q =>
        /\ Rank(plan[p]) <= Rank(plan[q])
        /\ plan[p].by = plan[q].by =>
               \E i, j \in DOMAIN Identities(settings) :
                   /\ i < j
                   /\ Identities(settings)[i] = plan[p].key
                   /\ Identities(settings)[j] = plan[q].key

\* Every identity that could be used is: with an agent and IdentitiesOnly each
\* usable one is offered through the agent, and each one that looks private is
\* also tried with the local key, whatever the settings.
NothingSkipped ==
    Planned =>
        \A f \in Listed :
            /\ ConfigState(settings) = "AgentFiltered" /\ LooksUsable(f) => Planned1("Agent", f)
            /\ LooksPrivate(f) => Planned1("Local", f)

\* What "interpret the config as-is" (auth.rs:764-765) leaves of the plan when
\* includes_none is cleared: the same methods without the leading "none".  The
\* settings whose first usable identity looks private are excluded: there the
\* code drops the agent method of that identity (see NothingSkipped).
AsIsWithoutNone ==
    LET withNone == from_config_with_none(settings)
        firstIsPrivate ==
            \E i \in DOMAIN Identities(settings) :
                /\ LooksPrivate(Identities(settings)[i])
                /\ \A j \in 1..(i - 1) : ~LooksUsable(Identities(settings)[j])
    IN  (/\ Planned
         /\ ~settings.includes_none
         /\ Len(withNone) > 1
         /\ ~(ConfigState(settings) = "AgentFiltered" /\ firstIsPrivate))
        => methods = Tail(withNone)

\* The field doc of includes_none (config.rs:226-228): it says whether "none"
\* is performed at all, so clearing it removes the method.
NoneOnlyIfIncluded ==
    ~settings.includes_none => \A p \in DOMAIN plan : plan[p] # None
=============================================================================
