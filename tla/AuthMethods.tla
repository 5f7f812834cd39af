---------------------------- MODULE AuthMethods ----------------------------
(***************************************************************************)
(* How the authentication settings of one host become the ordered list of  *)
(* methods the client tries on it (AuthMethods::from_config in auth.rs).   *)
(*                                                                         *)
(* A path is a member of File or Sock; what is on the disk behind a key    *)
(* path is Content, of which only what check_pub_or_priv looks at is kept. *)
(* Rust's None is NULL for a path and for the list of identities: a list   *)
(* that is there but empty (every IdentityFile was dropped by the tilde    *)
(* expansion) is <<>>, and is treated differently from NULL by the code.   *)
(***************************************************************************)
EXTENDS Integers, Sequences

CONSTANTS
    File,       \* paths of key and certificate files
    Sock,       \* paths of agent sockets
    Content,    \* what a key path looks like, read before the dial
    NULL        \* an absent Option

Header == {"BEGIN PUBLIC", "BEGIN PRIVATE", "BEGIN other", "raw"}

ASSUME ContentAssumption ==
    Content \in [File -> [pub_ext : BOOLEAN, readable : BOOLEAN, header : Header]]

ASSUME NullAssumption == NULL \notin File /\ NULL \notin Sock

Maybe(S) == S \cup {NULL}

\* auth.rs calls the settings AuthConfig, config.rs Auth.
Auth == [identities : Maybe(Seq(File)), cert : Maybe(File), agent : Maybe(Sock),
         identities_only : BOOLEAN, includes_none : BOOLEAN]

(***************************************************************************)
(* AuthMethod, AuthLocalKind and AuthAgentKind as one record: "key" is the *)
(* priv_key or the pub_key path of the kinds that have one.                *)
(***************************************************************************)
Method(by, kind, agent, cert, key) ==
    [by |-> by, kind |-> kind, agent |-> agent, cert |-> cert, key |-> key]

Methods ==
    [by : {"None", "Local", "Agent"},
     kind : {"None", "Full", "LocalPriv", "LocalPub", "LocalCert", "LocalCertPriv", "LocalCertPub"},
     agent : Maybe(Sock), cert : Maybe(File), key : Maybe(File)]

\* A method has the paths its kind needs.
WellFormed(method) ==
    /\ method \in Methods
    /\ method.by = "None" <=> method.kind = "None"
    /\ method.by = "Agent" => method.agent \in Sock
    /\ method.kind = "Full" => method.by = "Agent"
    /\ method.kind \notin {"None", "Full"} => method.key \in File
    /\ method.kind \in {"None", "Full"} => method.cert = NULL

None == Method("None", "None", NULL, NULL, NULL)
Full(agent) == Method("Agent", "Full", agent, NULL, NULL)

Default == <<None>>

-----------------------------------------------------------------------------
\* A .pub name is believed without a look at the file; a file that is missing
\* or shorter than the 40 bytes read is an Error, and so is a PEM header that
\* says neither PUBLIC nor PRIVATE.
check_pub_or_priv(path) ==
    LET c == Content[path]
    IN  CASE c.pub_ext                      -> "MaybePublic"
          [] ~c.pub_ext /\ ~c.readable      -> "Error"
          [] OTHER -> CASE c.header = "BEGIN PRIVATE" -> "MaybePrivate"
                        [] c.header = "BEGIN other"   -> "Error"
                        [] OTHER                      -> "MaybePublic"

LooksPrivate(path) == check_pub_or_priv(path) = "MaybePrivate"

LooksUsable(path) == check_pub_or_priv(path) # "Error"

\* The members of s that are in K, in order: filter and filter_map.
Filter(s, K) ==
    LET kept[n \in 0..Len(s)] ==
            IF n = 0 THEN <<>>
            ELSE IF s[n] \in K THEN Append(kept[n - 1], s[n]) ELSE kept[n - 1]
    IN  kept[Len(s)]

PrivateFiles == {path \in File : LooksPrivate(path)}

UsableFiles == {path \in File : LooksUsable(path)}

Identities(auth) == IF auth.identities = NULL THEN <<>> ELSE auth.identities

\* Mutant: IdentitiesOnly is not looked at.
AgentWins(auth) ==
    CASE auth.agent # NULL -> "AgentFull"
      [] OTHER -> IF auth.identities = NULL THEN "NoAgentEmpty" ELSE "NoAgent"

ConfigState(auth) ==
    CASE auth.agent # NULL /\ auth.identities_only ->
              IF auth.identities = NULL THEN "AgentFilteredEmpty" ELSE "AgentFiltered"
      [] auth.agent # NULL /\ ~auth.identities_only -> "AgentFull"
      [] OTHER -> IF auth.identities = NULL THEN "NoAgentEmpty" ELSE "NoAgent"

\* from_config_no_agent, on an identity that looks private.
LocalMethod(key, cert) ==
    Method("Local", IF cert = NULL THEN "LocalPriv" ELSE "LocalCert", NULL, cert, key)

\* The agent half of from_config_with_agent_filtered, on a usable identity.
AgentMethod(agent, key, cert) ==
    LET kind == IF LooksPrivate(key)
                THEN IF cert = NULL THEN "LocalPriv" ELSE "LocalCertPriv"
                ELSE IF cert = NULL THEN "LocalPub" ELSE "LocalCertPub"
    IN  Method("Agent", kind, agent, cert, key)

\* The filter_map over the identities that keeps those with a local method.
LocalMethods(auth) ==
    LET keys == Filter(Identities(auth), PrivateFiles)
    IN  [i \in DOMAIN keys |-> LocalMethod(keys[i], auth.cert)]

\* Mutant: the identities are taken from the end, as by Vec::pop.
AgentMethodsReversed(auth) ==
    LET keys == Filter(Identities(auth), UsableFiles)
    IN  [i \in DOMAIN keys |-> AgentMethod(auth.agent, keys[Len(keys) + 1 - i], auth.cert)]

\* The filter_map over the identities that keeps those the agent may sign for.
AgentMethods(auth) ==
    LET keys == Filter(Identities(auth), UsableFiles)
    IN  [i \in DOMAIN keys |-> AgentMethod(auth.agent, keys[i], auth.cert)]

-----------------------------------------------------------------------------
from_config_with_none(auth) ==
    CASE ConfigState(auth) = "AgentFiltered" ->
              <<None>> \o AgentMethods(auth) \o LocalMethods(auth)
      [] ConfigState(auth) = "AgentFull" ->
              <<None, Full(auth.agent)>> \o LocalMethods(auth)
      [] ConfigState(auth) = "NoAgent" -> <<None>> \o LocalMethods(auth)
      [] OTHER -> Default

\* The agent methods of from_config_without_none.  When the first usable
\* identity also has a local method the vector starts empty, so the
\* get_or_insert_with that would put the first agent method in never does.
AgentMethodsWithoutNone(auth) ==
    LET agents == AgentMethods(auth)
        keys   == Filter(Identities(auth), UsableFiles)
        first  == IF LooksPrivate(keys[1]) THEN <<>> ELSE <<agents[1]>>
    IN  IF agents = <<>> THEN <<>> ELSE first \o Tail(agents)

\* Mutant: an agent makes the local keys superfluous.
AgentSuffices(auth) ==
    CASE ConfigState(auth) = "AgentFiltered" -> AgentMethodsWithoutNone(auth)
      [] ConfigState(auth) = "AgentFull" -> <<Full(auth.agent)>>
      [] ConfigState(auth) = "NoAgent" -> LocalMethods(auth)
      [] OTHER -> <<>>

\* <<>> stands for Err(NoIdentityFilter) and Err(NoPrivateKey).
from_config_without_none(auth) ==
    CASE ConfigState(auth) = "AgentFiltered" ->
              AgentMethodsWithoutNone(auth) \o LocalMethods(auth)
      [] ConfigState(auth) = "AgentFull" -> <<Full(auth.agent)>> \o LocalMethods(auth)
      [] ConfigState(auth) = "NoAgent" -> LocalMethods(auth)
      [] OTHER -> <<>>

\* unwrap_or_default: an error becomes the singleton stack of "none".
from_config(auth) ==
    IF auth.includes_none
    THEN from_config_with_none(auth)
    ELSE IF from_config_without_none(auth) = <<>>
         THEN Default
         ELSE from_config_without_none(auth)
=============================================================================
