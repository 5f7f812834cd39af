------------------------------ MODULE Settings ------------------------------
(***************************************************************************)
(* The settings of one host (parse_host, parse_dest, parse_auth and        *)
(* parse_tty in config.rs), read off the parameters the OpenSSH            *)
(* configuration gives for its name, and the plan of methods they lead to. *)
(*                                                                         *)
(* The reading is destructive: values are taken out of the parameters, so  *)
(* what a call of parse_openssh finds depends on the calls before it, also *)
(* on those that failed.  The target is an argument of each call.          *)
(*                                                                         *)
(* A written path is its first component and the rest.  "tilde" is ~ (user *)
(* is NULL) or ~user, a name that is not UTF-8 being a user nobody is;     *)
(* "plain" is every other path, absolute ones included; "empty" has no     *)
(* component.  The value of IdentityAgent is the word "none", the word     *)
(* SSH_AUTH_SOCK, $VARIABLE, or a path.                                    *)
(***************************************************************************)
EXTENDS AuthMethods

CONSTANTS
    User,
    Name,      \* host names and aliases
    Rest,      \* what follows the first component of a path
    Var,       \* environment variables other than SSH_AUTH_SOCK
    Hosts,     \* the parameters a behaviour may start with
    Systems,   \* the surroundings it may start in
    Targets,   \* the targets a call may be made with
    MaxCalls   \* bound on the calls made on one HostParams

Path == [first : {"tilde"}, user : Maybe(User), rest : Rest]
        \cup [first : {"plain", "empty"}, user : {NULL}, rest : Rest]

\* A path in the home directory of the local user.
InHome(rest) == [first |-> "home", user |-> NULL, rest |-> rest]

Value == [is : {"none", "SSH_AUTH_SOCK"}] \cup [is : {"var"}, var : Var] \cup [is : {"path"}, path : Path]

Word == {"yes", "Yes", "no", "NO", "force", "auto"}

\* The fields of HostParams that are read; NULL stands for an absent one.
HostParams ==
    [host_name : Maybe(Name), port : Maybe(Nat), user : Maybe(User),
     identity_file : Maybe(Seq(Path)), certificate_file : Maybe(Path),
     identityagent : Maybe(Seq(Value)), identitiesonly : Maybe(Seq(Word)),
     requesttty : Maybe(Seq(Word))]

Target == [host : Name, port : Maybe(Nat), user : Maybe(User)]

\* whoami::username() and home_dir(), which may fail, and the environment.
System == [whoami : Maybe(User), home : BOOLEAN, sock : Maybe(Path), env : [Var -> Maybe(Path)]]

ASSUME HostsAssumption == Hosts \subseteq HostParams
ASSUME SystemsAssumption == Systems \subseteq System
ASSUME TargetsAssumption == Targets \subseteq Target
ASSUME CallsAssumption == MaxCalls \in Nat

\* What parse_dest returns.
Dest == [name : Name, port : Nat, user : User]

ASSUME NullIsNoTarget == NULL \notin Target
ASSUME NullIsNoResult == NULL \notin Auth /\ NULL \notin Dest /\ NULL \notin Seq(File)

\* Every path the settings can hold is one AuthMethods knows the look of.
ASSUME FileAssumption ==
    \A rest \in Rest :
        {InHome(rest), [first |-> "plain", user |-> NULL, rest |-> rest]} \subseteq File \cap Sock

VARIABLES
    params,   \* what SshConfig::query answered
    system,
    conf,     \* what is left of params
    results   \* what each call so far was asked and returned

vars == <<params, system, conf, results>>
inputs == <<params, system>>

-----------------------------------------------------------------------------
Or(value, default) == IF value # NULL THEN value ELSE default

FirstOf(values) == IF Or(values, <<>>) = <<>> THEN NULL ELSE values[1]

\* Mutant: ~user is taken for ~ whoever the user is.
AnyTilde(path) ==
    CASE path.first = "plain" -> path
      [] path.first = "tilde" /\ system.home -> InHome(path.rest)
      [] OTHER -> NULL

\* NULL when the path is to be ignored.
expand_tilde(path) ==
    CASE path.first = "plain" -> path
      [] path.first = "tilde" /\ path.user \in {NULL, system.whoami} /\ system.home -> InHome(path.rest)
      [] OTHER -> NULL

Expanded(path) == IF path = NULL THEN NULL ELSE expand_tilde(path)

\* Mutant: the list ends before the first path that is ignored.
UpToIgnored(paths) ==
    LET Kept(n) == \A i \in 1..n : expand_tilde(paths[i]) # NULL
    IN  SubSeq(paths, 1, CHOOSE n \in 0..Len(paths) : Kept(n) /\ (n = Len(paths) \/ ~Kept(n + 1)))

\* The filter_map over the values of IdentityFile.
NotIgnored(paths) == Filter(paths, {path \in Path : expand_tilde(path) # NULL})

identities(c) ==
    LET kept == NotIgnored(Or(c.identity_file, <<>>))
    IN  IF c.identity_file = NULL THEN NULL ELSE [i \in DOMAIN kept |-> expand_tilde(kept[i])]

parse_agent(value) ==
    CASE value.is = "none"          -> NULL
      [] value.is = "SSH_AUTH_SOCK" -> Expanded(system.sock)
      [] value.is = "var"           -> Expanded(system.env[value.var])
      [] value.is = "path"          -> expand_tilde(value.path)

\* or_else: "none" and a value that comes to nothing leave it to SSH_AUTH_SOCK.
agent(c) ==
    LET value == FirstOf(c.identityagent)
    IN  Or(IF value = NULL THEN NULL ELSE parse_agent(value), Expanded(system.sock))

\* What parse_auth returns; conf afterwards is Emptied.
parse_auth(c) ==
    [identities |-> identities(c), cert |-> Expanded(c.certificate_file), agent |-> agent(c),
     identities_only |-> FirstOf(c.identitiesonly) = "yes", includes_none |-> TRUE]

AuthTaken(c) ==
    [c EXCEPT !.identity_file = NULL, !.certificate_file = NULL, !.identityagent = NULL]

\* NULL stands for Err(UserNotFound).
parse_dest(c, t) ==
    LET user == Or(c.user, Or(t.user, system.whoami))
    IN  IF user = NULL
        THEN NULL
        ELSE [name |-> Or(c.host_name, t.host), port |-> Or(c.port, Or(t.port, 22)), user |-> user]

\* Both values are taken before the missing user is noticed.
DestTaken(c) == [c EXCEPT !.host_name = NULL, !.user = NULL]

\* eq_ignore_ascii_case.
SameWord(value, word) ==
    value \in CASE word = "yes" -> {"yes", "Yes"} [] word = "no" -> {"no", "NO"} [] OTHER -> {word}

parse_tty(c) ==
    LET value == FirstOf(c.requesttty)
    IN  CASE SameWord(value, "no")    -> "Never"
          [] SameWord(value, "yes")   -> "IfTty"
          [] SameWord(value, "force") -> "Always"
          [] OTHER                    -> "ForShell"

-----------------------------------------------------------------------------
\* What one call was asked and returned: a call that is for no destination has no
\* target, the parts it did not read are NULL, and an Err has no part.
Result(target, d, a, t) == [asked |-> target, dest |-> d, auth |-> a, tty |-> t]

Init ==
    /\ params \in Hosts
    /\ system \in Systems
    /\ conf = params
    /\ results = <<>>

Call(result) ==
    /\ Len(results) < MaxCalls
    /\ results' = Append(results, result)
    /\ UNCHANGED inputs

Dest_parse_openssh(target) ==
    /\ Call(Result(target, parse_dest(conf, target), NULL, NULL))
    /\ conf' = DestTaken(conf)

Auth_parse_openssh ==
    /\ Call(Result(NULL, NULL, parse_auth(conf), NULL))
    /\ conf' = AuthTaken(conf)

RequestTty_parse_openssh ==
    /\ Call(Result(NULL, NULL, NULL, parse_tty(conf)))
    /\ UNCHANGED conf

\* Mutant: the authentication settings are taken before the destination.
AuthTakenFirst(target) ==
    LET dest == parse_dest(conf, target)
    IN  /\ conf' = AuthTaken(DestTaken(conf))
        /\ IF dest = NULL
           THEN Call(Result(target, NULL, NULL, NULL))
           ELSE Call(Result(target, dest, parse_auth(conf), parse_tty(conf)))

\* An Err of parse_dest leaves the rest where it is.
Host_parse_openssh(target) ==
    LET dest == parse_dest(conf, target)
    IN  IF dest = NULL
        THEN /\ Call(Result(target, NULL, NULL, NULL))
             /\ conf' = DestTaken(conf)
        ELSE /\ Call(Result(target, dest, parse_auth(conf), parse_tty(conf)))
             /\ conf' = AuthTaken(DestTaken(conf))

Next ==
    \/ \E target \in Targets : Dest_parse_openssh(target)
    \/ \E target \in Targets : Host_parse_openssh(target)
    \/ Auth_parse_openssh
    \/ RequestTty_parse_openssh

Spec == Init /\ [][Next]_vars

-----------------------------------------------------------------------------
\* The path a written one means to this user: a path in the home of another
\* user, or in a home nobody knows, means none (config.rs:123-127).
Means(path, file) ==
    \/ path.first = "plain" /\ file = path
    \/ /\ path.first = "tilde"
       /\ path.user # NULL => path.user = system.whoami
       /\ system.home
       /\ file = InHome(path.rest)

Written(values) == {Or(values, <<>>)[i] : i \in DOMAIN Or(values, <<>>)}

Present(value) == {value} \ {NULL}

\* The sockets the configuration or the environment names.
AgentPaths ==
    LET values == Written(params.identityagent)
    IN  UNION {{v.path : v \in {w \in values : w.is = "path"}},
               {system.env[v.var] : v \in {w \in values : w.is = "var"}} \ {NULL},
               Present(system.sock)}

AuthsRead == {results[i].auth : i \in DOMAIN results} \ {NULL}

\* Whatever was read before, no credential is used that nobody configured: each
\* method of the resulting plan has a key, a certificate and an agent that are
\* what a directive or SSH_AUTH_SOCK means to this user, and under IdentitiesOnly
\* no method lets the agent choose, also when every path was ignored or has been
\* taken by an earlier call (parse_auth with AuthMethods::from_config).
OnlyConfigured ==
    \A auth \in AuthsRead :
        LET plan == from_config(auth)
        IN  \A i \in DOMAIN plan :
                /\ plan[i].key # NULL => \E p \in Written(params.identity_file) : Means(p, plan[i].key)
                /\ plan[i].cert # NULL => \E p \in Present(params.certificate_file) : Means(p, plan[i].cert)
                /\ plan[i].agent # NULL => \E p \in AgentPaths : Means(p, plan[i].agent)
                /\ FirstOf(params.identitiesonly) = "yes" => plan[i].kind # "Full"

\* The first reading loses nothing: every identity that is written and means a
\* path is tried, in spite of ignored ones beside it, with the local key if it
\* looks private and through the agent if the agent may not choose itself; and
\* no agent is used only when SSH_AUTH_SOCK means none.
NothingConfiguredIsLost ==
    \A i \in DOMAIN results :
        (results[i].auth # NULL /\ \A j \in 1..(i - 1) : results[j].auth = NULL) =>
            LET auth == results[i].auth
                plan == from_config(auth)
                Tried(by, file) == \E m \in DOMAIN plan : plan[m].by = by /\ plan[m].key = file
            IN  /\ \A p \in Written(params.identity_file) : \A file \in File :
                       Means(p, file) =>
                           /\ LooksPrivate(file) => Tried("Local", file)
                           /\ LooksUsable(file) /\ auth.identities_only /\ auth.agent # NULL =>
                                  Tried("Agent", file)
                /\ auth.agent = NULL => \A p \in Present(system.sock) : \A file \in File : ~Means(p, file)

\* What a call that failed for want of a user leaves to the next one: it has
\* taken the HostName already, and there was no User to take (config.rs:774-785).
Unnamed(c) == [c EXCEPT !.host_name = NULL]

\* The parts may be read one by one or by Host::parse_openssh, for any targets, in
\* any order and with failures between.  The first reading of each part finds what
\* the configuration says, so none takes what another one needs (the side effects
\* the docs of the four functions list, config.rs:190-193, 248-253, 322 and
\* 355-356), with one exception: the calls for a destination that follow a failed
\* one miss the HostName, and nothing else, so that one whose target names a user
\* succeeds with the host as it was typed.
PartsMakeHost ==
    \A i \in DOMAIN results :
        LET earlier == 1..(i - 1)
            read == results[i]
            First == \A j \in earlier : results[j].asked = NULL
            OnlyFailed == ~First /\ \A j \in earlier : results[j].dest = NULL
        IN  /\ read.asked # NULL /\ First => read.dest = parse_dest(params, read.asked)
            /\ read.asked # NULL /\ OnlyFailed => read.dest = parse_dest(Unnamed(params), read.asked)
            /\ read.auth # NULL /\ (\A j \in earlier : results[j].auth = NULL) =>
                   read.auth = parse_auth(params)
            /\ read.tty # NULL => read.tty = parse_tty(params)
=============================================================================
