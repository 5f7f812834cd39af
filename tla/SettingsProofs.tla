--------------------------- MODULE SettingsProofs ---------------------------
(***************************************************************************)
(* The properties of Settings for any parameters, surroundings and targets *)
(* and any number of readings in any order; and, from PlanInv on, those of *)
(* AuthPlan for any settings: lists of identities of any length, files of  *)
(* any content, any certificate and agent.                                 *)
(***************************************************************************)
EXTENDS Settings, AuthPlan, AuthMethodsProofs

-----------------------------------------------------------------------------
(***************************************************************************)
(* The inductive invariant.  A reading takes values out of conf, so what   *)
(* is left is what the configuration said with some values missing, and    *)
(* as long as the credentials have not been returned, all of them are      *)
(* there.  Of the destination the HostName goes with the first call that   *)
(* asks for it, the User only with one that gets it: a call fails only     *)
(* where there is no User to take.                                         *)
(***************************************************************************)
\* What the configuration said, with values missing.
Remains(c) ==
    /\ c \in HostParams
    /\ c.identity_file \in {params.identity_file, NULL}
    /\ c.certificate_file \in {params.certificate_file, NULL}
    /\ c.identityagent \in {params.identityagent, NULL}
    /\ c.user \in {params.user, NULL}
    /\ c.port = params.port
    /\ c.identitiesonly = params.identitiesonly
    /\ c.requesttty = params.requesttty

SameAuth(c) ==
    /\ c.identity_file = params.identity_file
    /\ c.certificate_file = params.certificate_file
    /\ c.identityagent = params.identityagent

InputsInv == params \in HostParams /\ system \in System

ConfInv ==
    /\ Remains(conf)
    /\ (\A j \in 1..Len(results) : results[j].auth = NULL) => SameAuth(conf)
    /\ conf.host_name = IF \A j \in 1..Len(results) : results[j].asked = NULL
                        THEN params.host_name ELSE NULL
    /\ (\A j \in 1..Len(results) : results[j].dest = NULL) => conf.user = params.user

\* Reading i returned what the configuration says if it was the first of its kind,
\* and without the HostName if there were only failed ones before.
ReadInv(i) ==
    /\ results[i].auth # NULL => \E c : Remains(c) /\ results[i].auth = parse_auth(c)
    /\ results[i].auth # NULL /\ (\A j \in 1..(i - 1) : results[j].auth = NULL) =>
           results[i].auth = parse_auth(params)
    /\ results[i].dest # NULL => results[i].asked # NULL
    /\ results[i].asked # NULL /\ (\A j \in 1..(i - 1) : results[j].asked = NULL) =>
           results[i].dest = parse_dest(params, results[i].asked)
    /\ results[i].asked # NULL /\ ~ (\A j \in 1..(i - 1) : results[j].asked = NULL)
           /\ (\A j \in 1..(i - 1) : results[j].dest = NULL) =>
           results[i].dest = parse_dest(Unnamed(params), results[i].asked)
    /\ results[i].tty # NULL => results[i].tty = parse_tty(params)

Inv ==
    /\ InputsInv
    /\ results \in Seq([asked : Maybe(Target), dest : Maybe(Dest), auth : Maybe(Auth),
                        tty : {NULL, "Never", "IfTty", "Always", "ForShell"}])
    /\ ConfInv
    /\ \A i \in 1..Len(results) : ReadInv(i)

-----------------------------------------------------------------------------
(***************************************************************************)
(* What the readings return.                                               *)
(***************************************************************************)
\* A path that means something means one path, which a method can name.
LEMMA ExpandedPath ==
    ASSUME InputsInv, NEW path \in Path
    PROVE  /\ expand_tilde(path) \in (File \cap Sock) \cup {NULL}
           /\ expand_tilde(path) # NULL => Means(path, expand_tilde(path))
           /\ \A file \in File : Means(path, file) => expand_tilde(path) = file
<1>1. path.rest \in Rest /\ path.first \in {"tilde", "plain", "empty"}
  BY DEF Path
<1>2. path.first = "plain" => path = [first |-> "plain", user |-> NULL, rest |-> path.rest]
  BY DEF Path
<1>3. CASE path.first = "plain"
  <2>1. expand_tilde(path) = path
    BY <1>3 DEF expand_tilde
  <2>2. path \in File \cap Sock
    BY <1>1, <1>2, <1>3, FileAssumption
  <2>3. QED
    BY <1>3, <2>1, <2>2 DEF Means
<1>4. CASE path.first = "tilde"
  <2>1. InHome(path.rest) \in File \cap Sock
    BY <1>1, FileAssumption
  <2>2. expand_tilde(path) = IF path.user \in {NULL, system.whoami} /\ system.home
                             THEN InHome(path.rest) ELSE NULL
    BY <1>4 DEF expand_tilde
  <2>3. QED
    BY <1>4, <2>1, <2>2 DEF Means
<1>5. CASE path.first = "empty"
  BY <1>5 DEF expand_tilde, Means
<1>6. QED
  BY <1>1, <1>3, <1>4, <1>5

LEMMA FirstOfIs ==
    ASSUME NEW S, NEW values \in Maybe(Seq(S)), FirstOf(values) # NULL
    PROVE  FirstOf(values) \in S /\ FirstOf(values) \in Written(values)
<1>1. values # NULL /\ values \in Seq(S) /\ values # <<>>
  BY DEF FirstOf, Or, Maybe
<1>2. FirstOf(values) = values[1] /\ Or(values, <<>>) = values
  BY <1>1 DEF FirstOf, Or
<1>3. 1 \in DOMAIN values /\ values[1] \in S
  BY <1>1
<1>4. QED
  BY <1>2, <1>3 DEF Written

\* The identities of the settings: the paths that mean something, and all of them.
LEMMA IdentitiesRead ==
    ASSUME InputsInv, NEW c \in HostParams
    PROVE  /\ identities(c) \in Maybe(Seq(File))
           /\ c.identity_file # NULL =>
                  /\ identities(c) \in Seq(File)
                  /\ \A i \in DOMAIN identities(c) :
                         \E p \in Written(c.identity_file) : Means(p, identities(c)[i])
                  /\ \A p \in Written(c.identity_file) : \A file \in File :
                         Means(p, file) => \E i \in DOMAIN identities(c) : identities(c)[i] = file
<1> DEFINE paths == c.identity_file
           K == {path \in Path : expand_tilde(path) # NULL}
           kept == Filter(paths, K)
           q == identities(c)
<1>1. CASE paths = NULL
  BY <1>1 DEF identities, Maybe
<1>2. CASE paths # NULL
  <2>1. paths \in Seq(Path)
    BY <1>2 DEF HostParams, Maybe
  <2>2. q = [i \in DOMAIN kept |-> expand_tilde(kept[i])]
    BY <1>2 DEF identities, NotIgnored, Or
  <2>3. kept \in Seq(Path) /\ \E pos : PlacesOf(pos, kept, paths, K, Len(paths))
    BY <2>1, FilterPlaces
  <2>4. PICK pos : PlacesOf(pos, kept, paths, K, Len(paths))
    BY <2>3
  <2>5. Written(c.identity_file) = {paths[i] : i \in 1..Len(paths)}
    BY <1>2, <2>1 DEF Written, Or
  <2>6. \A path : path \in K <=> path \in Path /\ expand_tilde(path) # NULL
    OBVIOUS
  <2> HIDE DEF paths, K, kept, q
  <2>7. DOMAIN kept = 1..Len(kept) /\ Len(kept) \in Nat
    BY <2>3
  <2>8. \A i \in 1..Len(kept) :
            /\ pos[i] \in 1..Len(paths) /\ kept[i] = paths[pos[i]]
            /\ kept[i] \in Path /\ expand_tilde(kept[i]) # NULL
    BY <2>4, <2>6 DEF PlacesOf
  <2>9. \A i \in 1..Len(kept) :
            q[i] = expand_tilde(kept[i]) /\ q[i] \in File /\ Means(kept[i], q[i])
    BY <2>2, <2>7, <2>8, ExpandedPath
  <2>10. q \in Seq(File) /\ DOMAIN q = 1..Len(kept)
    BY <2>2, <2>7, <2>9
  <2>11. \A i \in DOMAIN q : \E p \in Written(c.identity_file) : Means(p, q[i])
    <3> SUFFICES ASSUME NEW i \in 1..Len(kept)
                 PROVE  \E p \in Written(c.identity_file) : Means(p, q[i])
      BY <2>10
    <3>1. kept[i] \in Written(c.identity_file)
      BY <2>5, <2>8
    <3>2. QED
      BY <2>9, <3>1
  <2>12. \A p \in Written(c.identity_file) : \A file \in File :
             Means(p, file) => \E i \in DOMAIN q : q[i] = file
    <3> SUFFICES ASSUME NEW k \in 1..Len(paths), NEW file \in File, Means(paths[k], file)
                 PROVE  \E i \in DOMAIN q : q[i] = file
      BY <2>5
    <3>1. paths[k] \in Path
      BY <2>1
    <3>2. expand_tilde(paths[k]) = file
      BY <3>1, ExpandedPath
    <3>3. paths[k] \in K
      BY <2>6, <3>1, <3>2, NullAssumption
    <3>4. PICK i \in 1..Len(kept) : pos[i] = k
      BY <2>4, <3>3 DEF PlacesOf
    <3>5. q[i] = file
      BY <2>8, <2>9, <3>2, <3>4
    <3>6. QED
      BY <2>10, <3>4, <3>5
  <2>13. QED
    BY <2>10, <2>11, <2>12 DEF q, Maybe
<1>3. QED
  BY <1>1, <1>2

LEMMA ExpandedIs ==
    ASSUME InputsInv, NEW path \in Maybe(Path)
    PROVE  /\ Expanded(path) \in (File \cap Sock) \cup {NULL}
           /\ Expanded(path) # NULL => path # NULL /\ path \in Path /\ Means(path, Expanded(path))
           /\ path # NULL => \A file \in File : Means(path, file) => Expanded(path) = file
BY ExpandedPath DEF Expanded, Maybe

\* The sockets one configuration or the surroundings name.
AgentPathsOf(c) ==
    LET values == Written(c.identityagent)
    IN  UNION {{v.path : v \in {w \in values : w.is = "path"}},
               {system.env[v.var] : v \in {w \in values : w.is = "var"}} \ {NULL},
               Present(system.sock)}

\* The agent of the settings: a socket somebody named, and SSH_AUTH_SOCK when
\* nothing else is.
LEMMA AgentRead ==
    ASSUME InputsInv, NEW c \in HostParams
    PROVE  /\ agent(c) \in Maybe(Sock)
           /\ agent(c) # NULL => \E p \in AgentPathsOf(c) : Means(p, agent(c))
           /\ agent(c) = NULL => Expanded(system.sock) = NULL
<1> DEFINE value == FirstOf(c.identityagent)
           parsed == IF value = NULL THEN NULL ELSE parse_agent(value)
           sock == Expanded(system.sock)
<1>1. agent(c) = Or(parsed, sock)
  BY DEF agent
<1>2. system.sock \in Maybe(Path) /\ system.env \in [Var -> Maybe(Path)]
  BY DEF InputsInv, System
<1>3. sock \in Maybe(Sock) /\ (sock # NULL => system.sock # NULL /\ Means(system.sock, sock))
  BY <1>2, ExpandedIs DEF Maybe
<1>4. sock # NULL => \E p \in AgentPathsOf(c) : Means(p, sock)
  <2>1. system.sock # NULL => system.sock \in AgentPathsOf(c)
    BY DEF AgentPathsOf, Present
  <2> HIDE DEF sock
  <2>2. QED
    BY <1>3, <2>1
<1>5. parsed \in Maybe(Sock) /\ (parsed # NULL => \E p \in AgentPathsOf(c) : Means(p, parsed))
  <2>1. CASE value = NULL
    BY <2>1 DEF Maybe
  <2>2. CASE value # NULL
    <3>1. c.identityagent \in Maybe(Seq(Value))
      BY DEF HostParams
    <3>2. value \in Value /\ value \in Written(c.identityagent)
      BY <2>2, <3>1, FirstOfIs
    <3>3. parsed = parse_agent(value)
      BY <2>2
    <3> HIDE DEF value, parsed, sock
    <3>4. CASE value.is = "none"
      BY <3>3, <3>4 DEF parse_agent, Maybe
    <3>5. CASE value.is = "SSH_AUTH_SOCK"
      <4>1. parsed = sock
        BY <3>3, <3>5 DEF parse_agent, sock
      <4>2. QED
        BY <1>3, <1>4, <4>1
    <3>6. CASE value.is = "var"
      <4>1. value.var \in Var
        BY <3>2, <3>6 DEF Value
      <4>2. system.env[value.var] \in Maybe(Path) /\ parsed = Expanded(system.env[value.var])
        BY <1>2, <3>3, <3>6, <4>1 DEF parse_agent
      <4>3. system.env[value.var] # NULL => system.env[value.var] \in AgentPathsOf(c)
        BY <3>2, <3>6 DEF AgentPathsOf
      <4>4. QED
        BY <4>2, <4>3, ExpandedIs DEF Maybe
    <3>7. CASE value.is = "path"
      <4>1. value.path \in Path
        BY <3>2, <3>7 DEF Value
      <4>2. parsed = expand_tilde(value.path)
        BY <3>3, <3>7 DEF parse_agent
      <4>3. value.path \in AgentPathsOf(c)
        BY <3>2, <3>7 DEF AgentPathsOf
      <4>4. QED
        BY <4>1, <4>2, <4>3, ExpandedPath DEF Maybe
    <3>8. QED
      BY <3>2, <3>4, <3>5, <3>6, <3>7 DEF Value
  <2>3. QED
    BY <2>1, <2>2
<1> HIDE DEF parsed, sock
<1>6. agent(c) \in {parsed, sock} /\ (agent(c) = NULL => sock = NULL)
  BY <1>1 DEF Or
<1>7. QED
  BY <1>3, <1>4, <1>5, <1>6 DEF sock

\* Reading the authentication settings gives settings from_config can take.
LEMMA AuthRead ==
    ASSUME InputsInv, NEW c \in HostParams
    PROVE  parse_auth(c) \in Auth
<1>1. c.certificate_file \in Maybe(Path)
  BY DEF HostParams
<1>2. Expanded(c.certificate_file) \in Maybe(File)
  BY <1>1, ExpandedIs DEF Maybe
<1>3. identities(c) \in Maybe(Seq(File)) /\ agent(c) \in Maybe(Sock)
  BY IdentitiesRead, AgentRead
<1>4. (FirstOf(c.identitiesonly) = "yes") \in BOOLEAN
  OBVIOUS
<1>5. QED
  BY <1>2, <1>3, <1>4 DEF parse_auth, Auth

\* Reading the destination gives one unless the user is nowhere.
LEMMA DestRead ==
    ASSUME InputsInv, NEW c \in HostParams, NEW t \in Target
    PROVE  /\ parse_dest(c, t) \in Maybe(Dest)
           /\ parse_dest(c, t) = NULL <=>
                  c.user = NULL /\ t.user = NULL /\ system.whoami = NULL
<1> DEFINE user == Or(c.user, Or(t.user, system.whoami))
           dest == [name |-> Or(c.host_name, t.host),
                    port |-> Or(c.port, Or(t.port, 22)), user |-> user]
<1>1. /\ c.user \in Maybe(User) /\ c.host_name \in Maybe(Name) /\ c.port \in Maybe(Nat)
      /\ t.user \in Maybe(User) /\ t.host \in Name /\ t.port \in Maybe(Nat)
      /\ system.whoami \in Maybe(User)
  BY DEF InputsInv, HostParams, Target, System
<1>2. parse_dest(c, t) = IF user = NULL THEN NULL ELSE dest
  BY DEF parse_dest
<1>3. user = NULL <=> c.user = NULL /\ t.user = NULL /\ system.whoami = NULL
  BY DEF Or
<1>4. user # NULL => dest \in Dest
  BY <1>1 DEF Or, Maybe, Dest
<1>5. dest \in Dest => dest # NULL
  BY NullIsNoResult
<1> HIDE DEF user, dest
<1>6. QED
  BY <1>2, <1>3, <1>4, <1>5 DEF Maybe

LEMMA TtyRead ==
    ASSUME NEW c
    PROVE  parse_tty(c) \in {"Never", "IfTty", "Always", "ForShell"}
BY DEF parse_tty

\* What a value means does not change.
LEMMA SystemStable ==
    ASSUME UNCHANGED inputs, NEW c, NEW t
    PROVE  parse_auth(c)' = parse_auth(c) /\ parse_dest(c, t)' = parse_dest(c, t)
<1>1. system' = system
  BY DEF inputs
<1>2. parse_dest(c, t)' = parse_dest(c, t)
  BY <1>1 DEF parse_dest
<1>3. \A path : expand_tilde(path)' = expand_tilde(path)
  BY <1>1 DEF expand_tilde
<1>4. \A path : Expanded(path)' = Expanded(path)
  BY <1>3 DEF Expanded
<1>5. identities(c)' = identities(c)
  BY <1>3 DEF identities, NotIgnored
<1>6. \A value : parse_agent(value)' = parse_agent(value)
  BY <1>1 DEF parse_agent, Expanded, expand_tilde
<1>7. agent(c)' = agent(c)
  BY <1>1, <1>6 DEF agent, Expanded, expand_tilde
<1>8. parse_auth(c)' = parse_auth(c)
  BY <1>4, <1>5, <1>7 DEF parse_auth
<1>9. QED
  BY <1>2, <1>8

-----------------------------------------------------------------------------
(***************************************************************************)
(* Every reading keeps the invariant.                                      *)
(***************************************************************************)
Tty == {NULL, "Never", "IfTty", "Always", "ForShell"}

Reads == [asked : Maybe(Target), dest : Maybe(Dest), auth : Maybe(Auth), tty : Tty]

\* A reading that returns what is in conf, and takes nothing whose value it has
\* not returned but the HostName.
ReadingTakes(read) ==
    /\ read.auth = NULL /\ SameAuth(conf) => SameAuth(conf')
    /\ conf'.host_name = IF read.asked = NULL THEN conf.host_name ELSE NULL
    /\ read.dest = NULL /\ conf.user = params.user => conf'.user = params.user

LEMMA ReadingInv ==
    ASSUME Inv, UNCHANGED inputs, NEW read \in Reads, results' = Append(results, read),
           read.auth \in {NULL, parse_auth(conf)},
           read.dest = IF read.asked = NULL THEN NULL ELSE parse_dest(conf, read.asked),
           read.tty \in {NULL, parse_tty(conf)},
           Remains(conf'), ReadingTakes(read)
    PROVE  Inv'
<1>1. /\ results \in Seq(Reads) /\ Len(results) \in Nat
      /\ InputsInv /\ Remains(conf) /\ conf \in HostParams
  BY DEF Inv, ConfInv, Remains, Reads, Tty
<1>n. PICK n \in Nat : n = Len(results) + 1
  BY <1>1
<1>2. /\ results' \in Seq(Reads) /\ Len(results') = n /\ results'[n] = read
      /\ \A i \in 1..Len(results) : results'[i] = results[i]
  BY <1>1, <1>n
<1>3. params' = params /\ system' = system
  BY DEF inputs
<1>4. /\ \A c : parse_auth(c)' = parse_auth(c)
      /\ \A c, t : parse_dest(c, t)' = parse_dest(c, t)
  BY SystemStable
<1>5. InputsInv'
  BY <1>1, <1>3 DEF InputsInv
<1>6. n \in 1..n /\ 1..(n - 1) = 1..Len(results) /\ 1..Len(results') = 1..n
  BY <1>1, <1>n, <1>2
<1>7. ConfInv'
  <2>1. Remains(conf)'
    BY <1>3 DEF Remains
  <2>2. (\A j \in 1..Len(results') : results'[j].auth = NULL) => SameAuth(conf)'
    <3> SUFFICES ASSUME \A j \in 1..Len(results') : results'[j].auth = NULL PROVE SameAuth(conf)'
      OBVIOUS
    <3>1. read.auth = NULL
      BY <1>2, <1>6
    <3>2. \A j \in 1..Len(results) : results[j].auth = NULL
      BY <1>1, <1>2
    <3>3. SameAuth(conf)
      BY <3>2 DEF Inv, ConfInv
    <3>4. QED
      BY <1>3, <3>1, <3>3 DEF SameAuth, ReadingTakes
  <2>3. conf'.host_name = IF \A j \in 1..Len(results') : results'[j].asked = NULL
                          THEN params.host_name ELSE NULL
    <3>1. (\A j \in 1..Len(results') : results'[j].asked = NULL) <=>
              read.asked = NULL /\ \A j \in 1..Len(results) : results[j].asked = NULL
      <4>1. ASSUME \A j \in 1..Len(results') : results'[j].asked = NULL
            PROVE  read.asked = NULL /\ \A j \in 1..Len(results) : results[j].asked = NULL
        BY <1>1, <1>2, <1>6, <4>1
      <4>2. ASSUME read.asked = NULL, \A j \in 1..Len(results) : results[j].asked = NULL,
                   NEW j \in 1..Len(results')
            PROVE  results'[j].asked = NULL
        <5>1. j \in 1..Len(results) \/ j = n
          BY <1>1, <1>n, <1>2
        <5>2. QED
          BY <1>2, <4>2, <5>1
      <4>3. QED
        BY <4>1, <4>2
    <3>2. conf.host_name = IF \A j \in 1..Len(results) : results[j].asked = NULL
                           THEN params.host_name ELSE NULL
      BY DEF Inv, ConfInv
    <3>3. QED
      BY <3>1, <3>2 DEF ReadingTakes
  <2>4. (\A j \in 1..Len(results') : results'[j].dest = NULL) => conf'.user = params.user
    <3> SUFFICES ASSUME \A j \in 1..Len(results') : results'[j].dest = NULL
                 PROVE  conf'.user = params.user
      OBVIOUS
    <3>1. read.dest = NULL
      BY <1>2, <1>6
    <3>2. \A j \in 1..Len(results) : results[j].dest = NULL
      BY <1>1, <1>2
    <3>3. conf.user = params.user
      BY <3>2 DEF Inv, ConfInv
    <3>4. QED
      BY <3>1, <3>3 DEF ReadingTakes
  <2>5. QED
    BY <1>3, <2>1, <2>2, <2>3, <2>4 DEF ConfInv
<1>8. ASSUME NEW i \in 1..Len(results) PROVE ReadInv(i)'
  <2>1. ReadInv(i)
    BY DEF Inv
  <2>2. results'[i] = results[i] /\ \A j \in 1..(i - 1) : results'[j] = results[j]
    BY <1>1, <1>2
  <2>3. \A c : Remains(c)' <=> Remains(c)
    BY <1>3 DEF Remains
  <2>4. parse_auth(params)' = parse_auth(params)
    BY <1>3, <1>4
  <2>5. /\ parse_dest(params, results[i].asked)' = parse_dest(params, results[i].asked)
        /\ parse_dest(Unnamed(params), results[i].asked)' = parse_dest(Unnamed(params), results[i].asked)
    BY <1>3, <1>4, <2>2 DEF Unnamed
  <2>6. parse_tty(params)' = parse_tty(params)
    BY <1>3
  <2>7. QED
    BY <1>4, <2>1, <2>2, <2>3, <2>4, <2>5, <2>6 DEF ReadInv
<1>9. ReadInv(n)'
  <2>1. read.auth # NULL => \E c : Remains(c)' /\ read.auth = parse_auth(c)'
    <3>1. \A c : Remains(c) => Remains(c)'
      BY <1>3 DEF Remains
    <3>2. QED
      BY <1>1, <1>4, <3>1
  <2>2. read.auth # NULL /\ (\A j \in 1..Len(results) : results[j].auth = NULL) =>
            read.auth = parse_auth(params)
    <3> SUFFICES ASSUME read.auth # NULL, \A j \in 1..Len(results) : results[j].auth = NULL
                 PROVE  read.auth = parse_auth(params)
      OBVIOUS
    <3>1. SameAuth(conf) /\ conf.identitiesonly = params.identitiesonly
      BY <1>1 DEF Inv, ConfInv, Remains
    <3>2. parse_auth(conf) = parse_auth(params)
      BY <3>1 DEF SameAuth, parse_auth, identities, agent
    <3>3. QED
      BY <3>2
  <2>3. ASSUME read.asked # NULL, \A j \in 1..Len(results) : results[j].dest = NULL
        PROVE  read.dest = parse_dest(IF \A j \in 1..Len(results) : results[j].asked = NULL
                                      THEN params ELSE Unnamed(params), read.asked)
    <3> DEFINE left == IF \A j \in 1..Len(results) : results[j].asked = NULL
                       THEN params ELSE Unnamed(params)
    <3>1. read.dest = parse_dest(conf, read.asked)
      BY <2>3
    <3>2. conf.user = params.user /\ conf.port = params.port
      BY <1>1, <2>3 DEF Inv, ConfInv, Remains
    <3>3. conf.host_name = IF \A j \in 1..Len(results) : results[j].asked = NULL
                           THEN params.host_name ELSE NULL
      BY DEF Inv, ConfInv
    <3>4. /\ Unnamed(params).host_name = NULL /\ Unnamed(params).user = params.user
          /\ Unnamed(params).port = params.port
      BY <1>1 DEF Unnamed, InputsInv, HostParams
    <3>5. left.host_name = conf.host_name /\ left.user = conf.user /\ left.port = conf.port
      BY <3>2, <3>3, <3>4
    <3> HIDE DEF left
    <3>6. parse_dest(conf, read.asked) = parse_dest(left, read.asked)
      BY <3>5 DEF parse_dest
    <3>7. QED
      BY <3>1, <3>6 DEF left
  <2>4. read.tty # NULL => read.tty = parse_tty(params)
    BY <1>1 DEF Remains, parse_tty
  <2>5. parse_auth(params)' = parse_auth(params)
    BY <1>3, <1>4
  <2>6. /\ parse_dest(params, read.asked)' = parse_dest(params, read.asked)
        /\ parse_dest(Unnamed(params), read.asked)' = parse_dest(Unnamed(params), read.asked)
    BY <1>3, <1>4 DEF Unnamed
  <2>7. parse_tty(params)' = parse_tty(params)
    BY <1>3
  <2>8. \A j \in 1..Len(results) : j \in 1..(n - 1) /\ results'[j] = results[j]
    BY <1>2, <1>6
  <2>9. \A j \in 1..(n - 1) : j \in 1..Len(results) /\ results'[j] = results[j]
    BY <1>2, <1>6
  <2>10. results'[n] = read
    BY <1>2
  <2>11. read.dest # NULL => read.asked # NULL
    OBVIOUS
  <2>12. read.asked # NULL /\ (\A j \in 1..(n - 1) : results'[j].asked = NULL) =>
             read.dest = parse_dest(params, read.asked)
    <3> SUFFICES ASSUME read.asked # NULL, \A j \in 1..(n - 1) : results'[j].asked = NULL
                 PROVE  read.dest = parse_dest(params, read.asked)
      OBVIOUS
    <3>1. \A j \in 1..Len(results) : results[j].asked = NULL
      BY <2>8
    <3>2. \A j \in 1..Len(results) : results[j].dest = NULL
      BY <3>1 DEF Inv, ReadInv
    <3>3. QED
      BY <2>3, <3>1, <3>2
  <2>13. read.asked # NULL /\ ~ (\A j \in 1..(n - 1) : results'[j].asked = NULL)
             /\ (\A j \in 1..(n - 1) : results'[j].dest = NULL) =>
             read.dest = parse_dest(Unnamed(params), read.asked)
    <3> SUFFICES ASSUME read.asked # NULL, ~ \A j \in 1..(n - 1) : results'[j].asked = NULL,
                        \A j \in 1..(n - 1) : results'[j].dest = NULL
                 PROVE  read.dest = parse_dest(Unnamed(params), read.asked)
      OBVIOUS
    <3>1. ~ \A j \in 1..Len(results) : results[j].asked = NULL
      BY <2>9
    <3>2. \A j \in 1..Len(results) : results[j].dest = NULL
      BY <2>8
    <3>3. QED
      BY <2>3, <3>1, <3>2
  <2>14. (\A j \in 1..(n - 1) : results'[j].auth = NULL) => \A j \in 1..Len(results) : results[j].auth = NULL
    BY <2>8
  <2>15. QED
    BY <2>1, <2>2, <2>4, <2>5, <2>6, <2>7, <2>10, <2>11, <2>12, <2>13, <2>14 DEF ReadInv
<1>10. \A i \in 1..Len(results') : ReadInv(i)'
  <2> SUFFICES ASSUME NEW i \in 1..Len(results') PROVE ReadInv(i)'
    OBVIOUS
  <2>1. i \in 1..Len(results) \/ i = n
    BY <1>1, <1>n, <1>2
  <2>2. QED
    BY <1>8, <1>9, <2>1
<1>11. QED
  BY <1>2, <1>5, <1>7, <1>10 DEF Inv, Reads, Tty

LEMMA TakenIs ==
    ASSUME NEW c, Remains(c)
    PROVE  /\ Remains(DestTaken(c)) /\ Remains(AuthTaken(c))
           /\ SameAuth(c) => SameAuth(DestTaken(c))
           /\ DestTaken(c).host_name = NULL /\ DestTaken(c).user = NULL
           /\ AuthTaken(c).host_name = c.host_name /\ AuthTaken(c).user = c.user
<1>1. c \in HostParams
  BY DEF Remains
<1>2. /\ DestTaken(c) \in HostParams
      /\ DestTaken(c).identity_file = c.identity_file
      /\ DestTaken(c).certificate_file = c.certificate_file
      /\ DestTaken(c).identityagent = c.identityagent
      /\ DestTaken(c).user = NULL /\ DestTaken(c).port = c.port
      /\ DestTaken(c).host_name = NULL
      /\ DestTaken(c).identitiesonly = c.identitiesonly /\ DestTaken(c).requesttty = c.requesttty
  BY <1>1 DEF DestTaken, HostParams, Maybe
<1>3. /\ AuthTaken(c) \in HostParams
      /\ AuthTaken(c).identity_file = NULL
      /\ AuthTaken(c).certificate_file = NULL
      /\ AuthTaken(c).identityagent = NULL
      /\ AuthTaken(c).user = c.user /\ AuthTaken(c).port = c.port
      /\ AuthTaken(c).host_name = c.host_name
      /\ AuthTaken(c).identitiesonly = c.identitiesonly /\ AuthTaken(c).requesttty = c.requesttty
  BY <1>1 DEF AuthTaken, HostParams, Maybe
<1>4. Remains(DestTaken(c))
  BY <1>2 DEF Remains
<1>5. Remains(AuthTaken(c))
  BY <1>3 DEF Remains
<1>6. QED
  BY <1>2, <1>3, <1>4, <1>5 DEF SameAuth

LEMMA ResultIs ==
    ASSUME NEW target \in Maybe(Target), NEW d \in Maybe(Dest), NEW a \in Maybe(Auth), NEW t \in Tty
    PROVE  /\ Result(target, d, a, t) \in Reads
           /\ Result(target, d, a, t).asked = target /\ Result(target, d, a, t).dest = d
           /\ Result(target, d, a, t).auth = a /\ Result(target, d, a, t).tty = t
BY DEF Result, Reads

\* A destination that is not returned has no User to lose.
LEMMA DestTakes ==
    ASSUME InputsInv, Remains(conf), NEW read \in Reads, read.asked \in Target,
           read.dest = parse_dest(conf, read.asked), read.auth = NULL, conf' = DestTaken(conf)
    PROVE  Remains(conf') /\ ReadingTakes(read)
<1>1. Remains(conf') /\ (SameAuth(conf) => SameAuth(conf')) /\ conf'.host_name = NULL /\ conf'.user = NULL
  BY TakenIs
<1>2. read.asked # NULL
  BY NullIsNoTarget
<1>3. read.dest = NULL => conf.user = NULL
  BY DestRead DEF Remains
<1>4. QED
  BY <1>1, <1>2, <1>3 DEF ReadingTakes

LEMMA DestStep ==
    ASSUME Inv, NEW target \in Targets, Dest_parse_openssh(target)
    PROVE  Inv'
<1> DEFINE read == Result(target, parse_dest(conf, target), NULL, NULL)
<1>1. InputsInv /\ Remains(conf) /\ conf \in HostParams /\ target \in Target /\ target # NULL
  BY TargetsAssumption, NullIsNoTarget DEF Inv, ConfInv, Remains
<1>2. parse_dest(conf, target) \in Maybe(Dest)
  BY <1>1, DestRead
<1>3. /\ read \in Reads /\ read.asked = target /\ read.dest = parse_dest(conf, target)
      /\ read.auth = NULL /\ read.tty = NULL
  BY <1>1, <1>2, ResultIs DEF Maybe, Tty
<1>4. UNCHANGED inputs /\ results' = Append(results, read) /\ conf' = DestTaken(conf)
  BY DEF Dest_parse_openssh, Call
<1> HIDE DEF read
<1>5. Remains(conf') /\ ReadingTakes(read)
  BY <1>1, <1>3, <1>4, DestTakes
<1>6. QED
  BY <1>1, <1>3, <1>4, <1>5, ReadingInv

LEMMA HostFails ==
    ASSUME Inv, NEW target \in Targets, Host_parse_openssh(target), parse_dest(conf, target) = NULL
    PROVE  Inv'
<1> DEFINE read == Result(target, NULL, NULL, NULL)
<1>1. InputsInv /\ Remains(conf) /\ target \in Target /\ target # NULL
  BY TargetsAssumption, NullIsNoTarget DEF Inv, ConfInv
<1>2. /\ read \in Reads /\ read.asked = target /\ read.dest = parse_dest(conf, target)
      /\ read.auth = NULL /\ read.tty = NULL
  BY <1>1, ResultIs DEF Maybe, Tty
<1>3. UNCHANGED inputs /\ results' = Append(results, read) /\ conf' = DestTaken(conf)
  BY DEF Host_parse_openssh, Call
<1> HIDE DEF read
<1>4. Remains(conf') /\ ReadingTakes(read)
  BY <1>1, <1>2, <1>3, DestTakes
<1>5. QED
  BY <1>1, <1>2, <1>3, <1>4, ReadingInv

LEMMA HostSucceeds ==
    ASSUME Inv, NEW target \in Targets, Host_parse_openssh(target), parse_dest(conf, target) # NULL
    PROVE  Inv'
<1> DEFINE read == Result(target, parse_dest(conf, target), parse_auth(conf), parse_tty(conf))
<1>1. InputsInv /\ Remains(conf) /\ conf \in HostParams /\ target \in Target /\ target # NULL
  BY TargetsAssumption, NullIsNoTarget DEF Inv, ConfInv, Remains
<1>2. /\ parse_dest(conf, target) \in Maybe(Dest) /\ parse_auth(conf) \in Auth
      /\ parse_auth(conf) # NULL /\ parse_tty(conf) \in Tty
  BY <1>1, DestRead, AuthRead, TtyRead, NullIsNoResult DEF Tty
<1>3. /\ read \in Reads /\ read.asked = target /\ read.dest = parse_dest(conf, target)
      /\ read.auth = parse_auth(conf) /\ read.tty = parse_tty(conf)
  BY <1>1, <1>2, ResultIs DEF Maybe
<1>4. UNCHANGED inputs /\ results' = Append(results, read) /\ conf' = AuthTaken(DestTaken(conf))
  BY DEF Host_parse_openssh, Call
<1> HIDE DEF read
<1>5. Remains(DestTaken(conf)) /\ DestTaken(conf).host_name = NULL
  BY <1>1, TakenIs
<1>6. Remains(conf') /\ conf'.host_name = NULL
  BY <1>4, <1>5, TakenIs
<1>7. ReadingTakes(read)
  BY <1>1, <1>2, <1>3, <1>6 DEF ReadingTakes
<1>8. QED
  BY <1>1, <1>3, <1>4, <1>6, <1>7, ReadingInv

LEMMA AuthStep ==
    ASSUME Inv, Auth_parse_openssh
    PROVE  Inv'
<1> DEFINE read == Result(NULL, NULL, parse_auth(conf), NULL)
<1>1. InputsInv /\ Remains(conf) /\ conf \in HostParams
  BY DEF Inv, ConfInv, Remains
<1>2. parse_auth(conf) \in Auth /\ parse_auth(conf) # NULL
  BY <1>1, AuthRead, NullIsNoResult
<1>3. read \in Reads /\ read.asked = NULL /\ read.dest = NULL /\ read.auth = parse_auth(conf) /\ read.tty = NULL
  BY <1>2, ResultIs DEF Maybe, Tty
<1>4. UNCHANGED inputs /\ results' = Append(results, read) /\ conf' = AuthTaken(conf)
  BY DEF Auth_parse_openssh, Call
<1> HIDE DEF read
<1>5. Remains(conf') /\ conf'.host_name = conf.host_name /\ conf'.user = conf.user
  BY <1>1, <1>4, TakenIs
<1>6. ReadingTakes(read)
  BY <1>2, <1>3, <1>5 DEF ReadingTakes
<1>7. QED
  BY <1>3, <1>4, <1>5, <1>6, ReadingInv

LEMMA TtyStep ==
    ASSUME Inv, RequestTty_parse_openssh
    PROVE  Inv'
<1> DEFINE read == Result(NULL, NULL, NULL, parse_tty(conf))
<1>1. Remains(conf)
  BY DEF Inv, ConfInv
<1>2. parse_tty(conf) \in Tty
  BY TtyRead DEF Tty
<1>3. read \in Reads /\ read.asked = NULL /\ read.dest = NULL /\ read.auth = NULL /\ read.tty = parse_tty(conf)
  BY <1>2, ResultIs DEF Maybe
<1>4. UNCHANGED inputs /\ results' = Append(results, read) /\ conf' = conf
  BY DEF RequestTty_parse_openssh, Call
<1> HIDE DEF read
<1>5. ReadingTakes(read)
  BY <1>3, <1>4 DEF ReadingTakes
<1>6. QED
  BY <1>1, <1>3, <1>4, <1>5, ReadingInv

LEMMA NextInv == Inv /\ [Next]_vars => Inv'
<1> SUFFICES ASSUME Inv, [Next]_vars PROVE Inv'
  OBVIOUS
<1>1. ASSUME NEW target \in Targets, Dest_parse_openssh(target) PROVE Inv'
  BY <1>1, DestStep
<1>2. ASSUME NEW target \in Targets, Host_parse_openssh(target) PROVE Inv'
  BY <1>2, HostFails, HostSucceeds
<1>3. CASE Auth_parse_openssh
  BY <1>3, AuthStep
<1>4. CASE RequestTty_parse_openssh
  BY <1>4, TtyStep
<1>5. CASE UNCHANGED vars
  <2>1. UNCHANGED inputs /\ conf' = conf /\ results' = results /\ params' = params
    BY <1>5 DEF vars, inputs
  <2>2. InputsInv' /\ ConfInv'
    BY <2>1 DEF Inv, InputsInv, ConfInv, Remains, SameAuth, inputs
  <2>3. ASSUME NEW i \in 1..Len(results) PROVE ReadInv(i)'
    <3>1. /\ \A c : parse_auth(c)' = parse_auth(c)
          /\ \A c, t : parse_dest(c, t)' = parse_dest(c, t)
      BY <2>1, SystemStable
    <3>2. parse_auth(params)' = parse_auth(params) /\ parse_tty(params)' = parse_tty(params)
      BY <2>1, <3>1
    <3>3. /\ parse_dest(params, results[i].asked)' = parse_dest(params, results[i].asked)
          /\ parse_dest(Unnamed(params), results[i].asked)' = parse_dest(Unnamed(params), results[i].asked)
      BY <2>1, <3>1 DEF Unnamed
    <3>4. \A c : Remains(c)' <=> Remains(c)
      BY <2>1 DEF Remains
    <3>5. ReadInv(i)
      BY DEF Inv
    <3>6. QED
      BY <2>1, <3>1, <3>2, <3>3, <3>4, <3>5 DEF ReadInv
  <2>4. QED
    BY <2>1, <2>2, <2>3 DEF Inv
<1>6. QED
  BY <1>1, <1>2, <1>3, <1>4, <1>5 DEF Next

LEMMA Invariance == Spec => []Inv
<1>1. Init => Inv
  <2> SUFFICES ASSUME Init PROVE Inv
    OBVIOUS
  <2>1. InputsInv
    BY HostsAssumption, SystemsAssumption DEF Init, InputsInv
  <2>2. conf = params /\ results = <<>> /\ Len(results) = 0
    BY DEF Init
  <2>3. Remains(conf) /\ SameAuth(conf)
    BY <2>1, <2>2 DEF InputsInv, Remains, SameAuth
  <2>4. \A i \in 1..Len(results) : FALSE
    BY <2>2
  <2>5. QED
    BY <2>1, <2>2, <2>3, <2>4 DEF Inv, ConfInv
<1>2. Inv /\ [Next]_vars => Inv'
  BY NextInv
<1>3. QED
  BY <1>1, <1>2, PTL DEF Spec

-----------------------------------------------------------------------------
\* The first reading of each part finds what the configuration says, for any
\* targets; after failed calls for a destination it misses the HostName and
\* nothing else.
THEOREM PartsAreHost == Spec => []PartsMakeHost
<1>1. Inv => PartsMakeHost
  <2> SUFFICES ASSUME Inv, NEW i \in 1..Len(results)
               PROVE  /\ results[i].asked # NULL /\ (\A j \in 1..(i - 1) : results[j].asked = NULL) =>
                             results[i].dest = parse_dest(params, results[i].asked)
                      /\ results[i].asked # NULL /\ ~ (\A j \in 1..(i - 1) : results[j].asked = NULL)
                             /\ (\A j \in 1..(i - 1) : results[j].dest = NULL) =>
                             results[i].dest = parse_dest(Unnamed(params), results[i].asked)
                      /\ results[i].auth # NULL /\ (\A j \in 1..(i - 1) : results[j].auth = NULL) =>
                             results[i].auth = parse_auth(params)
                      /\ results[i].tty # NULL => results[i].tty = parse_tty(params)
    BY DEF PartsMakeHost, Inv
  <2>1. ReadInv(i)
    BY DEF Inv
  <2>2. QED
    BY <2>1 DEF ReadInv
<1>2. QED
  BY <1>1, Invariance, PTL

LEMMA AgentPathsRemain ==
    ASSUME NEW c, Remains(c)
    PROVE  AgentPathsOf(c) \subseteq AgentPaths
<1>1. c.identityagent \in {params.identityagent, NULL}
  BY DEF Remains
<1>2. CASE c.identityagent = params.identityagent
  BY <1>2 DEF AgentPathsOf, AgentPaths
<1>3. CASE c.identityagent = NULL
  <2>1. Written(c.identityagent) = {}
    BY <1>3 DEF Written, Or
  <2>2. AgentPathsOf(c) \subseteq Present(system.sock)
    BY <2>1 DEF AgentPathsOf
  <2>3. Present(system.sock) \subseteq AgentPaths
    BY DEF AgentPaths
  <2>4. QED
    BY <2>2, <2>3
<1>4. QED
  BY <1>1, <1>2, <1>3

\* The keys, the certificate and the agent of settings that were read.
LEMMA ReadIsConfigured ==
    ASSUME InputsInv, NEW c, Remains(c), NEW auth, auth = parse_auth(c)
    PROVE  /\ auth \in Auth
           /\ \A key \in KeysOf(auth) : \E p \in Written(params.identity_file) : Means(p, key)
           /\ auth.cert # NULL => \E p \in Present(params.certificate_file) : Means(p, auth.cert)
           /\ auth.agent # NULL => \E p \in AgentPaths : Means(p, auth.agent)
           /\ FirstOf(params.identitiesonly) = "yes" => auth.identities_only
<1>1. c \in HostParams /\ auth \in Auth
  BY AuthRead DEF Remains
<1>2. /\ auth.identities = identities(c) /\ auth.cert = Expanded(c.certificate_file)
      /\ auth.agent = agent(c) /\ auth.identities_only = (FirstOf(c.identitiesonly) = "yes")
  BY DEF parse_auth
<1>3. \A key \in KeysOf(auth) : \E p \in Written(params.identity_file) : Means(p, key)
  <2> SUFFICES ASSUME NEW k \in DOMAIN Identities(auth)
               PROVE  \E p \in Written(params.identity_file) : Means(p, Identities(auth)[k])
    BY DEF KeysOf
  <2>1. auth.identities # NULL
    BY DEF Identities
  <2>2. Identities(auth) = identities(c)
    BY <1>2, <2>1 DEF Identities
  <2>3. c.identity_file # NULL
    BY <1>2, <2>1 DEF identities
  <2>4. c.identity_file = params.identity_file
    BY <2>3 DEF Remains
  <2>5. \A i \in DOMAIN identities(c) :
            \E p \in Written(c.identity_file) : Means(p, identities(c)[i])
    BY <1>1, <2>3, IdentitiesRead
  <2>6. QED
    BY <2>2, <2>4, <2>5
<1>4. ASSUME auth.cert # NULL PROVE \E p \in Present(params.certificate_file) : Means(p, auth.cert)
  <2>1. c.certificate_file \in Maybe(Path)
    BY <1>1 DEF HostParams
  <2>2. c.certificate_file # NULL /\ Means(c.certificate_file, auth.cert)
    BY <1>2, <1>4, <2>1, ExpandedIs
  <2>3. c.certificate_file \in Present(params.certificate_file)
    BY <2>2 DEF Remains, Present
  <2>4. QED
    BY <2>2, <2>3
<1>5. auth.agent # NULL => \E p \in AgentPaths : Means(p, auth.agent)
  BY <1>1, <1>2, AgentRead, AgentPathsRemain
<1>6. FirstOf(params.identitiesonly) = "yes" => auth.identities_only
  BY <1>2 DEF Remains
<1>7. QED
  BY <1>1, <1>3, <1>4, <1>5, <1>6

\* Whatever has been read before, a plan uses only what is configured.
THEOREM NothingElseIsUsed == Spec => []OnlyConfigured
<1>1. Inv => OnlyConfigured
  <2> SUFFICES ASSUME Inv, NEW auth \in AuthsRead
               PROVE  \A i \in DOMAIN from_config(auth) :
                   /\ from_config(auth)[i].key # NULL =>
                          \E p \in Written(params.identity_file) : Means(p, from_config(auth)[i].key)
                   /\ from_config(auth)[i].cert # NULL =>
                          \E p \in Present(params.certificate_file) : Means(p, from_config(auth)[i].cert)
                   /\ from_config(auth)[i].agent # NULL =>
                          \E p \in AgentPaths : Means(p, from_config(auth)[i].agent)
                   /\ FirstOf(params.identitiesonly) = "yes" => from_config(auth)[i].kind # "Full"
    BY DEF OnlyConfigured
  <2> DEFINE tried == from_config(auth)
  <2>1. PICK i \in DOMAIN results : results[i].auth = auth /\ auth # NULL
    BY DEF AuthsRead
  <2>2. i \in 1..Len(results) /\ ReadInv(i) /\ InputsInv
    BY DEF Inv
  <2>3. PICK c : Remains(c) /\ auth = parse_auth(c)
    BY <2>1, <2>2 DEF ReadInv
  <2>4. /\ auth \in Auth
        /\ \A key \in KeysOf(auth) : \E p \in Written(params.identity_file) : Means(p, key)
        /\ auth.cert # NULL => \E p \in Present(params.certificate_file) : Means(p, auth.cert)
        /\ auth.agent # NULL => \E p \in AgentPaths : Means(p, auth.agent)
        /\ FirstOf(params.identitiesonly) = "yes" => auth.identities_only
    BY <2>2, <2>3, ReadIsConfigured
  <2>5. Sound(tried, auth)
    BY <2>4, PlanIsSound
  <2> HIDE DEF tried
  <2>6. ASSUME NEW k \in DOMAIN tried
        PROVE  /\ tried[k].key \in KeysOf(auth) \cup {NULL}
               /\ tried[k].cert \in {auth.cert, NULL} /\ tried[k].agent \in {auth.agent, NULL}
               /\ auth.identities_only => tried[k].kind # "Full"
    BY <2>5 DEF Sound
  <2>7. QED
    BY <2>4, <2>6 DEF tried
<1>2. QED
  BY <1>1, Invariance, PTL

\* Every local key and, through an agent bound to the configured keys, every
\* usable one has a method in a plan that begins with "none".
LEMMA PlanIsComplete ==
    ASSUME NEW a \in Auth, a.includes_none, NEW k \in 1..Len(Identities(a)), NEW tried, tried = from_config(a)
    PROVE  /\ LooksPrivate(Identities(a)[k]) =>
                  \E i \in DOMAIN tried : tried[i].by = "Local" /\ tried[i].key = Identities(a)[k]
           /\ LooksUsable(Identities(a)[k]) /\ ConfigState(a) = "AgentFiltered" =>
                  \E i \in DOMAIN tried : tried[i].by = "Agent" /\ tried[i].key = Identities(a)[k]
<1> DEFINE one == <<None>>
           g == AgentPart(a)
           c == LocalMethods(a)
           file == Identities(a)[k]
<1>1. tried = Cat(Cat(one, g), c)
  BY WithNoneParts DEF from_config
<1>2. /\ c \in Seq(MethodsBy("Local", a))
      /\ LooksPrivate(file) => \E i \in 1..Len(c) : c[i].key = file
  BY LocalMethodsAre
<1>3. /\ g \in Seq(MethodsBy("Agent", a))
      /\ LooksUsable(file) /\ ConfigState(a) = "AgentFiltered" => \E i \in 1..Len(g) : g[i].key = file
  <2>1. g \in Seq(MethodsBy("Agent", a))
    BY AgentPartIs
  <2>2. ASSUME LooksUsable(file), ConfigState(a) = "AgentFiltered"
        PROVE  \E i \in 1..Len(g) : g[i].key = file
    <3>1. a.agent \in Sock
      BY <2>2, StateIs
    <3>2. g = AgentMethods(a)
      BY <2>2 DEF AgentPart
    <3>3. \E i \in 1..Len(AgentMethods(a)) : AgentMethods(a)[i].key = file
      BY <2>2, <3>1, AgentMethodsAre
    <3>4. QED
      BY <3>2, <3>3
  <2>3. QED
    BY <2>1, <2>2
<1> HIDE DEF g, c
<1>4. one \in Seq(Methods) /\ g \in Seq(Methods) /\ c \in Seq(Methods)
  <2>1. None \in Methods
    BY PlainMethods DEF MethodsBy
  <2>2. one \in Seq(Methods)
    BY <2>1
  <2> HIDE DEF one
  <2>3. QED
    BY <1>2, <1>3, <2>2 DEF MethodsBy
<1> HIDE DEF one, file
<1>5. JoinsThree(tried, one, g, c, Methods)
  BY <1>1, <1>4, ThreePlaces
<1>6. Len(one) \in Nat /\ Len(g) \in Nat /\ Len(c) \in Nat /\ DOMAIN tried = 1..Len(tried)
      /\ Len(tried) = Len(one) + Len(g) + Len(c)
  BY <1>4, <1>5 DEF JoinsThree
<1>7. \A i \in 1..Len(c) : tried[Len(one) + Len(g) + i] = c[i] /\ c[i].by = "Local"
  BY <1>2, <1>5 DEF JoinsThree, MethodsBy
<1>8. \A i \in 1..Len(g) : tried[Len(one) + i] = g[i] /\ g[i].by = "Agent"
  BY <1>3, <1>5 DEF JoinsThree, MethodsBy
<1>9. ASSUME LooksPrivate(file) PROVE \E i \in DOMAIN tried : tried[i].by = "Local" /\ tried[i].key = file
  <2>1. PICK i \in 1..Len(c) : c[i].key = file
    BY <1>2, <1>9
  <2>2. Len(one) + Len(g) + i \in DOMAIN tried
    BY <1>6
  <2>3. QED
    BY <1>7, <2>1, <2>2
<1>10. ASSUME LooksUsable(file), ConfigState(a) = "AgentFiltered"
       PROVE  \E i \in DOMAIN tried : tried[i].by = "Agent" /\ tried[i].key = file
  <2>1. PICK i \in 1..Len(g) : g[i].key = file
    BY <1>3, <1>10
  <2>2. Len(one) + i \in DOMAIN tried
    BY <1>6
  <2>3. QED
    BY <1>8, <2>1, <2>2
<1>11. QED
  BY <1>9, <1>10 DEF file

\* The first reading keeps every identity that is written and means a path.
THEOREM NothingIsLost == Spec => []NothingConfiguredIsLost
<1>1. Inv => NothingConfiguredIsLost
  <2> SUFFICES ASSUME Inv, NEW i \in DOMAIN results, results[i].auth # NULL,
                      \A j \in 1..(i - 1) : results[j].auth = NULL
               PROVE  LET auth == results[i].auth
                          tried == from_config(auth)
                          Tried(by, file) == \E m \in DOMAIN tried : tried[m].by = by /\ tried[m].key = file
                      IN  /\ \A p \in Written(params.identity_file) : \A file \in File :
                                 Means(p, file) =>
                                     /\ LooksPrivate(file) => Tried("Local", file)
                                     /\ LooksUsable(file) /\ auth.identities_only /\ auth.agent # NULL =>
                                            Tried("Agent", file)
                          /\ auth.agent = NULL =>
                                 \A p \in Present(system.sock) : \A file \in File : ~Means(p, file)
    BY DEF NothingConfiguredIsLost
  <2> DEFINE auth == results[i].auth
             tried == from_config(auth)
             Tried(by, file) == \E m \in DOMAIN tried : tried[m].by = by /\ tried[m].key = file
  <2>1. i \in 1..Len(results) /\ ReadInv(i) /\ InputsInv
    BY DEF Inv
  <2>2. auth = parse_auth(params)
    BY <2>1 DEF ReadInv
  <2>3. params \in HostParams /\ auth \in Auth
    BY <2>1, <2>2, AuthRead DEF InputsInv
  <2>4. auth.identities = identities(params) /\ auth.agent = agent(params) /\ auth.includes_none
    BY <2>2 DEF parse_auth
  <2> HIDE DEF auth
  <2>5. ASSUME NEW p \in Written(params.identity_file), NEW file \in File, Means(p, file)
        PROVE  /\ LooksPrivate(file) => Tried("Local", file)
               /\ LooksUsable(file) /\ auth.identities_only /\ auth.agent # NULL => Tried("Agent", file)
    <3>1. params.identity_file # NULL
      BY DEF Written, Or
    <3>2. identities(params) \in Seq(File) /\ \E k \in DOMAIN identities(params) : identities(params)[k] = file
      BY <2>1, <2>3, <2>5, <3>1, IdentitiesRead
    <3>3. auth.identities # NULL /\ Identities(auth) = identities(params)
      BY <2>4, <3>2, NullIsNoResult DEF Identities
    <3>4. PICK k \in 1..Len(Identities(auth)) : Identities(auth)[k] = file
      BY <3>2, <3>3
    <3>5. auth.identities_only /\ auth.agent # NULL => ConfigState(auth) = "AgentFiltered"
      BY <3>3 DEF ConfigState
    <3> HIDE DEF tried
    <3>6. /\ LooksPrivate(file) => \E m \in DOMAIN tried : tried[m].by = "Local" /\ tried[m].key = file
          /\ LooksUsable(file) /\ ConfigState(auth) = "AgentFiltered" =>
                 \E m \in DOMAIN tried : tried[m].by = "Agent" /\ tried[m].key = file
      BY <2>3, <2>4, <3>4, PlanIsComplete DEF tried
    <3>7. QED
      BY <3>5, <3>6
  <2>6. ASSUME auth.agent = NULL, NEW p \in Present(system.sock), NEW file \in File
        PROVE  ~Means(p, file)
    <3>1. Expanded(system.sock) = NULL
      BY <2>1, <2>3, <2>4, <2>6, AgentRead
    <3>2. system.sock \in Maybe(Path) /\ system.sock # NULL /\ p = system.sock
      BY <2>1 DEF InputsInv, System, Present
    <3>3. QED
      BY <2>1, <3>1, <3>2, ExpandedIs, NullAssumption
  <2>7. QED
    BY <2>5, <2>6 DEF auth
<1>2. QED
  BY <1>1, Invariance, PTL

-----------------------------------------------------------------------------
(***************************************************************************)
(* The inductive invariant.  The properties say what a plan owes its       *)
(* settings; they are inductive only with the fact that a plan, once       *)
(* there, is what from_config makes of the settings it stands beside.      *)
(***************************************************************************)
PlanInv ==
    /\ settings \in Auths
    /\ methods # NULL => methods = from_config(settings)

LEMMA PlanInvariant == PlanSpec => []PlanInv
<1>1. PlanInit => PlanInv
  BY DEF PlanInit, PlanInv
<1>2. PlanInv /\ [PlanNext]_plan_vars => PlanInv'
  <2> SUFFICES ASSUME PlanInv, [PlanNext]_plan_vars PROVE PlanInv'
    OBVIOUS
  <2>1. CASE Plan
    BY <2>1 DEF Plan, PlanInv
  <2>2. CASE UNCHANGED plan_vars
    BY <2>2 DEF PlanInv, plan_vars
  <2>3. QED
    BY <2>1, <2>2 DEF PlanNext
<1>3. QED
  BY <1>1, <1>2, PTL DEF PlanSpec

\* Before the call there is no plan; after it the plan is from_config's.
LEMMA PlanIs ==
    ASSUME PlanInv
    PROVE  settings \in Auth /\ (plan = from_config(settings) \/ plan = <<>>)
BY AuthsAssumption DEF PlanInv, plan, Planned

-----------------------------------------------------------------------------
(***************************************************************************)
(* The order.                                                              *)
(***************************************************************************)
\* Two methods of a list that follows the identities.
LEMMA FollowsInOrder ==
    ASSUME NEW ids, NEW q, Follows(q, ids), Len(q) \in Nat,
           NEW i \in 1..Len(q), NEW j \in 1..Len(q), i < j
    PROVE  \E x, y \in 1..Len(ids) : x < y /\ ids[x] = q[i].key /\ ids[y] = q[j].key
<1>1. PICK pos \in [1..Len(q) -> 1..Len(ids)] :
          /\ \A k \in 1..Len(q) : q[k].key = ids[pos[k]]
          /\ \A k, n \in 1..Len(q) : k < n => pos[k] < pos[n]
  BY DEF Follows
<1>2. pos[i] \in 1..Len(ids) /\ pos[j] \in 1..Len(ids) /\ pos[i] < pos[j]
  BY <1>1
<1>3. ids[pos[i]] = q[i].key /\ ids[pos[j]] = q[j].key
  BY <1>1
<1>4. QED
  BY <1>2, <1>3

\* The ranks of the three parts, and the order inside each.
LEMMA PartsInOrder ==
    ASSUME NEW a \in Auth, NEW l, NEW g, NEW c, Parts(a, l, g, c)
    PROVE  /\ Len(l) \in {0, 1} /\ \A i \in 1..Len(l) : l[i].by = "None"
           /\ \A i \in 1..Len(g) : g[i].by = "Agent"
           /\ \A i \in 1..Len(c) : c[i].by = "Local"
           /\ Len(g) = 1 \/ Follows(g, Identities(a))
           /\ Len(g) \in Nat /\ Len(c) \in Nat /\ Follows(c, Identities(a))
<1>1. Len(l) \in {0, 1} /\ \A i \in 1..Len(l) : l[i].by = "None"
  <2>1. l = <<>> \/ l = <<None>>
    BY DEF Parts
  <2>2. CASE l = <<>>
    BY <2>2
  <2>3. CASE l = <<None>>
    <3>1. None.by = "None"
      BY DEF None, Method
    <3>2. QED
      BY <2>3, <3>1
  <2>4. QED
    BY <2>1, <2>2, <2>3
<1>2. g \in Seq(MethodsBy("Agent", a)) /\ c \in Seq(MethodsBy("Local", a)) /\ Follows(c, Identities(a))
  BY DEF Parts
<1>3. \A i \in 1..Len(g) : g[i].by = "Agent"
  BY <1>2 DEF MethodsBy
<1>4. \A i \in 1..Len(c) : c[i].by = "Local"
  BY <1>2 DEF MethodsBy
<1>5. Len(g) = 1 \/ Follows(g, Identities(a))
  BY DEF Parts
<1>6. QED
  BY <1>1, <1>2, <1>3, <1>4, <1>5

InOrder(q, a, p, r) ==
    /\ Rank(q[p]) <= Rank(q[r])
    /\ q[p].by = q[r].by =>
           \E i, j \in DOMAIN Identities(a) :
               /\ i < j
               /\ Identities(a)[i] = q[p].key
               /\ Identities(a)[j] = q[r].key

LEMMA RankIs ==
    ASSUME NEW method
    PROVE  /\ method.by = "None" => Rank(method) = 0
           /\ method.by = "Agent" => Rank(method) = 1
           /\ method.by = "Local" => Rank(method) = 2
BY DEF Rank

\* Two methods of a plan, the first of which is tried before the second.
LEMMA PlanInOrder ==
    ASSUME NEW a \in Auth, NEW q, q = from_config(a),
           NEW p \in 1..Len(q), NEW r \in 1..Len(q), p < r
    PROVE  InOrder(q, a, p, r)
<1> DEFINE ids == Identities(a)
<1>1. PICK l, g, c : Parts(a, l, g, c) /\ q = Cat(Cat(l, g), c)
  BY FromConfigParts
<1>2. l \in Seq(Methods) /\ g \in Seq(Methods) /\ c \in Seq(Methods)
  BY <1>1, PartsAreSound DEF Sound
<1>3. JoinsThree(q, l, g, c, Methods)
  BY <1>1, <1>2, ThreePlaces
<1>4. ids \in Seq(File) /\ DOMAIN ids = 1..Len(ids)
  BY AuthParts
<1>5. /\ Len(l) \in {0, 1} /\ \A i \in 1..Len(l) : l[i].by = "None"
      /\ \A i \in 1..Len(g) : g[i].by = "Agent"
      /\ \A i \in 1..Len(c) : c[i].by = "Local"
      /\ Len(g) = 1 \/ Follows(g, ids)
      /\ Len(g) \in Nat /\ Len(c) \in Nat /\ Follows(c, ids)
  BY <1>1, PartsInOrder
<1> HIDE DEF ids
<1>6. \A i \in 1..Len(l) : q[i].by = "None" /\ i = 1
  BY <1>3, <1>5 DEF JoinsThree
<1>7. \A j \in 1..Len(g) : q[Len(l) + j] = g[j] /\ g[j].by = "Agent"
  BY <1>3, <1>5 DEF JoinsThree
<1>8. \A j \in 1..Len(c) : q[Len(l) + Len(g) + j] = c[j] /\ c[j].by = "Local"
  BY <1>3, <1>5 DEF JoinsThree
<1>9. \A i \in 1..Len(q) :
          \/ i \in 1..Len(l)
          \/ \E j \in 1..Len(g) : i = Len(l) + j
          \/ \E j \in 1..Len(c) : i = Len(l) + Len(g) + j
  BY <1>3 DEF JoinsThree
<1>10. \/ p \in 1..Len(l)
       \/ \E j \in 1..Len(g) : p = Len(l) + j
       \/ \E j \in 1..Len(c) : p = Len(l) + Len(g) + j
  BY <1>9
<1>11. \/ r \in 1..Len(l)
       \/ \E j \in 1..Len(g) : r = Len(l) + j
       \/ \E j \in 1..Len(c) : r = Len(l) + Len(g) + j
  BY <1>9
<1>12. CASE p \in 1..Len(l)
  <2>1. q[p].by = "None" /\ p = 1
    BY <1>6, <1>12
  <2>2. r \notin 1..Len(l)
    BY <1>6, <2>1
  <2>3. q[r].by \in {"Agent", "Local"}
    <3>1. CASE \E j \in 1..Len(g) : r = Len(l) + j
      BY <1>7, <3>1
    <3>2. CASE \E j \in 1..Len(c) : r = Len(l) + Len(g) + j
      BY <1>8, <3>2
    <3>3. QED
      BY <1>11, <2>2, <3>1, <3>2
  <2>4. Rank(q[p]) = 0 /\ Rank(q[r]) \in {1, 2} /\ q[p].by # q[r].by
    BY <2>1, <2>3, RankIs
  <2>5. QED
    BY <2>4 DEF InOrder
<1>13. CASE \E j \in 1..Len(g) : p = Len(l) + j
  <2>1. PICK j \in 1..Len(g) : p = Len(l) + j
    BY <1>13
  <2>2. q[p] = g[j] /\ q[p].by = "Agent" /\ Rank(q[p]) = 1
    BY <1>7, <2>1, RankIs
  <2>3. r \notin 1..Len(l)
    BY <1>5, <1>6, <2>1
  <2>4. CASE \E k \in 1..Len(g) : r = Len(l) + k
    <3>1. PICK k \in 1..Len(g) : r = Len(l) + k
      BY <2>4
    <3>2. q[r] = g[k] /\ q[r].by = "Agent" /\ Rank(q[r]) = 1
      BY <1>7, <3>1, RankIs
    <3>3. j < k
      BY <1>5, <2>1, <3>1
    <3>4. Follows(g, ids) /\ Len(g) \in Nat
      BY <1>5, <3>3
    <3>5. \E x, y \in 1..Len(ids) : x < y /\ ids[x] = g[j].key /\ ids[y] = g[k].key
      BY <3>3, <3>4, FollowsInOrder
    <3>6. QED
      <4>1. \E x, y \in DOMAIN ids : x < y /\ ids[x] = q[p].key /\ ids[y] = q[r].key
        BY <1>4, <2>2, <3>2, <3>5
      <4>2. Rank(q[p]) <= Rank(q[r])
        BY <2>2, <3>2
      <4>3. QED
        BY <4>1, <4>2 DEF InOrder, ids
  <2>5. CASE \E k \in 1..Len(c) : r = Len(l) + Len(g) + k
    <3>1. q[r].by = "Local" /\ Rank(q[r]) = 2
      BY <1>8, <2>5, RankIs
    <3>2. QED
      BY <2>2, <3>1 DEF InOrder
  <2>6. QED
    BY <1>11, <2>3, <2>4, <2>5
<1>14. CASE \E j \in 1..Len(c) : p = Len(l) + Len(g) + j
  <2>1. PICK j \in 1..Len(c) : p = Len(l) + Len(g) + j
    BY <1>14
  <2>2. q[p] = c[j] /\ q[p].by = "Local" /\ Rank(q[p]) = 2
    BY <1>8, <2>1, RankIs
  <2>3. r \notin 1..Len(l) /\ ~ \E k \in 1..Len(g) : r = Len(l) + k
    BY <1>5, <2>1
  <2>4. PICK k \in 1..Len(c) : r = Len(l) + Len(g) + k
    BY <1>11, <2>3
  <2>5. q[r] = c[k] /\ q[r].by = "Local" /\ Rank(q[r]) = 2
    BY <1>8, <2>4, RankIs
  <2>6. j < k
    BY <1>5, <2>1, <2>4
  <2>7. \E x, y \in 1..Len(ids) : x < y /\ ids[x] = c[j].key /\ ids[y] = c[k].key
    <3>1. Follows(c, ids) /\ Len(c) \in Nat
      BY <1>5
    <3>2. QED
      BY <2>6, <3>1, FollowsInOrder
  <2>8. QED
    <3>1. \E x, y \in DOMAIN ids : x < y /\ ids[x] = q[p].key /\ ids[y] = q[r].key
      BY <1>4, <2>2, <2>5, <2>7
    <3>2. Rank(q[p]) <= Rank(q[r])
      BY <2>2, <2>5
    <3>3. QED
      BY <3>1, <3>2 DEF InOrder, ids
<1>15. QED
  BY <1>10, <1>12, <1>13, <1>14

-----------------------------------------------------------------------------
(***************************************************************************)
(* The same settings with and without "none".                              *)
(***************************************************************************)
FirstIsPrivate(a) ==
    \E i \in DOMAIN Identities(a) :
        /\ LooksPrivate(Identities(a)[i])
        /\ \A j \in 1..(i - 1) : ~LooksUsable(Identities(a)[j])

\* The first key the agent may sign for is the first usable identity.
LEMMA FirstUsable ==
    ASSUME NEW a \in Auth, NEW keys, keys = Filter(Identities(a), UsableFiles),
           keys # <<>>, ~ FirstIsPrivate(a)
    PROVE  ~ LooksPrivate(keys[1])
<1> DEFINE ids == Identities(a)
<1>1. ids \in Seq(File) /\ DOMAIN ids = 1..Len(ids)
  BY AuthParts
<1>2. keys \in Seq(File) /\ \E pos : PlacesOf(pos, keys, ids, UsableFiles, Len(ids))
  BY <1>1, FilterPlaces
<1>3. PICK pos : PlacesOf(pos, keys, ids, UsableFiles, Len(ids))
  BY <1>2
<1>4. \A j \in 1..Len(ids) : LooksUsable(ids[j]) => ids[j] \in UsableFiles
  BY <1>1 DEF UsableFiles
<1> HIDE DEF ids
<1>5. 1 \in 1..Len(keys)
  BY <1>2
<1>6. pos[1] \in 1..Len(ids) /\ keys[1] = ids[pos[1]]
  BY <1>3, <1>5 DEF PlacesOf
<1>7. \A x \in 1..Len(keys) : ~ (pos[x] < pos[1])
  <2> SUFFICES ASSUME NEW x \in 1..Len(keys) PROVE ~ (pos[x] < pos[1])
    OBVIOUS
  <2>1. pos[x] \in 1..Len(ids) /\ Len(keys) \in Nat
    BY <1>2, <1>3 DEF PlacesOf
  <2>2. CASE x = 1
    BY <1>6, <2>2
  <2>3. CASE x # 1
    <3>1. 1 < x
      BY <2>1, <2>3
    <3>2. pos[1] < pos[x]
      BY <1>3, <1>5, <3>1 DEF PlacesOf
    <3>3. QED
      BY <1>6, <2>1, <3>2
  <2>4. QED
    BY <2>2, <2>3
<1>8. ASSUME NEW j \in 1..(pos[1] - 1) PROVE ~ LooksUsable(ids[j])
  <2>1. j \in 1..Len(ids) /\ j < pos[1]
    BY <1>1, <1>6
  <2>2. SUFFICES ASSUME ids[j] \in UsableFiles PROVE FALSE
    BY <1>4, <2>1
  <2>3. PICK x \in 1..Len(keys) : pos[x] = j
    BY <1>3, <2>1, <2>2 DEF PlacesOf
  <2>4. QED
    BY <1>7, <2>1, <2>3
<1>9. QED
  BY <1>1, <1>6, <1>8 DEF ids, FirstIsPrivate

\* Then the agent's methods are the same with and without "none".
LEMMA AgentMethodsSame ==
    ASSUME NEW a \in Auth, a.agent \in Sock, ~ FirstIsPrivate(a)
    PROVE  AgentMethodsWithoutNone(a) = AgentMethods(a)
<1> DEFINE agents == AgentMethods(a)
           keys == Filter(Identities(a), UsableFiles)
           one == <<agents[1]>>
<1>1. agents \in Seq(MethodsBy("Agent", a))
  BY AgentMethodsAre
<1>2. CASE agents = <<>>
  BY <1>2 DEF AgentMethodsWithoutNone
<1>3. CASE agents # <<>>
  <2>1. keys # <<>>
    <3>1. SUFFICES ASSUME keys = <<>> PROVE FALSE
      OBVIOUS
    <3>2. agents = [i \in DOMAIN keys |-> AgentMethod(a.agent, keys[i], a.cert)]
      BY DEF AgentMethods
    <3> HIDE DEF agents, keys
    <3>3. DOMAIN keys = 1..0
      BY <3>1
    <3>4. DOMAIN agents = 1..0
      BY <3>2, <3>3
    <3>5. Len(agents) = 0
      BY <1>1, <3>4
    <3>6. QED
      BY <1>1, <1>3, <3>5
  <2>2. ~ LooksPrivate(keys[1])
    BY <2>1, FirstUsable
  <2>3. AgentMethodsWithoutNone(a) = Cat(one, Tail(agents))
    BY <1>3, <2>2 DEF AgentMethodsWithoutNone, Cat
  <2> HIDE DEF agents
  <2>4. <<agents[1]>> \o Tail(agents) = agents
    BY <1>1, <1>3
  <2>5. QED
    BY <2>3, <2>4 DEF Cat, agents
<1>4. QED
  BY <1>2, <1>3

\* Lists can be put together in any order.
LEMMA CatCat ==
    ASSUME NEW S, NEW p \in Seq(S), NEW q \in Seq(S), NEW r \in Seq(S)
    PROVE  Cat(Cat(p, q), r) = Cat(p, Cat(q, r))
BY DEF Cat

\* With "none" the plan is "none" and then the plan without it.
LEMMA TailIsWithoutNone ==
    ASSUME NEW a \in Auth, Len(from_config_with_none(a)) > 1,
           ConfigState(a) = "AgentFiltered" => ~ FirstIsPrivate(a)
    PROVE  /\ from_config_without_none(a) = Tail(from_config_with_none(a))
           /\ from_config_without_none(a) # <<>>
<1> DEFINE one == <<None>>
           c == LocalMethods(a)
           q == from_config_without_none(a)
           w == from_config_with_none(a)
<1>1. MethodsBy("Agent", a) \subseteq Methods /\ MethodsBy("Local", a) \subseteq Methods /\ None \in Methods
  BY PlainMethods DEF MethodsBy
<1>2. c \in Seq(Methods)
  <2>1. c \in Seq(MethodsBy("Local", a))
    BY LocalMethodsAre
  <2> HIDE DEF c
  <2>2. QED
    BY <1>1, <2>1
<1>3. one \in Seq(Methods)
  BY <1>1
<1>4. \E g \in Seq(Methods) : w = Cat(Cat(one, g), c) /\ q = Cat(g, c)
  <2>1. CASE ConfigState(a) = "AgentFiltered"
    <3> DEFINE g == AgentMethods(a)
    <3>1. a.agent \in Sock
      BY <2>1, StateIs
    <3>2. g \in Seq(MethodsBy("Agent", a)) /\ AgentMethodsWithoutNone(a) = g
      BY <2>1, <3>1, AgentMethodsAre, AgentMethodsSame
    <3>3. w = Cat(Cat(one, g), c) /\ q = Cat(g, c)
      BY <2>1, <3>2 DEF from_config_with_none, from_config_without_none, Cat
    <3> HIDE DEF g, one, c, w, q
    <3>4. g \in Seq(Methods)
      BY <1>1, <3>2
    <3>5. QED
      BY <3>3, <3>4
  <2>2. CASE ConfigState(a) = "AgentFull"
    <3> DEFINE g == <<Full(a.agent)>>
    <3>1. Full(a.agent) \in Methods
      <4>1. a.agent \in Sock
        BY <2>2, StateIs
      <4>2. Full(a.agent) \in MethodsBy("Agent", a)
        BY <4>1, PlainMethods
      <4>3. QED
        BY <1>1, <4>2
    <3>2. <<None, Full(a.agent)>> = Cat(one, g)
      BY DEF Cat
    <3>3. w = Cat(<<None, Full(a.agent)>>, c) /\ q = Cat(g, c)
      BY <2>2 DEF from_config_with_none, from_config_without_none, Cat
    <3>4. g \in Seq(Methods)
      BY <3>1
    <3>5. w = Cat(Cat(one, g), c)
      BY <3>2, <3>3
    <3> HIDE DEF g, one, c, w, q
    <3>6. QED
      BY <3>3, <3>4, <3>5
  <2>3. CASE ConfigState(a) = "NoAgent"
    <3>1. w = Cat(one, c) /\ q = c
      BY <2>3 DEF from_config_with_none, from_config_without_none, Cat
    <3> HIDE DEF one, c, w, q
    <3>2. Cat(one, <<>>) = one /\ Cat(<<>>, c) = c
      BY <1>2, <1>3, CatNothing
    <3>3. <<>> \in Seq(Methods)
      OBVIOUS
    <3>4. w = Cat(Cat(one, <<>>), c) /\ q = Cat(<<>>, c)
      BY <3>1, <3>2
    <3>5. QED
      BY <3>3, <3>4
  <2>4. CASE ConfigState(a) \in {"AgentFilteredEmpty", "NoAgentEmpty"}
    <3>1. w = one
      BY <2>4 DEF from_config_with_none, Default
    <3>2. Len(one) = 1
      OBVIOUS
    <3> HIDE DEF one
    <3>3. QED
      BY <3>1, <3>2
  <2>5. QED
    BY <2>1, <2>2, <2>3, <2>4, StateIs DEF States
<1>5. PICK g \in Seq(Methods) : w = Cat(Cat(one, g), c) /\ q = Cat(g, c)
  BY <1>4
<1>6. Len(one) = 1 /\ Len(w) > 1
  OBVIOUS
<1> HIDE DEF one, c, w, q
<1>7. w = Cat(one, q)
  <2>1. Cat(Cat(one, g), c) = Cat(one, Cat(g, c))
    BY <1>2, <1>3, CatCat
  <2>2. QED
    BY <1>5, <2>1
<1>8. q \in Seq(Methods)
  <2>1. Joins(Cat(g, c), g, c, Methods)
    BY <1>2, CatJoins
  <2>2. QED
    BY <1>5, <2>1 DEF Joins
<1>9. q = Tail(w)
  <2>1. Tail(Cat(<<None>>, q)) = q
    BY <1>1, <1>8, TailOfCat
  <2>2. QED
    BY <1>7, <2>1 DEF one
<1>10. q # <<>>
  <2>1. Joins(w, one, q, Methods)
    BY <1>3, <1>7, <1>8, CatJoins
  <2>2. QED
    BY <1>6, <1>8, <2>1 DEF Joins
<1>11. QED
  BY <1>9, <1>10 DEF q, w

-----------------------------------------------------------------------------
\* The methods of a plan have the paths their kinds need.
THEOREM TypeCorrect == PlanSpec => []TypeOK
<1>1. PlanInv => TypeOK
  <2> SUFFICES ASSUME PlanInv, methods # NULL
               PROVE  methods \in Seq(Methods) /\ \A i \in DOMAIN methods : WellFormed(methods[i])
    BY DEF PlanInv, TypeOK
  <2>1. Sound(methods, settings)
    BY AuthsAssumption, PlanIsSound DEF PlanInv
  <2>2. QED
    BY <2>1 DEF Sound
<1>2. QED
  BY <1>1, PlanInvariant, PTL

\* No plan names a key the configuration does not list, and under IdentitiesOnly
\* none leaves the choice of the key to the agent.
THEOREM NoKeyOfTheAgent == PlanSpec => []IdentitiesOnlyRespected
<1>1. PlanInv => IdentitiesOnlyRespected
  <2> SUFFICES ASSUME PlanInv, NEW p \in DOMAIN plan
               PROVE  /\ plan[p].key \in Listed \cup {NULL}
                      /\ settings.identities_only => plan[p].kind # "Full"
    BY DEF IdentitiesOnlyRespected
  <2>1. settings \in Auth /\ plan = from_config(settings)
    BY PlanIs
  <2>2. Sound(plan, settings) /\ Listed = KeysOf(settings)
    BY <2>1, PlanIsSound DEF Listed, KeysOf
  <2>3. QED
    BY <2>2 DEF Sound
<1>2. QED
  BY <1>1, PlanInvariant, PTL

\* "none" is tried first, then the agent, then the local keys, and within each
\* group the identities come in the order of the configuration.
THEOREM Ordered == PlanSpec => []TriesInOrder
<1>1. PlanInv => TriesInOrder
  <2> SUFFICES ASSUME PlanInv, NEW p \in DOMAIN plan, NEW r \in DOMAIN plan, p < r
               PROVE  InOrder(plan, settings, p, r)
    BY DEF TriesInOrder, InOrder
  <2>1. settings \in Auth /\ plan = from_config(settings)
    BY PlanIs
  <2>2. plan \in Seq(Methods)
    BY <2>1, PlanIsSound DEF Sound
  <2>3. p \in 1..Len(plan) /\ r \in 1..Len(plan)
    BY <2>2
  <2>4. QED
    BY <2>1, <2>3, PlanInOrder
<1>2. QED
  BY <1>1, PlanInvariant, PTL

\* With includes_none cleared the plan is the same without the leading "none",
\* unless the first usable identity looks private.
THEOREM AsIs == PlanSpec => []AsIsWithoutNone
<1>1. PlanInv => AsIsWithoutNone
  <2> SUFFICES ASSUME PlanInv, Planned, ~ settings.includes_none,
                      Len(from_config_with_none(settings)) > 1,
                      ~ (ConfigState(settings) = "AgentFiltered" /\ FirstIsPrivate(settings))
               PROVE  methods = Tail(from_config_with_none(settings))
    BY DEF AsIsWithoutNone, FirstIsPrivate
  <2>1. settings \in Auth /\ methods = from_config(settings)
    BY AuthsAssumption DEF PlanInv, Planned
  <2>2. /\ from_config_without_none(settings) = Tail(from_config_with_none(settings))
        /\ from_config_without_none(settings) # <<>>
    BY <2>1, TailIsWithoutNone
  <2>3. QED
    BY <2>1, <2>2 DEF from_config
<1>2. QED
  BY <1>1, PlanInvariant, PTL
=============================================================================
