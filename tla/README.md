# openrussh-client in TLA+

A verification development for the crate `openrussh-client` (0.4.6), an SSH
client on top of `russh` that reads OpenSSH's configuration. The modules model
the code under `src/src/`; TLC checks them on small instances, TLAPS proves
the main properties for every value of the constants. `russh`, the servers,
the agent, the network and the remote process are the environment: they are
modelled from how the code uses them.

## 1. The system

A program that uses the crate goes through five stages, each with a component
of its own:

1. `Target::query` turns what the user typed and the OpenSSH configuration
   into a `Chain`: bastions, then the target (`config.rs`).
2. `AuthMethods::from_config` turns the settings of one host into a list of
   authentication methods (`auth.rs`).
3. `Connection::connect` dials the servers of the chain one after the other,
   each over a channel of the one before, asks `MakeHandler` for a handler and
   performs the methods (`connect.rs`, `auth.rs`).
4. The handler decides whether the host key is trusted (`known_hosts.rs`).
5. On the connection, `exec` and `shell` run commands (`process/`), and
   `forward_tcp`/`forward_stream` copy connections (`local_forwarding/`).

| Component | State | Operations | What is hard | What makes it correct |
|---|---|---|---|---|
| Configuration resolution, `config.rs` | parsed configuration, list still to expand, bastions so far; what is left of one host's parameters | `Target::parse`, `Target::query`, `parse_config`, `parse_dest`, `parse_auth`, `parse_tty`, the four `parse_openssh`, `Chain::iter` | three reversals (push, `iter`, windows); only the first jump is followed; cycles; reading a setting takes it out; paths and agents that are ignored; colons in host names | the servers are dialled along OpenSSH's route; fails exactly if one has no user; the credentials are the configured ones, whatever was read before |
| Authentication planning, `auth.rs` 586-1158 | settings; what each file looks like | `from_config`, its two builders, `check_pub_or_priv` | five states of the settings, two builders that must agree, the first method apart from the rest | only listed keys with `IdentitiesOnly`; the order of the directives; nothing forgotten |
| Connection and authentication, `connect.rs`, `auth.rs` 1-583 | handle, channel, sessions, method, agent identities | `connect_impl`, `connect`, `connect_stream`, `auth`, every method of `Authenticator`, `disconnect` | a dozen awaits with failures between them; rebinding of handle and channel; sessions that live through one another; the meaning of a refusal | each server gets its own credentials, in turn; the tunnel stays up; everything is closed after an error; `connect` returns |
| Known hosts, `known_hosts.rs` | two sorted tables; the handler's host and port; an iterator with three positions | `new`, `make_handler`, `preferred_public_key_alg`, `update_preferred_config`, `check_public_key`, `check_cert`, the matching of patterns and hashes | binary search over sorted tables, equal keys, CAs in the same table, a lazy iterator that stops and goes on; brackets, ports and globs in one pattern | revocation wins; accepted iff vouched for; a known host does not look changed; a line is about a host exactly when the documented rule says so |
| Child process, `process/child.rs`, `cmd.rs` 471-495, `shell.rs`, `process/mod.rs` 189-334 | channel halves, exit status | `exec`, `shell`, `write_stdin`, `eof`, `close`, `read_next`, `wait`, `wait_with_output` | replies nobody waits for; bounded queues in both directions; the order of exit, end and close | output complete and in order; the status of the process; neither side waits for ever |
| Command builder and escaping, `process/cmd.rs`, `process/escape/` | a string, and a type for what may follow; the parts of an `ExpandCommand` | the methods of `Command` and `ExpandCommand`, `Escaper`, every `Arg` | quotes inside quotes, substitutions inside quotes, bytes that are no text, the empty word | the remote shell reads the words, assignments and redirections given, and whole commands |
| Local forwarding, `local_forwarding/` | two streams, the channel and the future that copies | `forward_tcp`, `forward_stream`, `forward_uds`, `LocalForward::wait`, `spawn_wait`, `into_inner` | two directions that end on their own; full buffers; a lazy future that may be dropped | an end that is shown is that of a whole stream; an end reaches the other side; a polled forward ends |
| Errors, `error.rs`; re-exports, `lib.rs` | none | `Display` | wording only | not modelled |

Interactions are calls: stage 3 calls stages 2 and 4 once per server, and
stage 5 uses the handle it returns. State is shared only in the sessions of
`russh`, through handles and channels. `PROJECT.json` lists the hazards of the
code at their lines, each with the properties that would catch it.

## 2. The modules

| Module | Models | Composes |
|---|---|---|
| `ProxyChain` | `parse_config`: the loop over `proxy_jump` | `Chain` |
| `Chain` | `Chain::iter` and `BastionIter` | |
| `AuthMethods` | the planning, as operators | |
| `AuthPlan` | one call of `from_config`, with its properties | `AuthMethods` |
| `Connect` | `connect_impl` with the authentication of every hop | `AuthMethods`, `Chain`, `TrustedPath` |
| `TrustedPath` | what `connect` promises, abstractly | |
| `Settings` | `parse_dest`, `parse_auth`, `parse_tty` and the calls that read them off one `HostParams` | `AuthMethods` |
| `KnownHosts` | the tables, the preferred algorithms, the checks | |
| `HostText` | `Target::parse`, the handler's host, the matching of patterns and hashes | |
| `ChildProcess` | a command from its requests to its end | `ByteStream`, for stdout and for stderr |
| `Command` | the builders `Command` and `ExpandCommand` | `Escape` |
| `Escape` | the implementations of `Arg` | `Shell` |
| `Shell` | the shell that reads the text; not a part of `src/` | |
| `LocalForward` | one forwarded connection | `ByteStream`, once for each direction |
| `ByteStream` | what a stream between two programs promises, abstractly | |
| `AuthMethodsProofs`, `SettingsProofs`, `ProxyChainProofs`, `ConnectProofs`, `KnownHostsProofs`, `ChildProcessProofs`, `CommandProofs`, `LocalForwardProofs` | proofs | the modules they are named after, `SettingsProofs` of `AuthPlan` too |
| `MC*` | constants for TLC | |

**ProxyChain.** `Query` is the query for the typed target, `Expand` one round
of the loop (the pushes and `proxy_jump.take()` of the new first bastion are
one step: the function has no await), `Return` the end. `conf[n]` is the answer
of `ssh2_config` for `n`. `Expansion`, a constant operator, is OpenSSH's rule:
only the first server of a list has its own list followed. A bastion is kept
as it was written; what the code pushes, `parse_dest` of it, depends on the
configuration only, so the route determines the hosts.

**AuthMethods, AuthPlan.** A file is a model value with what
`check_pub_or_priv` can see of it: extension, readable or not, header. The two
builders are operators of the settings (`from_config_with_none`,
`from_config_without_none`); `AuthPlan` has one action, the call.

**Settings.** `params` is what `SshConfig::query` answered for a name, `conf`
what is left of it: `parse_dest` and `parse_auth` take values out (`DestTaken`,
`AuthTaken`), so the four `parse_openssh` functions, one action each, depend on
the calls before them, and on an `Err` that came after values were taken. The
target is an argument of each call, as in the code. A path is its first
component (`~`, `~user`, anything else, or none) and the rest. `results` keeps
what each call was asked and returned; the plan is `from_config` of
`AuthMethods` on it, so the reading and the planning are checked together.

**Connect.** Each await is an action whose outcome the environment chooses:
`OpenChannel`, `MakeHandler`, `Establish`, `ConnectAgent`, `PerformFiles`,
`ListIdentities`, `NextIdentity`, `Answer`, `NoAnswer`. `Fail` is `?`: the
locals are dropped and the error returned. The errors of a method are
operators of their own (`LoadFails`, `FindHashAlgFails`, `AgentFails`): unlike
a refusal by the server they end the call. `handle`, `channel` and `fresh` are
the bindings of the loop, `open` the sessions whose tasks run; a task ends
when nobody can send to it (`Held`), which is how dropped handles matter.
`accepted` and `asked` are histories. `Cut` may take any session at any time.

**KnownHosts.** `ReadLine` sorts one line of the file into a table, `Sort` is
`sort_unstable_by_key` (entries with equal keys in any order), `MakeHandler`
takes the known algorithms, `NextKnown` and `NextConfig` are calls of the
iterator's `next`, one per algorithm yielded, `CheckKey` and `CheckCert` answer
for what the server shows. A glob is the set of names it matches, a digest is
a number (the tables are ordered by it). The crate's feature `rsa`, off by
default, changes which algorithms are known: both builds are checked. Which
key a server shows is `russh`'s negotiation (`Negotiated`, external): the first
algorithm of the client that the server has a key for.

**HostText.** Texts are sequences of bytes here, since splitting them is what
the code does: at the first `@`, the last `:`, the first or the last `]:`, at
brackets and wildcards; the bytes are those of ASCII. `Parse`, `NewHandler` and
`Match` are the three places; the glob library is modelled by what it makes of the escaped pattern,
two stars with something beside them being an error. The reference (`Fits`)
cuts the text into one piece for each character of the pattern.

**ChildProcess.** `OpenSession` and `Request` are `exec` and `shell`,
`ReadNext` is one turn of the loop of `read_next` (called until `None`),
`CloseChannel` what it does before `None`, `WriteStdin` and `EndStdin` are the
owner's writing, `Drop` the end of a `Child` that has been read to `None` and
written to the end. `Abandon` is an owner that lets go before: a `Child` dropped,
or the future of `exec` or of a wait, as a timeout does; there is no `Drop` impl,
so nothing is sent. The server answers requests in
order and sends the output, the exit and its `Close` through a bounded queue;
the process reads, copies or only writes.

**Command, Escape, Shell.** Here the text is the result, so it is modelled byte
for byte. Each method of a builder is an action that appends a part (`env`,
`arg`, `redir`, ...) and moves the type parameter (`st`). An `ExpandCommand` is
built where it is used: the outer builder waits (`sub`), and the complete
expansion (`held`) is the argument of the next call, of a command or of an
`ExpandCommand` around it. Next to the text every part has its `meant`, what the
shell should read: bytes for themselves, marks for where a word, an assignment,
a redirection or an operator is. `Shell` reads a text one byte at a time with a
stack of modes for quotes, parameters and substitutions, and knows no more of
POSIX than the builders may write: everything else, such as a character with a
meaning outside of quotes, is the mode "bad".

What the calls are given is made of ingredients: texts, numbers, pieces that a
`Display` hands over, lists of arguments. `Arguments` are the simple ones and, level
by level, those made of lists of the level below: every type the crate implements
`Arg` for. `Redirections` leaves out a redirection to a descriptor in append or
read-write mode (`>>&1`): the crate writes it and says in its doc that it does not
check whether a shell takes it (`cmd.rs:116-118`). The expression of an `Env` has
no closing brace: it is the program's text, written as it is. A text given to
`new_unchecked` is a list of commands the shell reads as its caller means it
(`RawAssumption`): the function is `unsafe` because it checks neither.

**LocalForward.** A byte is counted at four places: sent by a program, taken
and put by the future, got by the other program. `forward_tcp` opens the
channel (`Opened`, `Refused`), `wait` is the first poll of the future, and
`Take`, `Put`, `Shut`, `Fail`, `Finish` are what it does; they are modelled
from the contract of tokio's `copy_bidirectional`. `Drop` may come at any time
before the end, `Leave` is a side that closes or breaks, and the programs
write, end, read or do not read (`reads`) as they like. A lost session may
reach the future as an error or as the end of the messages: both are allowed.

**ByteStream.** What both `LocalForward` and `ChildProcess` are for, said without
them: what is got is what was sent, the end is shown behind the last of it, once,
and nothing comes after it; a stream that has broken off may show its end early.
Bytes and chunks are counted, since both models keep their order. A direction of
a forward breaks off when its beginning does or when the future fails or is
dropped; a stream of a command when the connection is lost or a request refused.

### Mutants

Operators commented "Mutant:" are plausible bugs at the definition they stand
before. They are used by no specification; replacing the definition by them
must break the property `PROJECT.json` names with it.

## 3. The runs

| Run | Instance | Shows |
|---|---|---|
| `auth_plan` | up to three identities over four files (two private keys, one public, one unusable), certificate, agent, both flags: 1 376 settings | every plan respects `IdentitiesOnly`, keeps the order, forgets nothing when `includes_none` is set; without it, what is left is right except for finding 1 |
| `auth_plan_skipped`, `auth_plan_none` | the same | findings 1 and 2 |
| `settings` | every sequence of up to three calls of the `parse_openssh` functions, each for any target; identity lists of up to two paths out of four, every kind of `IdentityAgent`, with and without `SSH_AUTH_SOCK`, a home and a user name (2.5 million states) | only configured credentials are used and none is lost; the parts make the host, in any order; a failed call costs the next the `HostName` and nothing else |
| `proxy_chain` | every configuration of three names with lists up to two (one for the third), with and without a user | the chain is OpenSSH's route, `iter` links it, failures are exactly unresolved users, cycles never return and everything else does |
| `connect` | chains of one to three servers, six kinds of settings, one agent with three identities, every answer, any cut | the properties below, the refinement of `TrustedPath`, termination |
| `connect_refusal` | the same | finding 3 |
| `known_hosts` | files of up to three lines out of twelve (plain, negated, hashed, with port; unmarked, revoked, CA; unparsable), two hosts, two ports, five keys, five servers, five certificates, both builds | the answer is what the lines say, in any order; the preference keeps a known host from looking changed |
| `host_text` | eight kinds of hosts with eight kinds of ports as typed; every line of one pattern of up to three characters with seven kinds of ports, of two out of a smaller set, and the names `ssh` writes, plain and hashed (1 million states) | a pattern matches exactly when the doc says so; a host typed is found under the names written for it, and no other |
| `command` | calls up to a cost of seven, where a plain call costs one and a call with one of nearly two hundred unusual arguments, keys or redirections costs four; expansions in any argument, and inside one another (450 000 states) | the shell reads what was asked for; a command that can be run is a complete list of commands |
| `child_process` | queue of two messages, window of one chunk, seven owners, three processes, five calls, two exit codes (one of eight bits, one of more), owners that let go at any time (500 000 states) | output, status, release, and that waiting ends |
| `local_forward` | up to three bytes in each direction, places that hold one, both sides read or not (118 000 states) | ends are those of whole streams, pass through one by one, and a polled forward ends |

Why the bounds are enough. A plan treats the first method apart from the rest,
so three identities distinguish first, middle and last. Three names give
routes with nested lists and every cycle shape of first jumps up to length
three; six bastions are the longest acyclic route (`MaxBastions`), and a cyclic
one runs into the bound, which only keeps the state space finite. Three hops
are the first, one in the middle and the last; the loop treats all others
alike. Three lines let a revoked, a trusted and a CA line meet, and put two
entries with the same lookup beside a third. A window of one and a queue of
two with four chunks to copy fill both directions.
Three calls read every part of a host with one failure, or one repetition,
between them, and ask again after two failures; two paths put an ignored one before and behind one that counts.
In `command`, every text and every byte string of one or two characters, out of
those that some quoting treats specially, goes through every place an argument
can stand in; the escaping looks at one character at a time (a byte string at
the one before as well), so longer ones bring nothing new. The cost lets a
complete command surround an unusual argument, or an expansion that holds an
expansion, but not two unusual arguments, whose texts do not meet. Three bytes
through four places that hold one fill a direction from end to end, with one
byte under way at each place. In `host_text`, three characters suffice for
every neighbourhood of a bracket and a wildcard, and the ports stand on both
sides of 22 and of 65535.

Properties worth naming:

- `OffersBelongToHop`, `AskedInTurn`, `IdentitiesOnlyOnTheWire`: histories of
  every request sent, related to the settings of the server it went to.
- `ChainKeptAlive`, `AllSessionsEnd`: the bastions' sessions live through the
  channels opened on them, no longer and no shorter.
- `KeepsPromise`: `Connect` implements `TrustedPath`; the trusted path grows
  by one server at a time, in the order of the route.
- `RouteIsExpansion` says both what a chain is and that a cycle of first jumps
  never becomes one.
- `ReadsAsMeant`: nothing a caller puts into an argument is taken for syntax or
  lost, in single quotes, double quotes, `$'\xHH'` or substitutions.
- `NothingConfiguredIsLost`, `OnlyConfigured`: from the written configuration,
  through the reading and the planning, to the methods.
- `CarriesStreams`: each direction of a forward implements `ByteStream`, whatever
  becomes of the other one and of the future.
- `EndPassesOn`, `Ends`: half-closed connections, with full buffers in the
  opposite direction.
- `NoFalseMismatch`: the preferred algorithms serve their purpose: a server
  with several keys of which the file lists one is not taken for changed.
- `PlainExecIsComplete`, `RefusalEnds`: what a refused request does to the
  command it belongs to, and to others.

### Fairness

`connect`: weak fairness of the client's steps says that every await of the
client ends: `russh` answers, or the session is cut and the call fails. The
code has no timeout, so against a server that stays silent for ever `connect`
does not return; that is assumed away, not shown. Weak fairness of `End` says
that a `russh` task notices that its last sender is gone. No fairness is
assumed of any particular answer, nor of `Cut`.
`proxy_chain`: the loop is sequential code; weak fairness of `Next`.
`child_process`: the owner's futures are polled, a server that is connected
answers requests and `Close` and sends what it has, and the remote process goes
on when it can. `ReadingEnds` holds under `CanFinish` only: an owner that
writes more than the window before it reads can be stuck with a process that
writes too, which is why `Child::channel` exists. `Abandon` is not fair, since
nobody has to let go; `ReadingEnds` and `RefusalEnds` count it as an end of the
waiting, and `ChannelReleased` is about a `Child` that was read to `None`. It is also assumed that a
writer that waits for a window is woken when the channel ends.
`local_forward`: a future that is polled gets on with each direction that can
move, a program that reads goes on reading, and one that has seen the end of
its input ends its output. Nobody is bound to poll, write or read, or to end
for another reason, so `EndPassesOn` is about the readers that read and `Ends`
about ends that have come.

### Findings

1. `auth.rs:968`: without `includes_none`, the agent method of the first usable
   identity is lost when that identity also has a local method
   (`NothingSkipped`, run `auth_plan_skipped`).
2. `auth.rs:795`: without `includes_none` and with nothing to try, the plan is
   the method "none" all the same (`NoneOnlyIfIncluded`, run `auth_plan_none`).
3. `auth.rs:220`: after an agent's signature, a failure that no longer lists
   `publickey` does not stop the attempts, unlike for a local key
   (`RefusalStops`, run `connect_refusal`; `LocalRefusalStops` holds).

Two behaviours contradict no line of the repository, so no run refutes one, but a
caller may not expect them:

- `config.rs:774-784`: a `parse_openssh` that fails with `UserNotFound` has taken
  the `HostName`. Tried again on the same `HostParams`, with a target that names a
  user, it succeeds, and the name is the host as it was typed. The docs list the
  taking (`config.rs:190-193`), not that it happens on an error too.
  `PartsMakeHost` says that this is lost, and nothing else.
- `child.rs:22-26`, `276-284`: a `Child` dropped before it was read to `None`, or a
  `wait` that is cancelled, does not close its channel: the command goes on at the
  server with nobody to read it, until it ends or the connection does.

## 4. The proofs

All theorems are checked by TLAPS with Z3, Zenon and LS4, for every value of
the constants that meets the modules' assumptions.

**AuthMethodsProofs.** What the planning owes its caller, for lists of any
length. The planning filters sequences (`Filter`), and what a filter keeps is a
fact about its length; it is shown by the least counterexample, a set of lengths
with no least member being empty (`FilterPlaces`: what is kept is what passes, in
the order of the list, each place once). The plan is then cut in three parts: a
head, the methods of the agent, the local ones (`FromConfigParts`); each property
is shown of the parts and of the seams between them. `PlanIsSound`: every plan is
a sequence of well-formed methods of which none names a key the settings do not
list, and under `IdentitiesOnly` none offers what the agent holds.

**SettingsProofs.** `Inv == InputsInv /\ ConfInv /\ \A i : ReadInv(i)`. The properties
relate results to the configuration, but a call sees only what the calls before it
left. So `ConfInv` says that what is left is what was configured with values
missing, and that as long as no credentials have been returned all that makes them is
still there. Of a destination, the `HostName` goes with the first call that asks for
it and the `User` only with one that gets it, since a call fails only where there is
no `User` to take; so what later calls find is the configuration without its
`HostName` (`Unnamed`), until one succeeds. `ReadInv` says of each result that it was
made of such a remainder, of the first of its kind that it is what the whole
configuration gives, and of a destination after failed calls what `Unnamed` gives.
From it `OnlyConfigured`,
`NothingConfiguredIsLost` and `PartsMakeHost`, for any number of calls in any order.

The theorems about `AuthPlan` stand in the same module. `PlanInv`: a plan that
exists is that of the settings. From it and the lemmas of AuthMethodsProofs
`TypeCorrect`, `NoKeyOfTheAgent`, `Ordered` and `AsIs`, for any number of identities.

**ProxyChainProofs.** The assumption is `ExpansionAssumption`: `Expansion`
satisfies OpenSSH's rule, one equation per case, and is `NULL` where following
the first jumps does not end. The inductive invariant is `Inv == TypeOK /\
LoopInv`: what has been pushed, reversed, put behind the expansion of the list
still to be followed, is always the route of the target; and the bastions
pushed have users. It is needed because the chain comes out reversed and only
the end of the loop makes it a route. From it: `ReturnsTheExpansion`,
`FailureIsUnresolved`, `ReturnedChainLinks`. Concatenation
is wrapped in `Cat` there so that the provers meet it as an atom.

**ConnectProofs.** That the plan of every host is sound is `PlanIsSound` of
AuthMethodsProofs, so nothing is assumed of the planning; and `IterFollowsRoute`
says that for bastions of any number the first server and the items of
`Chain::iter` are the consecutive pairs of the route. `IInv == TypeOK /\ CallInv
/\ MethodInv` is inductive: the call has happened or nothing has; the index `m` is
in the plan while a method is performed, and its kind fits the await. On top,
each relative to `IInv`: `HopInv` (who has accepted, whom the handler is for),
`AskedInv` (every request in the history is justified), `LinksInv` (every
session below the current one is held), `TriedInv` (the methods before `m` have
been asked). The theorems are the six safety properties of the run `connect`
and `ConnectRefines`, the refinement of `TrustedPath`.

**KnownHostsProofs.** The assumptions say what files, keys and certificates are
made of; digests are naturals, so `LookupKey` is ordered (`LessTotal`). The
inductive invariant is `Inv == TypeOK /\ TablesInv /\ AnswerInv`: the two tables
hold the entries of the lines read so far that belong to them and no others,
they are sorted from the end of `Sort` on, and an answer is the one the checks
give. It is needed because the checks see the tables and the properties speak
of the file. `SearchFinds` is the binary search: in a sorted table the least
entry with the lookup starts a run that reaches every other (`Least`, by
well-foundedness), so the search finds a line if there is one. From it
`RevokedFound`, `ListedFound`, `AuthorityFound` and `PubkeysFound` turn each
search into a question about lines, and `RevocationWins`, `AcceptedIsVouched`,
`VouchedIsAccepted` and `MismatchMeansKnown` follow for files of any length,
whichever order the unstable sort leaves equal keys in.
`KnownFirst` and `NoFalseMismatch` are about the walk over the trusted table, call by
call. `ChoiceInv` says how far it has come: `Walked`, that every known algorithm
above the last one yielded is still in the table behind the position of the
iterator and none below it is; `Collecting`, that what has been yielded is the
known algorithms up to the last one, then what `config.key` has besides them up to
where its own iterator stands (`Laid`). The order is stated by ranks, how many
members of a set are at most this one, which needs no induction over a filter.
`WalkIsOver` says that an end of the walk at a CA or at the end of the table has
missed nothing. From the order, a server that still has a listed key shows one of a
known algorithm, and then a listed one (`SignsAsListed`).

The theorems about `HostText` stand in the same module, for texts, patterns and lists of
any length. The assumptions say that each record is what its text means: a user
without `@`, a host that is a name in brackets or not, a port without marks
(`TypedReading`), names without wildcards as `ssh` writes them (`WrittenReading`),
patterns whose port, if any, follows the last `]:` (`PatternReading`). The invariant
`TextInv` says that each result is what its step makes of the one before; the rest is
about the operators. A pattern is escaped by joining one `Block` for each character;
`BlocksGrow` and `InBlock` find the character a place of the escaped text belongs to.
The glob library is a recursive function over the places of its text (`MatchingExists`:
it has a value at each place), `Fits` cuts the name into pieces; `BlockMatches` shows, from
the last character back, that the places from which the blocks match are those from
which the rest of the name can be cut (`Suits`). Two stars side by side in the escaped
text are two side by side in the pattern (`EscapedParses`), so `GlobAsDocumented`: what
matches is what fits, and nothing for a pattern that cannot be parsed.
`BracketedPlaces` finds the last `]:` of `[host]:port` where it was put, hence
`MatchesAsDocumented`. For `KnownAsTyped`, `ParsesAsTyped` cuts what is typed at the
first `@` and the last `:`, `NewHandlerIs` takes off the brackets and nothing else, and
a name written for a host and a port is of no other (`BracketedInjective`,
`DecimalInjective`, `LiteralMatches`).

**ChildProcessProofs.** The inductive invariant has four parts. `Inv == TypeOK /\
MessagesOK /\ AskedInOrder /\ RefusalIsKnown /\ EndsForAReason /\ EndedIsGone`: a
refusal is read behind whatever was queued before it, so the invariant speaks of
every message in the queue, one that is a refusal being known to the server. That
the requests are asked in order bounds what `Head` and `Tail` can find. The types
include the bounds of the queue and of the window, for any sizes. `OutputInv`:
chunks are numbered by their place in the stream; what is queued is new and in
order, and nothing between what was read and what was written is missing while
somebody collects it, so the next chunk read is the next one missing. `ExitInv`:
an exit is told once, truthfully, and is queued or still to be sent until it is
read. An abandoned `Child` has collected a part and is shown no end, so nothing is
claimed of what is dropped behind it. `NoPtyAsked`: a call that wants no PTY has no request but its command. From
them `OutputComplete`, `StatusCorrect`, `PlainExecComplete` and
`ReadingEndsForAReason`; and `StreamsImplemented`: stdout and stderr each implement
`ByteStream`.

**CommandProofs.** The shell reads what was asked for, in texts of any length. The
assumptions say what calls are given (`CallAssumption`, `IngredientAssumption`,
`LevelAssumption`): strings of any bytes, any numbers, lists and nesting of any size,
with the three exceptions named in section 2. Reading is a fold over bytes; the proof
turns it into a relation, `Reads(r, text, q)`, which has a path of readers behind it
and so composes over concatenation without an induction over texts (`EveryPlace`,
an interval has no least place where a claim fails, and `Recursion`, a
recursion over an interval has a solution, are the only inductions). `Read` is one
operator per mode, and one lemma per mode and character class says what it does to a
reader in that place. On these stand four notions, each closed under what the code
does with it:

- `Carries(b, m, text, meaning)`: a reader in the place `m` under the stack `b` reads
  in the text the meaning, and is in the same place again;
- `StandsFor(surr, text, meaning)`: so it is between the quotes `surr` of any word, at
  any depth. `EachStands`: characters escaped one by one make a string;
- `Faithful(arg)`: what an argument writes between double quotes stands for what it
  means, and so does what it writes between single ones unless it needs double ones.
  One lemma per `Arg`; those made of others (`ListFaithful`) need that an argument
  asks for double quotes whenever an item does. `RawBytes` needs a state of its own,
  whether `$'` is open (`StrFaithful` to `ArgumentFaithful`);
- `IsPart(part)`: a part of a command is read as it is meant wherever an item may
  begin. One lemma per helper; names and numbers are the delicate ones, since the shell
  holds their characters back until it knows what they are.

The inductive invariant is `IInv == TextOK /\ HeldOK /\ SubOK`: the text is read as it
is meant and leaves the reader between two items; the expansion held is `Faithful`;
the parts of the one under construction are parts. The last two are what
`ReadsAsMeant` lacks: an expansion is written into quotes of another text, one that is
itself inside of another. An expansion of parts is `Faithful`
(`ExpansionFaithful`), and that is the step that closes the circle.

`CommandsAreComplete` (`Spec => []Grammatical`) is about the marks in what is read.
Judging them is a fold as well, made a relation in the same way: `Judged(r, marks, q)`.
`Leads(x, meaning, y)` says that a list of commands that stands as the builder's type
`x` says (`NeedProg`: between two commands or in one without a program; `NeedTerm`: in
one that has its program; `Completed`: between two) stands as `y` says after the
meaning, at any depth of substitution. Each helper leads from the type it is called on
to the type it returns, provided its arguments are `Silent`: whatever their bytes, they
leave a list where it is. Arguments made of text hold no mark (`ArgumentQuiet`); an
expansion holds many, and is silent because its own list is complete between the two
marks around it (`SubstSilent`): what the type `NeedTerm`, the only one with
`complete`, is for. The invariant `Grammar` says of the command that it stands where
its type says (`TopStands`), of the expansion held that it is silent (`HeldSilent`), and
of the one under construction that its parts lead from `NeedProg` to its type
(`SubLeads`). Of a text given to `new_unchecked`, which "does not check the syntax", it
needs that the caller's text is a list of commands (`RawAssumption`).

**LocalForwardProofs.** `Inv == TypeOK /\ ShutIsWhole /\ SeenIsGot /\ OkIsShut`.
`EndIsWhole` says nothing of a direction that is shut down but whose end nobody
has seen; so `ShutIsWhole` says that a direction is shut down only with its
input over and everything put, `SeenIsGot` that an end is seen only behind all
that was put, of a direction to which nothing more is put, and `OkIsShut` that
`Ok` comes with both. From it `TypeCorrect`, `ShownEndIsWhole` and
`CarriesTwoStreams`, the refinement of `ByteStream` by each direction, for any
number of bytes and any capacity. Each action is one of `Send`, `End`, `Deliver`,
`ShowEnd` and `Break` of its own direction, or leaves it as it is; of the other
direction it can at most be `Break`.

The type invariants of the modules are theorems (`TypeCorrect`) and are not
repeated in the runs.

Model-checked only: liveness (`Finishes`, `AllSessionsEnd`, `AcyclicReturns`,
`ReadingEnds`, `RefusalEnds`, `ChannelReleased`, `EndPassesOn`, `Ends`), which
needs `ENABLED`. Every safety property of a passing run is a theorem.

## 5. What is not modelled

- In `known_hosts.rs` the seven handlers that refuse the channels a server
  opens: they keep no state and call only the rejection.
- In `process/` signals sent (exits by a signal are modelled), `russh`'s own
  `AsyncRead` and `AsyncWrite` behind `async_reader` and `async_writer`, the
  size and modes of the PTY. What becomes of the channel of an abandoned `Child`
  is the server's and the process's matter; a single `read_next` that is cancelled
  and called again is left out: it awaits one message at a time, and the close.
- In `Shell`, what shells do to a NUL byte (it is a byte like others there), and
  quotes inside `${...}`, which belong to the caller's expression.
- In `local_forwarding/` the conversions to `Address`: they rearrange data.
- The parser of OpenSSH's configuration is the crate `ssh2_config`'s; the
  models start from what it answers for a name.
- Timeouts: the code has none, so a server that accepts and stays silent keeps
  `connect` waiting; see Fairness. A writer that goes on beside a reader that
  stopped on a refusal may wait for ever, too: `ReadingEnds` is about commands
  without a refusal, `RefusalEnds` about the reader alone.
- `error.rs`, `lib.rs`: wording and re-exports.

## 6. Plan

Done: every component but the two without behaviour, and a theorem for every safety
property that is checked. What is left is what sections 4 and 5 leave out: liveness,
and the parts of the code listed there.
