------------------------------ MODULE Connect ------------------------------
(***************************************************************************)
(* Connection::connect (connect.rs) and the authentication it performs on  *)
(* every server of the chain (auth.rs), against servers, an agent and a    *)
(* network that answer as they like.                                       *)
(*                                                                         *)
(* Servers are dialled in hops 1, 2, ...; the russh session of hop i is    *)
(* named i.  A session's task runs as long as somebody can still send to   *)
(* it: a Handle, a channel opened on it, or the session of the next hop,   *)
(* which runs over such a channel.  Each await of the code is an action    *)
(* whose answer is chosen by the environment.                              *)
(***************************************************************************)
EXTENDS AuthMethods, Chain

CONSTANTS
    Key,          \* public keys
    PublicOf,     \* the public key a key or certificate file holds
    Identity,     \* per agent socket, what request_identities() lists
    Calls         \* the chains connect may be called with

IdentityKind == {"PublicKey", "UserCert", "HostCert"}

AgentIdentity == [key : Key, kind : IdentityKind]

ASSUME HostAssumption == \A h \in Host : h.auth \in Auth
ASSUME HostNullAssumption == NULL \notin Host /\ NULL \notin Seq(Host)
ASSUME CallsAssumption == Calls \subseteq Chains
ASSUME PublicOfAssumption == PublicOf \in [File -> Key]
ASSUME KeyAssumption == NULL \notin Key
ASSUME IdentityAssumption == Identity \in [Sock -> Seq(AgentIdentity)]

VARIABLES
    chain,      \* the chain connect was called with
    pc,         \* the await connect is at
    hop,        \* the hop being connected
    ctx,        \* the host make_handler was last called for
    m,          \* index of the method in the plan of the hop
    ids,        \* agent identities still to try
    request,    \* the authentication request on the wire, or NULL
    reply,      \* the last reply on this hop and what asked for it, or NULL
    error,      \* the Err returned, or NULL
    handle,     \* the loop's `handle`: a session, or 0
    channel,    \* the session `channel` was opened on, or 0
    fresh,      \* the handle inside connect / connect_stream, or 0
    open,       \* sessions whose task runs
    lost,       \* whether the network has cut a session
    accepted,   \* hosts that have answered Success, in order
    asked       \* every authentication request sent

call   == <<chain, hop, ctx>>
auths  == <<m, ids, request, reply>>
links  == <<handle, channel, fresh, open, lost>>
trail  == <<accepted, asked>>
vars   == <<pc, error, call, auths, links, trail>>

-----------------------------------------------------------------------------
\* Mutant: every hop is dialled to the server the item comes from.
HopFrom(i) == IF i = 1 THEN First(chain) ELSE Items(chain)[i - 1].from

\* The server of hop i: `first`, then bastion.to of each item.
HopHost(i) == IF i = 1 THEN First(chain) ELSE Items(chain)[i - 1].to

Hops == Len(chain.bastions) + 1

\* Mutant: the settings of the first server are used for every hop.
PlanOfFirst == from_config(First(chain).auth)

\* AuthMethods::from_config(&host.auth).
Plan == from_config(HopHost(hop).auth)

\* auth::Error, the three failures of loading files being one here, and the
\* errors of connect, which hold one of those in AuthError.
AuthErrors == {"Load", "PubkeyMismatch", "Connection", "ConnectAgent", "RequestAgent",
               "PubkeyUnsupported", "MultiStep"}

Errors == {"MakeHandler", "Establish", "ProxyJump", "AuthFailure"} \cup AuthErrors

\* Answers to a request.  A Failure may list publickey among the methods that
\* can continue or not, and may be a partial success or not.
Replies == {"Success", "Retry", "Unsupported", "Partial", "PartialUnsupported", "Declined"}

Init ==
    /\ chain = [target |-> NULL, bastions |-> <<>>]
    /\ pc = "idle"
    /\ hop = 0 /\ ctx = NULL
    /\ m = 0 /\ ids = <<>> /\ request = NULL /\ reply = NULL
    /\ error = NULL
    /\ handle = 0 /\ channel = 0 /\ fresh = 0 /\ open = {} /\ lost = FALSE
    /\ accepted = <<>> /\ asked = {}

\* Mutant: the channel to the next server outlives the error.
FailKeepsChannel(e) ==
    /\ pc' = "failed"
    /\ error' = e
    /\ request' = NULL
    /\ handle' = 0 /\ channel' = channel /\ fresh' = 0
    /\ UNCHANGED <<call, m, ids, reply, open, lost, trail>>

\* `?`: the locals are dropped and the error is returned.
Fail(e) ==
    /\ pc' = "failed"
    /\ error' = e
    /\ request' = NULL
    /\ handle' = 0 /\ channel' = 0 /\ fresh' = 0
    /\ UNCHANGED <<call, m, ids, reply, open, lost, trail>>

-----------------------------------------------------------------------------
\* The application calls connect.
Call(c) ==
    /\ pc = "idle"
    /\ chain' = c
    /\ hop' = 1
    /\ pc' = "handler"
    /\ UNCHANGED <<ctx, error, auths, links, trail>>

\* channel_open_direct_tcpip on the handle of the hop before.
OpenChannel ==
    /\ pc = "channel"
    /\ \/ /\ handle \in open
          /\ channel' = handle
          /\ pc' = "handler"
          /\ UNCHANGED <<error, call, auths, handle, fresh, open, lost, trail>>
       \/ Fail("ProxyJump")

MakeHandler ==
    /\ pc = "handler"
    /\ \/ /\ ctx' = HopHost(hop)
          /\ pc' = "establish"
          /\ UNCHANGED <<chain, hop, error, auths, links, trail>>
       \/ Fail("MakeHandler")

\* russh connects, over TCP for the first hop and over the channel for the
\* others, and asks the handler in ctx about the host key.
Establish ==
    /\ pc = "establish"
    /\ \/ /\ hop > 1 => channel \in open
          /\ open' = open \cup {hop}
          /\ fresh' = hop
          /\ channel' = 0
          /\ m' = 1
          /\ reply' = NULL
          /\ pc' = "method"
          /\ UNCHANGED <<error, call, ids, request, handle, lost, trail>>
       \/ Fail("Establish")

-----------------------------------------------------------------------------
\* Sends one authentication request; `key` is the public key it offers.
Send(by, key) ==
    /\ request' = [by |-> by, key |-> key]
    /\ asked' = asked \cup {[hop |-> hop, method |-> Plan[m], key |-> key, ctx |-> ctx]}
    /\ pc' = "reply"
    /\ UNCHANGED <<error, call, m, reply, links, accepted>>

\* Mutant: the same method again.
SameMethod ==
    /\ m' = m
    /\ pc' = "method"

\* The end of perform with Ok(Failure): the next method of the plan.
NextMethod ==
    /\ m' = m + 1
    /\ pc' = "method"

Mismatch(method) ==
    method.cert # NULL /\ PublicOf[method.cert] # PublicOf[method.key]

\* Mutant: the Failure of a bastion is not looked at.
ExhaustedGoesOn ==
    /\ pc = "method"
    /\ m > Len(Plan)
    /\ \/ /\ hop < Hops
          /\ hop' = hop + 1
          /\ handle' = fresh /\ fresh' = 0
          /\ pc' = "channel"
          /\ UNCHANGED <<chain, ctx, error, auths, channel, open, lost, trail>>
       \/ hop = Hops /\ Fail("AuthFailure")

\* auth(): the plan is used up.
Exhausted ==
    /\ pc = "method"
    /\ m > Len(Plan)
    /\ Fail("AuthFailure")

\* The match of auth() on the method to be performed.
Dispatched(by) == pc = "method" /\ m <= Len(Plan) /\ Plan[m].by = by

\* Authenticator::none.
PerformNone ==
    /\ Dispatched("None")
    /\ Send("None", NULL)
    /\ UNCHANGED ids

\* Mutant: every agent method goes through all identities.
ConnectAgentListsAll ==
    /\ Dispatched("Agent")
    /\ \/ pc' = "list" /\ UNCHANGED <<error, call, auths, links, trail>>
       \/ Fail("ConnectAgent")

\* load_agent finds nobody behind the socket, or all_identities no answer.
AgentFails == Fail("ConnectAgent")

\* Authenticator::load_agent, then the match on the kind.
ConnectAgent ==
    /\ Dispatched("Agent")
    /\ \/ /\ pc' = IF Plan[m].kind = "Full" THEN "list" ELSE "agent"
          /\ UNCHANGED <<error, call, auths, links, trail>>
       \/ AgentFails

\* A file is gone, encrypted or no user certificate by the time it is loaded.
LoadFails == Fail("Load")

\* The session goes while an RSA key waits for the hashes the server supports.
FindHashAlgFails == Fail("Connection")

\* Mutant: a file that does not load is passed over.
PerformFilesSkipping ==
    /\ Dispatched("Local") \/ pc = "agent"
    /\ \/ NextMethod /\ UNCHANGED <<error, call, ids, request, reply, links, trail>>
       \/ Mismatch(Plan[m]) /\ Fail("PubkeyMismatch")
       \/ /\ ~Mismatch(Plan[m])
          /\ Send(Plan[m].by, PublicOf[Plan[m].key]) /\ UNCHANGED ids

\* local_priv_key, local_cert and their agent counterparts: the files are
\* loaded now, whatever they looked like when the plan was made, a certificate
\* must hold the public key of the key file, and only then is anything sent.
PerformFiles ==
    /\ Dispatched("Local") \/ pc = "agent"
    /\ \/ LoadFails
       \/ Mismatch(Plan[m]) /\ Fail("PubkeyMismatch")
       \/ /\ ~Mismatch(Plan[m])
          /\ \/ Send(Plan[m].by, PublicOf[Plan[m].key]) /\ UNCHANGED ids
             \/ FindHashAlgFails

\* all_in_agent asks the agent what it holds.
ListIdentities ==
    /\ pc = "list"
    /\ \/ /\ ids' = Identity[Plan[m].agent]
          /\ pc' = "identity"
          /\ UNCHANGED <<error, call, m, request, reply, links, trail>>
       \/ AgentFails

\* The next identity of all_in_agent; a host certificate is passed over.
NextIdentity ==
    /\ pc = "identity"
    /\ \/ /\ ids = <<>>
          /\ NextMethod
          /\ UNCHANGED <<error, call, ids, request, reply, links, trail>>
       \/ /\ ids # <<>>
          /\ Head(ids).kind = "HostCert"
          /\ ids' = Tail(ids)
          /\ UNCHANGED <<pc, error, call, m, request, reply, links, trail>>
       \/ /\ ids # <<>>
          /\ Head(ids).kind # "HostCert"
          /\ \/ ids' = Tail(ids) /\ Send("Agent", Head(ids).key)
             \/ FindHashAlgFails

-----------------------------------------------------------------------------
\* Mutant: signer_result for every reply.
SignerVerdict(by, r) ==
    CASE r = "Success" -> "Success"
      [] r \in {"Retry", "Declined", "Unsupported"} -> "Failure"
      [] OTHER -> "MultiStep"

\* The results of AuthResult::try_from and of signer_result, by reply.
Verdict(by, r) ==
    CASE r = "Success" -> "Success"
      [] r = "Retry" -> "Failure"
      [] r = "Declined" -> "Failure"
      [] r = "Partial" -> "MultiStep"
      [] r = "Unsupported" -> IF by = "Agent" THEN "Failure" ELSE "PubkeyUnsupported"
      [] r = "PartialUnsupported" -> IF by = "Agent" THEN "MultiStep" ELSE "PubkeyUnsupported"

\* Mutant: `let handle` inside the loop shadows the loop's handle.
HopShadowed ==
    /\ accepted' = Append(accepted, HopHost(hop))
    /\ handle' = IF hop = 1 THEN fresh ELSE handle
    /\ fresh' = 0
    /\ pc' = IF hop = Hops THEN "connected" ELSE "channel"
    /\ hop' = IF hop = Hops THEN hop ELSE hop + 1

\* connect / connect_stream return the fresh handle; it replaces the loop's,
\* and the handle of the hop before is dropped.
HopDone ==
    /\ accepted' = Append(accepted, HopHost(hop))
    /\ handle' = fresh
    /\ fresh' = 0
    /\ pc' = IF hop = Hops THEN "connected" ELSE "channel"
    /\ hop' = IF hop = Hops THEN hop ELSE hop + 1

\* The server, or the agent asked for a signature, answers.
Answer(r) ==
    LET verdict == Verdict(request.by, r)
    IN  /\ pc = "reply"
        /\ hop \in open
        /\ r = "Declined" => request.by = "Agent"
        /\ \/ /\ verdict = "Success"
              /\ HopDone
              /\ request' = NULL
              /\ ids' = <<>>
              /\ UNCHANGED <<chain, ctx, m, reply, error, channel, open, lost, asked>>
           \/ /\ verdict = "Failure"
              /\ reply' = [by |-> request.by, result |-> r]
              /\ request' = NULL
              /\ IF Plan[m].kind = "Full"
                 THEN pc' = "identity" /\ UNCHANGED m
                 ELSE NextMethod
              /\ UNCHANGED <<error, call, ids, links, trail>>
           \/ verdict \notin {"Success", "Failure"} /\ Fail(verdict)

\* The request has no answer: the session is gone, or the agent is.
NoAnswer ==
    /\ pc = "reply"
    /\ Fail(IF request.by = "Agent" THEN "RequestAgent" ELSE "Connection")

-----------------------------------------------------------------------------
\* The Connection is disconnected: the target's session ends.
Disconnect ==
    /\ pc = "connected"
    /\ pc' = "disconnected"
    /\ open' = open \ {hop}
    /\ UNCHANGED <<error, call, auths, handle, channel, fresh, lost, trail>>

\* The Connection is dropped.
Drop ==
    /\ pc \in {"connected", "disconnected"}
    /\ handle # 0
    /\ pc' = "disconnected"
    /\ handle' = 0
    /\ UNCHANGED <<error, call, auths, channel, fresh, open, lost, trail>>

\* The network, or the server, cuts a session.
Cut(i) ==
    /\ i \in open
    /\ open' = open \ {i}
    /\ lost' = TRUE
    /\ UNCHANGED <<pc, error, call, auths, handle, channel, fresh, trail>>

\* Somebody can still send to the session.
Held(i) == i \in {handle, channel, fresh} \/ i + 1 \in open

\* The session's task ends: nobody holds it, or the session below is gone.
End(i) ==
    /\ i \in open
    /\ ~Held(i) \/ (i > 1 /\ i - 1 \notin open)
    /\ open' = open \ {i}
    /\ UNCHANGED <<pc, error, call, auths, handle, channel, fresh, lost, trail>>

Client ==
    \/ OpenChannel \/ MakeHandler \/ Establish
    \/ Exhausted \/ PerformNone \/ ConnectAgent \/ PerformFiles
    \/ ListIdentities \/ NextIdentity
    \/ (\E r \in Replies : Answer(r)) \/ NoAnswer

Next ==
    \/ \E c \in Calls : Call(c)
    \/ Client
    \/ Disconnect \/ Drop
    \/ \E i \in open : Cut(i) \/ End(i)

Fairness == WF_vars(Client) /\ WF_vars(\E i \in open : End(i))

Spec == Init /\ [][Next]_vars

FairSpec == Spec /\ Fairness

-----------------------------------------------------------------------------
By == {"None", "Local", "Agent"}

Request == [by : By, key : Maybe(Key)]

\* A request in the history: with the method of the plan it performs and the
\* host the handler was made for.
Asked == [hop : 1..Hops, method : Methods, key : Maybe(Key), ctx : Maybe(Host)]

TypeOK ==
    /\ pc = "idle" => accepted = <<>> /\ asked = {} /\ open = {}
    /\ pc # "idle" => chain \in Chains /\ hop \in 1..Hops
    /\ pc \in {"idle", "channel", "handler", "establish", "method", "agent", "list",
               "identity", "reply", "connected", "disconnected", "failed"}
    /\ ctx \in Maybe(Host)
    /\ m \in Nat
    /\ ids \in Seq(AgentIdentity)
    /\ request \in Maybe(Request)
    /\ reply \in Maybe([by : By, result : Replies])
    /\ error \in Maybe(Errors)
    /\ {handle, channel, fresh} \subseteq 0..Hops
    /\ open \subseteq 1..Hops
    /\ lost \in BOOLEAN
    /\ accepted \in Seq(Host)
    /\ asked \subseteq Asked

\* The history of requests: every one went to a server whose host key was put
\* before the handler made for that very host, offered a method of that host's
\* own plan, and, for a certificate, one that holds the key it is signed with.
\* Nothing configured for one server of the chain reaches another.
OffersBelongToHop ==
    \A a \in asked :
        /\ a.ctx = HopHost(a.hop)
        /\ \E i \in DOMAIN from_config(HopHost(a.hop).auth) : from_config(HopHost(a.hop).auth)[i] = a.method
        /\ a.method.cert # NULL => PublicOf[a.method.cert] = a.key

\* IdentitiesOnly, on the wire: a key the configuration does not list is never
\* offered to that server, whatever the agent holds.
IdentitiesOnlyOnTheWire ==
    \A a \in asked :
        LET auth == HopHost(a.hop).auth
        IN  auth.identities_only =>
                a.key \in {PublicOf[Identities(auth)[i]] : i \in DOMAIN Identities(auth)} \cup {NULL}

\* A server is asked only after all servers before it have accepted: credentials
\* for hop i are never sent before the tunnel they travel through is trusted.
AskedInTurn ==
    \A a \in asked : a.hop <= Len(accepted) + 1

\* The doc of Connection (connect.rs:266-268): the bastions' sessions live on
\* although their handles are dropped, each through the channel opened on it, so
\* a connection the network left alone is returned with its whole chain open.
ChainKeptAlive ==
    pc = "connected" /\ ~lost => open = 1..Hops

\* AuthFailure, as opposed to AuthError, says that every method of the plan was
\* put to the server and refused: none was skipped over a file that did not
\* load, an agent that did not answer or a certificate that did not match.
FailureIsExhaustion ==
    pc = "failed" /\ error = "AuthFailure" =>
        \A i \in DOMAIN Plan :
            Plan[i].kind = "Full" \/ \E a \in asked : a.hop = hop /\ a.method = Plan[i]

\* "Ok(AuthResult::Failure) means failed, but you can try the next pubkey
\* authentication" (auth.rs:444-445, 487-488, 1166-1167): after a reply that no
\* longer lists publickey, or a partial success, nothing more is asked.
RefusalStops ==
    request # NULL /\ reply # NULL => reply.result \in {"Retry", "Declined"}

\* The same for the replies to "none" and to a local key, which go through
\* AuthResult::try_from (auth.rs:63-82).
LocalRefusalStops ==
    request # NULL /\ reply # NULL /\ reply.by # "Agent" => reply.result \in {"Retry", "Declined"}

\* connect comes back: with a connection or with an error.
Finishes == pc # "idle" ~> pc \in {"connected", "disconnected", "failed"}

\* Nothing is leaked: after an error, a disconnect or the drop of the
\* Connection every session opened on the way ends.
AllSessionsEnd == pc \in {"failed", "disconnected"} ~> open = {}

-----------------------------------------------------------------------------
\* The promise of TrustedPath, kept by connect.
Promise == INSTANCE TrustedPath WITH
    Server  <- Host,
    NoRoute <- NULL,
    route   <- IF pc = "idle" THEN NULL ELSE Route(chain),
    path    <- accepted,
    outcome <- CASE pc \in {"connected", "disconnected"} -> "connected"
                 [] pc = "failed" -> "failed"
                 [] OTHER -> "pending"

\* Every step of connect is a step of the promise or changes nothing in it.
KeepsPromise == Promise!Spec
=============================================================================
