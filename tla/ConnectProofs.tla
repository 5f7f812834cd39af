--------------------------- MODULE ConnectProofs ---------------------------
(***************************************************************************)
(* The safety properties of Connect for every value of its constants: any  *)
(* chain of servers with any settings, any files and any agent.  The plan  *)
(* of a server is the one from_config makes of its settings; what is used  *)
(* of it is PlanIsSound, proved in AuthMethodsProofs.                      *)
(*                                                                         *)
(* First what Chain::iter computes, for chains of any length; then the     *)
(* inductive invariant; then what connect owes the servers of the chain,   *)
(* the history of requests, the tunnel of sessions and the refinement of   *)
(* TrustedPath, each by an invariant inductive relative to the first one.  *)
(***************************************************************************)
EXTENDS Connect, AuthMethodsProofs

-----------------------------------------------------------------------------
(***************************************************************************)
(* The chain: the two reversals of the code and of the doc agree.          *)
(***************************************************************************)
\* The route of a chain has one server more than the chain has bastions, and
\* all of them are servers.
LEMMA RouteLength ==
    ASSUME NEW c \in Chains
    PROVE  /\ Route(c) \in Seq(Host)
           /\ Len(Route(c)) = Len(c.bastions) + 1
<1> DEFINE b == c.bastions
<1>1. b \in Seq(Host) /\ c.target \in Host
  BY DEF Chains
<1>2. Reverse(b) \in Seq(Host) /\ Len(Reverse(b)) = Len(b)
  BY <1>1 DEF Reverse
<1>3. QED
  BY <1>1, <1>2 DEF Route

\* The servers of the route: the bastions from the last to the first, then the
\* target.
LEMMA RouteElements ==
    ASSUME NEW c \in Chains, NEW i \in 1..(Len(c.bastions) + 1)
    PROVE  Route(c)[i] = IF i <= Len(c.bastions)
                         THEN c.bastions[Len(c.bastions) - i + 1]
                         ELSE c.target
<1> DEFINE b == c.bastions
<1>1. b \in Seq(Host) /\ c.target \in Host
  BY DEF Chains
<1>2. Reverse(b) \in Seq(Host) /\ Len(Reverse(b)) = Len(b)
  BY <1>1 DEF Reverse
<1>3. \A k \in 1..Len(b) : Reverse(b)[k] = b[Len(b) - k + 1]
  BY <1>1 DEF Reverse
<1>4. QED
  BY <1>1, <1>2, <1>3 DEF Route

\* Chain::iter (config.rs:649-664) yields the route: its first half is the first
\* server, and each item leads from one server of the route to the next.
THEOREM IterFollowsRoute ==
    ASSUME NEW c \in Chains
    PROVE  /\ First(c) = Route(c)[1]
           /\ DOMAIN Items(c) = 1..Len(c.bastions)
           /\ \A k \in 1..Len(c.bastions) :
                  /\ Items(c)[k].from = Route(c)[k]
                  /\ Items(c)[k].to = Route(c)[k + 1]
<1> DEFINE b == c.bastions
<1>1. b \in Seq(Host) /\ Len(b) \in Nat
  BY DEF Chains
<1>2. First(c) = Route(c)[1]
  <2>1. CASE b = <<>>
    BY <2>1, <1>1, RouteElements DEF First
  <2>2. CASE b # <<>>
    <3>1. Len(b) >= 1
      BY <2>2, <1>1
    <3>2. Route(c)[1] = b[Len(b)]
      BY <3>1, <1>1, RouteElements
    <3>3. QED
      BY <2>2, <3>2 DEF First
  <2>3. QED
    BY <2>1, <2>2
<1>3. ASSUME NEW k \in 1..Len(b)
      PROVE  Items(c)[k].from = Route(c)[k] /\ Items(c)[k].to = Route(c)[k + 1]
  <2>1. Route(c)[k] = b[Len(b) - k + 1]
    BY <1>1, RouteElements
  <2>2. CASE k < Len(b)
    <3>1. Route(c)[k + 1] = b[Len(b) - k]
      <4>1. k + 1 \in 1..(Len(b) + 1) /\ k + 1 <= Len(b)
        BY <2>2, <1>1
      <4>2. Route(c)[k + 1] = b[Len(b) - (k + 1) + 1]
        BY <4>1, RouteElements
      <4>3. QED
        BY <4>2, <1>1
    <3>2. QED
      BY <2>1, <2>2, <3>1 DEF Items
  <2>3. CASE k = Len(b)
    <3>1. Route(c)[k + 1] = c.target
      BY <2>3, <1>1, RouteElements
    <3>2. Len(b) - k + 1 = 1
      BY <2>3, <1>1
    <3>3. QED
      BY <2>1, <2>3, <3>1, <3>2 DEF Items
  <2>4. QED
    BY <1>1, <2>2, <2>3
<1>4. QED
  BY <1>2, <1>3 DEF Items

-----------------------------------------------------------------------------
(***************************************************************************)
(* The inductive invariant, in parts.                                      *)
(***************************************************************************)
Authenticating == pc \in {"method", "agent", "list", "identity", "reply"}

Dialling == pc \in {"channel", "handler", "establish"} \/ Authenticating

\* Before the call nothing has happened; after it the chain is one of Calls.
CallInv ==
    /\ pc = "idle" =>
           /\ chain.bastions = <<>> /\ hop = 0 /\ reply = NULL /\ request = NULL
           /\ handle = 0 /\ channel = 0 /\ fresh = 0 /\ open = {}
           /\ accepted = <<>> /\ asked = {}
    /\ pc # "idle" => chain \in Calls /\ hop \in 1..Hops

\* Which method is being performed, and how far it has got.
MethodInv ==
    /\ pc = "method" => m >= 1
    /\ pc \in {"agent", "list", "identity", "reply"} => m \in DOMAIN Plan
    /\ pc = "agent" => Plan[m].by = "Agent" /\ Plan[m].kind # "Full"
    /\ pc \in {"list", "identity"} => Plan[m].kind = "Full"
    /\ pc = "reply" => request \in Request

IInv == TypeOK /\ CallInv /\ MethodInv

-----------------------------------------------------------------------------
\* The server of a hop is the one the route names there.
LEMMA HopHostIsRoute ==
    ASSUME chain \in Chains, NEW i \in 1..Hops
    PROVE  HopHost(i) = Route(chain)[i] /\ HopHost(i) \in Host
<1>1. HopHost(i) = Route(chain)[i]
  BY IterFollowsRoute DEF HopHost, Hops, Chains
<1>2. chain.bastions \in Seq(Host) /\ chain.target \in Host
  BY DEF Chains
<1>3. HopHost(i) \in Host
  BY <1>1, <1>2, RouteElements DEF Hops
<1>4. QED
  BY <1>1, <1>3

\* The plan of a hop is made of the settings of its server.
LEMMA HopPlanIsSound ==
    ASSUME chain \in Chains, NEW i \in 1..Hops
    PROVE  Sound(from_config(HopHost(i).auth), HopHost(i).auth)
BY HopHostIsRoute, HostAssumption, PlanIsSound

\* The plan of the current hop is a list of methods with the paths they need.
LEMMA PlanIsWellFormed ==
    ASSUME chain \in Calls, hop \in 1..Hops
    PROVE  Plan \in Seq(Methods) /\ \A i \in DOMAIN Plan : WellFormed(Plan[i])
<1>1. chain \in Chains
  BY CallsAssumption
<1>2. Sound(Plan, HopHost(hop).auth)
  BY <1>1, HopPlanIsSound DEF Plan
<1>3. QED
  BY <1>2 DEF Sound

\* Servers and plans are functions of the chain and the hop.
LEMMA PlanStable ==
    ASSUME UNCHANGED chain
    PROVE  /\ Hops' = Hops
           /\ \A i : HopHost(i)' = HopHost(i)
           /\ hop' = hop => Plan' = Plan
BY DEF Hops, HopHost, Plan, First, Items

\* The bastions of a chain are counted.
LEMMA HopsType ==
    ASSUME TypeOK, CallInv
    PROVE  Hops \in Nat \ {0}
BY DEF TypeOK, CallInv, Hops, Chains

\* The initial states satisfy the invariant.
LEMMA InitInv == Init => IInv
<1> SUFFICES ASSUME Init PROVE IInv
  OBVIOUS
<1>1. chain.bastions = <<>> /\ Hops = 1
  BY DEF Init, Hops
<1>2. TypeOK
  <2>1. /\ {handle, channel, fresh} \subseteq 0..Hops
        /\ open \subseteq 1..Hops
        /\ m \in Nat
    BY <1>1 DEF Init
  <2>2. ids \in Seq(AgentIdentity) /\ accepted \in Seq(Host) /\ asked \subseteq Asked
    BY DEF Init
  <2>3. /\ ctx \in Maybe(Host) /\ error \in Maybe(Errors)
        /\ request \in Maybe(Request) /\ reply \in Maybe([by : By, result : Replies])
    BY DEF Init, Maybe
  <2>4. lost \in BOOLEAN
    BY Zenon DEF Init
  <2>5. QED
    BY <2>1, <2>2, <2>3, <2>4 DEF Init, TypeOK
<1>3. CallInv
  BY <1>1 DEF Init, CallInv
<1>4. MethodInv
  BY DEF Init, MethodInv
<1>5. QED
  BY <1>2, <1>3, <1>4 DEF IInv

\* A `?` keeps the invariant.
LEMMA FailInv ==
    ASSUME IInv, pc # "idle", NEW e \in Errors, Fail(e)
    PROVE  IInv'
<1>1. UNCHANGED chain /\ hop' = hop
  BY DEF Fail, call
<1>2. Hops' = Hops /\ Plan' = Plan
  BY <1>1, PlanStable
<1>3. Hops \in Nat \ {0}
  BY HopsType DEF IInv
<1>4. Asked' = Asked
  BY <1>2 DEF Asked
<1>5. TypeOK'
  BY <1>1, <1>2, <1>3, <1>4 DEF IInv, TypeOK, Fail, call, links, trail, Maybe
<1>6. CallInv' /\ MethodInv'
  BY <1>1, <1>2 DEF IInv, CallInv, MethodInv, Fail, call
<1>7. QED
  BY <1>5, <1>6 DEF IInv

\* So does sending the request of a method of the plan.
LEMMA SendInv ==
    ASSUME IInv, pc # "idle", m \in DOMAIN Plan,
           NEW by \in By, NEW key \in Maybe(Key),
           Send(by, key), ids' \in Seq(AgentIdentity)
    PROVE  IInv'
<1>1. UNCHANGED chain /\ hop' = hop
  BY DEF Send, call
<1>2. Hops' = Hops /\ Plan' = Plan /\ Asked' = Asked
  BY <1>1, PlanStable DEF Asked
<1>3. Plan[m] \in Methods
  BY PlanIsWellFormed DEF IInv, CallInv
<1>4. request' \in Request
  BY DEF Send, Request
<1>5. [hop |-> hop, method |-> Plan[m], key |-> key, ctx |-> ctx] \in Asked
  BY <1>3 DEF IInv, CallInv, TypeOK, Asked
<1>6. TypeOK'
  BY <1>1, <1>2, <1>4, <1>5 DEF IInv, TypeOK, CallInv, Send, call, links, Maybe
<1>7. QED
  BY <1>1, <1>2, <1>4, <1>6 DEF IInv, CallInv, MethodInv, Send, call

\* The answers of Verdict are Success, Failure or an error.
LEMMA VerdictType ==
    ASSUME NEW by, NEW r \in Replies
    PROVE  Verdict(by, r) \in {"Success", "Failure"} \cup Errors
BY DEF Verdict, Replies, Errors, AuthErrors

\* Calling connect.
LEMMA CallStep ==
    ASSUME IInv, NEW c \in Calls, Call(c)
    PROVE  IInv'
<1>1. /\ chain' = c /\ chain' \in Chains /\ hop' = 1 /\ pc' = "handler" /\ pc = "idle"
      /\ UNCHANGED <<ctx, error, m, ids, request, reply, handle, channel, fresh, open, lost,
                     accepted, asked>>
  BY CallsAssumption DEF Call, auths, links, trail
<1>2. Hops' \in Nat \ {0}
  BY <1>1 DEF Hops, Chains
<1>3. TypeOK'
  BY <1>1, <1>2 DEF IInv, TypeOK, CallInv
<1>4. CallInv' /\ MethodInv'
  BY <1>1, <1>2 DEF CallInv, MethodInv
<1>5. QED
  BY <1>3, <1>4 DEF IInv

\* The steps before the authentication of a hop.
LEMMA DialStep ==
    ASSUME IInv, OpenChannel \/ MakeHandler \/ Establish
    PROVE  IInv'
<1>1. /\ pc # "idle" /\ chain \in Calls /\ chain \in Chains /\ hop \in 1..Hops
      /\ Hops \in Nat \ {0}
  BY HopsType DEF OpenChannel, MakeHandler, Establish, IInv, TypeOK, CallInv
<1>2. ASSUME UNCHANGED chain
      PROVE  Hops' = Hops /\ Asked' = Asked
  BY <1>2, PlanStable DEF Asked
<1>3. CASE OpenChannel
  <2>1. CASE Fail("ProxyJump")
    BY <1>1, <2>1, FailInv DEF Errors, AuthErrors
  <2>2. CASE /\ handle \in open /\ channel' = handle /\ pc' = "handler"
             /\ UNCHANGED <<error, call, auths, handle, fresh, open, lost, trail>>
    BY <1>1, <1>2, <2>2 DEF IInv, TypeOK, CallInv, MethodInv, call, auths, trail
  <2>3. QED
    BY <1>3, <2>1, <2>2 DEF OpenChannel
<1>4. CASE MakeHandler
  <2>1. CASE Fail("MakeHandler")
    BY <1>1, <2>1, FailInv DEF Errors, AuthErrors
  <2>2. CASE /\ ctx' = HopHost(hop) /\ pc' = "establish"
             /\ UNCHANGED <<chain, hop, error, auths, links, trail>>
    <3>1. HopHost(hop) \in Host
      BY <1>1, HopHostIsRoute
    <3>2. QED
      BY <1>1, <1>2, <2>2, <3>1
         DEF IInv, TypeOK, CallInv, MethodInv, auths, links, trail, Maybe
  <2>3. QED
    BY <1>4, <2>1, <2>2 DEF MakeHandler
<1>5. CASE Establish
  <2>1. CASE Fail("Establish")
    BY <1>1, <2>1, FailInv DEF Errors, AuthErrors
  <2>2. CASE /\ open' = open \cup {hop} /\ fresh' = hop /\ channel' = 0 /\ m' = 1
             /\ reply' = NULL /\ pc' = "method"
             /\ UNCHANGED <<error, call, ids, request, handle, lost, trail>>
    BY <1>1, <1>2, <2>2 DEF IInv, TypeOK, CallInv, MethodInv, call, trail, Maybe
  <2>3. QED
    BY <1>5, <2>1, <2>2 DEF Establish
<1>6. QED
  BY <1>3, <1>4, <1>5

\* The steps of the authentication that send a request, or none.
LEMMA PerformStep ==
    ASSUME IInv,
           Exhausted \/ PerformNone \/ ConnectAgent \/ PerformFiles \/ ListIdentities \/ NextIdentity
    PROVE  IInv'
<1> USE DEF IInv
<1>1. /\ pc # "idle" /\ chain \in Calls /\ chain \in Chains /\ hop \in 1..Hops
      /\ Hops \in Nat \ {0}
  BY HopsType DEF Exhausted, PerformNone, ConnectAgent, PerformFiles, Dispatched,
                  ListIdentities, NextIdentity, TypeOK, CallInv
<1>2. ASSUME UNCHANGED chain, UNCHANGED hop
      PROVE  Hops' = Hops /\ Asked' = Asked /\ Plan' = Plan
  BY <1>2, PlanStable DEF Asked
<1>3. /\ Plan \in Seq(Methods)
      /\ \A i \in DOMAIN Plan : WellFormed(Plan[i])
  BY <1>1, PlanIsWellFormed
<1>4. pc = "method" /\ m <= Len(Plan) => m \in DOMAIN Plan
  BY <1>3 DEF TypeOK, MethodInv
<1>5. CASE Exhausted
  BY <1>1, <1>5, FailInv DEF Exhausted, Errors, AuthErrors
<1>6. CASE PerformNone
  BY <1>1, <1>4, <1>6, SendInv DEF PerformNone, Dispatched, By, Maybe, TypeOK
<1>7. CASE ConnectAgent
  <2>1. CASE Fail("ConnectAgent")
    BY <1>1, <2>1, FailInv DEF Errors, AuthErrors
  <2>2. CASE /\ pc' = IF Plan[m].kind = "Full" THEN "list" ELSE "agent"
             /\ UNCHANGED <<error, call, auths, links, trail>>
    BY <1>1, <1>2, <1>4, <1>7, <2>2
       DEF ConnectAgent, Dispatched, TypeOK, CallInv, MethodInv, call, auths, links, trail
  <2>3. QED
    BY <1>7, <2>1, <2>2 DEF ConnectAgent, AgentFails
<1>8. CASE PerformFiles
  <2>1. m \in DOMAIN Plan
    BY <1>4, <1>8 DEF PerformFiles, Dispatched, MethodInv
  <2>2. /\ Plan[m].by \in By
        /\ Plan[m].key \in File
    BY <1>3, <1>8, <2>1 DEF PerformFiles, Dispatched, MethodInv, WellFormed, Methods, By
  <2>3. PublicOf[Plan[m].key] \in Maybe(Key)
    BY <2>2, PublicOfAssumption DEF Maybe
  <2>4. CASE Send(Plan[m].by, PublicOf[Plan[m].key]) /\ UNCHANGED ids
    BY <1>1, <2>1, <2>2, <2>3, <2>4, SendInv DEF TypeOK
  <2>5. ASSUME NEW e \in {"PubkeyMismatch", "Load", "Connection"}, Fail(e)
        PROVE  IInv'
    BY <1>1, <2>5, FailInv DEF Errors, AuthErrors
  <2>6. QED
    BY <1>8, <2>4, <2>5 DEF PerformFiles, LoadFails, FindHashAlgFails
<1>9. CASE ListIdentities
  <2>1. CASE Fail("ConnectAgent")
    BY <1>1, <2>1, FailInv DEF Errors, AuthErrors
  <2>2. CASE /\ ids' = Identity[Plan[m].agent] /\ pc' = "identity"
             /\ UNCHANGED <<error, call, m, request, reply, links, trail>>
    <3>1. Plan[m].agent \in Sock
      BY <1>3, <1>9 DEF ListIdentities, MethodInv, WellFormed
    <3>2. ids' \in Seq(AgentIdentity)
      BY <2>2, <3>1, IdentityAssumption
    <3>3. QED
      BY <1>1, <1>2, <1>9, <2>2, <3>2
         DEF ListIdentities, TypeOK, CallInv, MethodInv, call, links, trail
  <2>3. QED
    BY <1>9, <2>1, <2>2 DEF ListIdentities, AgentFails
<1>10. CASE NextIdentity
  <2>1. CASE /\ ids = <<>> /\ NextMethod
             /\ UNCHANGED <<error, call, ids, request, reply, links, trail>>
    BY <1>1, <1>2, <2>1
       DEF NextMethod, TypeOK, CallInv, MethodInv, call, links, trail
  <2>2. CASE ids # <<>>
    <3>1. Head(ids) \in AgentIdentity /\ Tail(ids) \in Seq(AgentIdentity)
      BY <2>2 DEF TypeOK
    <3>2. CASE /\ ids' = Tail(ids)
               /\ UNCHANGED <<pc, error, call, m, request, reply, links, trail>>
      BY <1>1, <1>2, <1>10, <3>1, <3>2
         DEF NextIdentity, TypeOK, CallInv, MethodInv, call, links, trail
    <3>3. CASE ids' = Tail(ids) /\ Send("Agent", Head(ids).key)
      <4>1. Head(ids).key \in Maybe(Key)
        BY <3>1 DEF AgentIdentity, Maybe
      <4>2. m \in DOMAIN Plan
        BY <1>10 DEF NextIdentity, MethodInv
      <4>3. QED
        BY <1>1, <3>1, <3>3, <4>1, <4>2, SendInv DEF By
    <3>4. CASE Fail("Connection")
      BY <1>1, <3>4, FailInv DEF Errors, AuthErrors
    <3>5. QED
      BY <1>10, <2>2, <3>2, <3>3, <3>4 DEF NextIdentity, FindHashAlgFails
  <2>3. QED
    BY <1>10, <2>1, <2>2 DEF NextIdentity
<1>11. QED
  BY <1>5, <1>6, <1>7, <1>8, <1>9, <1>10

\* The replies to a request.
LEMMA AnswerStep ==
    ASSUME IInv, (\E r \in Replies : Answer(r)) \/ NoAnswer
    PROVE  IInv'
<1> USE DEF IInv
<1>1. /\ pc = "reply" /\ chain \in Calls /\ chain \in Chains /\ hop \in 1..Hops
      /\ Hops \in Nat \ {0} /\ m \in DOMAIN Plan /\ request \in Request
  BY HopsType DEF Answer, NoAnswer, TypeOK, CallInv, MethodInv
<1>2. /\ UNCHANGED chain => Hops' = Hops /\ Asked' = Asked
      /\ UNCHANGED <<chain, hop>> => Plan' = Plan
  BY PlanStable DEF Asked
<1>3. CASE NoAnswer
  BY <1>1, <1>3, FailInv DEF NoAnswer, Errors, AuthErrors
<1>4. ASSUME NEW r \in Replies, Answer(r)
      PROVE  IInv'
  <2> DEFINE verdict == Verdict(request.by, r)
  <2>1. CASE /\ HopDone /\ request' = NULL /\ ids' = <<>>
             /\ UNCHANGED <<chain, ctx, m, reply, error, channel, open, lost, asked>>
    <3>1. HopHost(hop) \in Host
      BY <1>1, HopHostIsRoute
    <3>2. accepted' \in Seq(Host)
      BY <2>1, <3>1 DEF HopDone, TypeOK
    <3>3. hop' \in 1..Hops
      BY <1>1, <2>1 DEF HopDone
    <3>4. QED
      BY <1>1, <1>2, <2>1, <3>2, <3>3 DEF HopDone, TypeOK, CallInv, MethodInv, Maybe
  <2>2. CASE /\ reply' = [by |-> request.by, result |-> r]
             /\ request' = NULL
             /\ IF Plan[m].kind = "Full" THEN pc' = "identity" /\ UNCHANGED m ELSE NextMethod
             /\ UNCHANGED <<error, call, ids, links, trail>>
    <3>1. reply' \in [by : By, result : Replies]
      BY <1>1, <2>2 DEF Request
    <3>2. m \in 1..Len(Plan)
      BY <1>1, PlanIsWellFormed
    <3>3. QED
      BY <1>1, <1>2, <2>2, <3>1, <3>2
         DEF NextMethod, TypeOK, CallInv, MethodInv, call, links, trail, Maybe
  <2>3. CASE verdict \notin {"Success", "Failure"} /\ Fail(verdict)
    <3>1. verdict \in Errors
      BY <2>3, VerdictType
    <3>2. QED
      BY <1>1, <2>3, <3>1, FailInv
  <2>4. QED
    BY <1>4, <2>1, <2>2, <2>3 DEF Answer
<1>5. QED
  BY <1>3, <1>4

\* The steps of the application, the network and the sessions' tasks.
LEMMA EnvironmentStep ==
    ASSUME IInv, Disconnect \/ Drop \/ (\E i \in open : Cut(i) \/ End(i))
    PROVE  IInv'
<1> USE DEF IInv
<1>1. UNCHANGED <<chain, hop, ctx, m, ids, request, reply, error, channel, fresh, accepted, asked>>
  BY DEF Disconnect, Drop, Cut, End, call, auths, trail
<1>2. Hops' = Hops /\ Asked' = Asked /\ Plan' = Plan
  BY <1>1, PlanStable DEF Asked
<1>3. pc # "idle" /\ Hops \in Nat \ {0}
  BY HopsType DEF Disconnect, Drop, Cut, End, TypeOK, CallInv
<1>4. CASE Disconnect \/ Drop
  <2>1. pc' = "disconnected" /\ open' \subseteq open /\ handle' \in {handle, 0} /\ UNCHANGED lost
    BY <1>4 DEF Disconnect, Drop
  <2>2. QED
    BY <1>1, <1>2, <1>3, <2>1 DEF TypeOK, CallInv, MethodInv
<1>5. CASE \E i \in open : Cut(i) \/ End(i)
  <2>1. UNCHANGED <<pc, handle>> /\ open' \subseteq open /\ lost' \in BOOLEAN
    BY <1>5 DEF Cut, End, TypeOK
  <2>2. QED
    BY <1>1, <1>2, <1>3, <2>1 DEF TypeOK, CallInv, MethodInv
<1>6. QED
  BY <1>4, <1>5

\* A step in which nothing happens.
LEMMA StutterStep ==
    ASSUME IInv, UNCHANGED vars
    PROVE  IInv'
<1>1. UNCHANGED <<chain, hop, pc>>
  BY DEF vars, call
<1>2. Hops' = Hops /\ Asked' = Asked /\ Plan' = Plan
  BY <1>1, PlanStable DEF Asked
<1>3. QED
  BY <1>1, <1>2 DEF IInv, TypeOK, CallInv, MethodInv, vars, call, auths, links, trail

\* The invariant is inductive.
LEMMA NextInv == IInv /\ [Next]_vars => IInv'
<1> SUFFICES ASSUME IInv, [Next]_vars PROVE IInv'
  OBVIOUS
<1>1. ASSUME NEW c \in Calls, Call(c) PROVE IInv'
  BY <1>1, CallStep
<1>2. CASE Client
  BY <1>2, DialStep, PerformStep, AnswerStep DEF Client
<1>3. CASE Disconnect \/ Drop \/ (\E i \in open : Cut(i) \/ End(i))
  BY <1>3, EnvironmentStep
<1>4. CASE UNCHANGED vars
  BY <1>4, StutterStep
<1>5. QED
  BY <1>1, <1>2, <1>3, <1>4 DEF Next

THEOREM Invariance == Spec => []IInv
<1>1. Init => IInv
  BY InitInv
<1>2. IInv /\ [Next]_vars => IInv'
  BY NextInv
<1>3. QED
  BY <1>1, <1>2, PTL DEF Spec

\* Type correctness of Connect (connect.rs, auth.rs).
THEOREM TypeCorrect == Spec => []TypeOK
<1>1. IInv => TypeOK
  BY DEF IInv
<1>2. QED
  BY <1>1, Invariance, PTL

-----------------------------------------------------------------------------
(***************************************************************************)
(* Where connect is, and whom it has made a handler for.                   *)
(***************************************************************************)
HopInv ==
    /\ Dialling => Len(accepted) = hop - 1
    /\ pc = "establish" \/ Authenticating => ctx = HopHost(hop)
    /\ pc \in {"connected", "disconnected"} => hop = Hops /\ Len(accepted) = Hops

\* HopInv holds initially and is kept by every step.
LEMMA HopInvariance == Spec => []HopInv
<1>1. Init => HopInv
  BY DEF Init, HopInv, Dialling, Authenticating
<1>2. IInv /\ IInv' /\ HopInv /\ [Next]_vars => HopInv'
  <2> SUFFICES ASSUME IInv, IInv', HopInv, [Next]_vars PROVE HopInv'
    OBVIOUS
  <2> USE DEF HopInv, Dialling, Authenticating
  <2>1. ASSUME UNCHANGED <<chain, hop>>
        PROVE  Hops' = Hops /\ HopHost(hop)' = HopHost(hop)
    BY <2>1, PlanStable
  <2>2. hop' \in Int /\ accepted \in Seq(Host)
    BY HopsType DEF IInv, TypeOK, CallInv
  <2>3. ASSUME NEW c \in Calls, Call(c) PROVE HopInv'
    BY <2>3 DEF Call, trail, IInv, CallInv
  <2>4. ASSUME NEW e, Fail(e) PROVE HopInv'
    BY <2>4 DEF Fail
  <2>5. CASE OpenChannel
    BY <2>1, <2>4, <2>5 DEF OpenChannel, call, trail
  <2>6. CASE MakeHandler
    BY <2>1, <2>4, <2>6 DEF MakeHandler, trail
  <2>7. CASE Establish
    BY <2>1, <2>4, <2>7 DEF Establish, call, trail
  <2>8. ASSUME NEW by, NEW key, Send(by, key), Authenticating PROVE HopInv'
    BY <2>1, <2>8 DEF Send, call
  <2>9. CASE Exhausted
    BY <2>4, <2>9 DEF Exhausted
  <2>10. CASE PerformNone
    BY <2>8, <2>10 DEF PerformNone, Dispatched
  <2>11. CASE ConnectAgent
    BY <2>1, <2>4, <2>11 DEF ConnectAgent, Dispatched, AgentFails, call, trail
  <2>12. CASE PerformFiles
    BY <2>4, <2>8, <2>12 DEF PerformFiles, Dispatched, LoadFails, FindHashAlgFails
  <2>13. CASE ListIdentities
    BY <2>1, <2>4, <2>13 DEF ListIdentities, AgentFails, call, trail
  <2>14. CASE NextIdentity
    BY <2>1, <2>4, <2>8, <2>14 DEF NextIdentity, FindHashAlgFails, NextMethod, call, trail
  <2>15. CASE NoAnswer
    BY <2>4, <2>15 DEF NoAnswer
  <2>16. ASSUME NEW r \in Replies, Answer(r) PROVE HopInv'
    <3>1. CASE HopDone /\ UNCHANGED <<chain, ctx>>
      <4>1. Hops' = Hops
        BY <3>1, PlanStable
      <4>2. Len(accepted') = Len(accepted) + 1
        BY <2>2, <3>1 DEF HopDone
      <4>3. Len(accepted) = hop - 1 /\ hop \in Int
        BY <2>16 DEF Answer, IInv, TypeOK, CallInv
      <4>4. QED
        BY <2>2, <3>1, <4>1, <4>2, <4>3 DEF HopDone
    <3>2. CASE /\ pc' \in {"identity", "method"}
               /\ UNCHANGED <<error, call, ids, links, trail>>
      BY <2>1, <2>16, <3>2 DEF Answer, call, trail
    <3>3. QED
      BY <2>4, <2>16, <3>1, <3>2 DEF Answer, NextMethod
  <2>17. CASE Disconnect \/ Drop
    BY <2>1, <2>17 DEF Disconnect, Drop, call, trail
  <2>18. CASE \E i \in open : Cut(i) \/ End(i)
    BY <2>1, <2>18 DEF Cut, End, call, trail
  <2>19. CASE UNCHANGED vars
    BY <2>1, <2>19 DEF vars, call, trail
  <2>20. QED
    BY <2>3, <2>5, <2>6, <2>7, <2>9, <2>10, <2>11, <2>12, <2>13, <2>14, <2>15, <2>16,
       <2>17, <2>18, <2>19 DEF Next, Client
<1>3. QED
  BY <1>1, <1>2, Invariance, PTL DEF Spec

-----------------------------------------------------------------------------
(***************************************************************************)
(* The history of requests.                                                *)
(***************************************************************************)
\* What one request owes the server it went to.
Justified(a) ==
    /\ a.hop <= Len(accepted) + 1
    /\ a.ctx = HopHost(a.hop)
    /\ \E i \in DOMAIN from_config(HopHost(a.hop).auth) : from_config(HopHost(a.hop).auth)[i] = a.method
    /\ \/ a.method.kind = "None" /\ a.key = NULL
       \/ a.method.kind = "Full"
       \/ a.method.kind \notin {"None", "Full"} /\ a.key = PublicOf[a.method.key]
    /\ a.method.cert # NULL => PublicOf[a.method.cert] = a.key

AskedInv == \A a \in asked : Justified(a)

\* Nothing sent and no server forgotten: the history stays justified.
LEMMA AskedStable ==
    ASSUME IInv, IInv', AskedInv, UNCHANGED <<chain, asked>>, Len(accepted') >= Len(accepted)
    PROVE  AskedInv'
<1>1. \A i : HopHost(i)' = HopHost(i)
  BY PlanStable
<1>2. Len(accepted) \in Nat /\ Len(accepted') \in Nat
  BY DEF IInv, TypeOK
<1>3. \A a \in asked : a.hop \in Int
  BY HopsType DEF IInv, TypeOK, Asked
<1>4. QED
  BY <1>1, <1>2, <1>3 DEF AskedInv, Justified

\* A request with the key of the method, under the handler of the hop.
LEMMA AskedSend ==
    ASSUME IInv, IInv', HopInv, AskedInv, Authenticating, m \in DOMAIN Plan,
           NEW by, NEW key, Send(by, key),
           \/ Plan[m].kind = "None" /\ key = NULL
           \/ Plan[m].kind = "Full"
           \/ Plan[m].kind \notin {"None", "Full"} /\ key = PublicOf[Plan[m].key],
           Plan[m].cert # NULL => PublicOf[Plan[m].cert] = key
    PROVE  AskedInv'
<1>1. UNCHANGED <<chain, hop, ctx, accepted>>
  BY DEF Send, call
<1>2. \A i : HopHost(i)' = HopHost(i)
  BY <1>1, PlanStable
<1>3. ctx = HopHost(hop) /\ Len(accepted) = hop - 1 /\ hop \in Int
  <2>1. Hops \in Nat
    BY HopsType DEF IInv
  <2>2. hop \in 1..Hops
    BY DEF IInv, CallInv, Authenticating
  <2>3. QED
    BY <2>1, <2>2 DEF HopInv, Dialling
<1>4. Plan = from_config(HopHost(hop).auth)
  BY DEF Plan
<1>5. DEFINE new == [hop |-> hop, method |-> Plan[m], key |-> key, ctx |-> ctx]
<1>6. Justified(new)
  BY <1>3, <1>4 DEF Justified
<1>7. asked' = asked \cup {new}
  BY DEF Send
<1>8. \A a : Justified(a) => Justified(a)'
  BY <1>1, <1>2 DEF Justified
<1>9. QED
  BY <1>6, <1>7, <1>8 DEF AskedInv

\* A certificate that goes with no key of its own is never offered.
LEMMA CertOfKind ==
    ASSUME IInv, Authenticating, m \in DOMAIN Plan
    PROVE  WellFormed(Plan[m])
BY PlanIsWellFormed DEF IInv, CallInv, Authenticating

\* Every request in the history is justified.
LEMMA AskedInvariance == Spec => []AskedInv
<1>1. Init => AskedInv
  BY DEF Init, AskedInv
<1>2. IInv /\ IInv' /\ HopInv /\ AskedInv /\ [Next]_vars => AskedInv'
  <2> SUFFICES ASSUME IInv, IInv', HopInv, AskedInv, [Next]_vars PROVE AskedInv'
    OBVIOUS
  <2>0. Len(accepted) \in Nat
    BY DEF IInv, TypeOK
  <2>1. ASSUME UNCHANGED <<chain, asked, accepted>> PROVE AskedInv'
    BY <2>0, <2>1, AskedStable
  <2>2. ASSUME NEW c \in Calls, Call(c) PROVE AskedInv'
    BY <2>2 DEF Call, trail, IInv, CallInv, AskedInv
  <2>3. ASSUME NEW e, Fail(e) PROVE AskedInv'
    BY <2>1, <2>3 DEF Fail, call, trail
  <2>4. CASE OpenChannel \/ MakeHandler \/ Establish
    BY <2>1, <2>3, <2>4 DEF OpenChannel, MakeHandler, Establish, call, trail
  <2>5. CASE Exhausted \/ ConnectAgent \/ ListIdentities \/ NoAnswer
    BY <2>1, <2>3, <2>5
       DEF Exhausted, ConnectAgent, Dispatched, ListIdentities, AgentFails, NoAnswer, call, trail
  <2>6. pc = "method" /\ m <= Len(Plan) => m \in DOMAIN Plan
    BY PlanIsWellFormed DEF IInv, TypeOK, CallInv, MethodInv
  <2>7. CASE PerformNone
    <3>1. Authenticating /\ m \in DOMAIN Plan /\ Send("None", NULL) /\ Plan[m].by = "None"
      BY <2>6, <2>7 DEF PerformNone, Dispatched, Authenticating
    <3>2. WellFormed(Plan[m])
      BY <3>1, CertOfKind
    <3>3. QED
      BY <3>1, <3>2, AskedSend DEF WellFormed
  <2>8. CASE PerformFiles
    <3>1. Authenticating /\ m \in DOMAIN Plan
      BY <2>6, <2>8
         DEF PerformFiles, Dispatched, LoadFails, FindHashAlgFails, Authenticating, IInv, MethodInv
    <3>2. WellFormed(Plan[m])
      BY <3>1, CertOfKind
    <3>3. Plan[m].kind \notin {"None", "Full"}
      BY <2>8, <3>2
         DEF PerformFiles, Dispatched, LoadFails, FindHashAlgFails, WellFormed, IInv, MethodInv
    <3>4. ASSUME ~Mismatch(Plan[m]), Send(Plan[m].by, PublicOf[Plan[m].key]) PROVE AskedInv'
      BY <3>1, <3>3, <3>4, AskedSend DEF Mismatch
    <3>5. QED
      BY <2>3, <2>8, <3>4 DEF PerformFiles, Dispatched, LoadFails, FindHashAlgFails
  <2>9. CASE NextIdentity
    <3>1. Authenticating /\ m \in DOMAIN Plan /\ Plan[m].kind = "Full"
      BY <2>9 DEF NextIdentity, FindHashAlgFails, Authenticating, IInv, MethodInv
    <3>2. WellFormed(Plan[m])
      BY <3>1, CertOfKind
    <3>3. ASSUME NEW key, Send("Agent", key) PROVE AskedInv'
      BY <3>1, <3>2, <3>3, AskedSend DEF WellFormed
    <3>4. QED
      BY <2>1, <2>3, <2>9, <3>3 DEF NextIdentity, FindHashAlgFails, call, trail
  <2>10. ASSUME NEW r \in Replies, Answer(r) PROVE AskedInv'
    <3>1. CASE HopDone /\ UNCHANGED <<chain, asked>>
      <4>1. accepted' = Append(accepted, HopHost(hop)) /\ accepted \in Seq(Host)
        BY <3>1 DEF HopDone, IInv, TypeOK
      <4>2. Len(accepted') >= Len(accepted)
        BY <4>1
      <4>3. QED
        BY <3>1, <4>2, AskedStable
    <3>2. QED
      BY <2>1, <2>3, <2>10, <3>1 DEF Answer, call, trail
  <2>11. CASE Disconnect \/ Drop \/ (\E i \in open : Cut(i) \/ End(i)) \/ UNCHANGED vars
    BY <2>1, <2>11 DEF Disconnect, Drop, Cut, End, vars, call, trail
  <2>12. QED
    BY <2>2, <2>4, <2>5, <2>7, <2>8, <2>9, <2>10, <2>11 DEF Next, Client
<1>3. QED
  BY <1>1, <1>2, Invariance, HopInvariance, PTL DEF Spec

\* Nothing configured for one server reaches another, and every request runs
\* under the handler of its own server (connect_impl, connect.rs:389-430).
THEOREM OffersStayWithTheirHop == Spec => []OffersBelongToHop
<1>1. AskedInv => OffersBelongToHop
  BY DEF AskedInv, Justified, OffersBelongToHop
<1>2. QED
  BY <1>1, AskedInvariance, PTL

\* No server is asked before all servers in front of it have accepted.
THEOREM ServersAskedInTurn == Spec => []AskedInTurn
<1>1. AskedInv => AskedInTurn
  BY DEF AskedInv, Justified, AskedInTurn
<1>2. QED
  BY <1>1, AskedInvariance, PTL

\* IdentitiesOnly keeps the unlisted keys of the agent from the server, given
\* plans that respect it (AuthPlan, IdentitiesOnlyRespected).
THEOREM OnlyListedIdentities == Spec => []IdentitiesOnlyOnTheWire
<1>1. IInv /\ AskedInv => IdentitiesOnlyOnTheWire
  <2> SUFFICES ASSUME IInv, AskedInv,
                      NEW a \in asked, HopHost(a.hop).auth.identities_only
               PROVE  LET auth == HopHost(a.hop).auth
                      IN  a.key \in {PublicOf[Identities(auth)[i]] : i \in DOMAIN Identities(auth)}
                                       \cup {NULL}
    BY DEF IdentitiesOnlyOnTheWire
  <2> DEFINE auth == HopHost(a.hop).auth
  <2>1. Justified(a)
    BY DEF AskedInv
  <2>2. PICK i \in DOMAIN from_config(auth) : from_config(auth)[i] = a.method
    BY <2>1 DEF Justified
  <2>3. chain \in Calls /\ chain \in Chains /\ a.hop \in 1..Hops
    BY CallsAssumption DEF IInv, TypeOK, CallInv, Asked
  <2>4. Sound(from_config(auth), auth)
    BY <2>3, HopPlanIsSound
  <2>5. /\ a.method.kind # "Full"
        /\ a.method.key # NULL =>
               \E j \in DOMAIN Identities(auth) : Identities(auth)[j] = a.method.key
        /\ WellFormed(a.method)
    BY <2>2, <2>4 DEF Sound, KeysOf
  <2>6. CASE a.method.kind = "None"
    BY <2>1, <2>6 DEF Justified
  <2>7. CASE a.method.kind # "None"
    <3>1. a.method.key \in File /\ a.key = PublicOf[a.method.key]
      BY <2>1, <2>5, <2>7 DEF Justified, WellFormed
    <3>2. a.method.key # NULL
      BY <3>1, NullAssumption
    <3>3. QED
      BY <2>5, <3>1, <3>2
  <2>8. QED
    BY <2>6, <2>7
<1>2. QED
  BY <1>1, Invariance, AskedInvariance, PTL

-----------------------------------------------------------------------------
(***************************************************************************)
(* The tunnel: which sessions the locals of connect_impl keep alive.       *)
(***************************************************************************)
\* The locals, at each await.
HoldInv ==
    /\ pc = "channel" => hop > 1 /\ handle = hop - 1 /\ channel = 0 /\ fresh = 0
    /\ pc \in {"handler", "establish"} => handle = hop - 1 /\ channel = hop - 1 /\ fresh = 0
    /\ Authenticating => handle = hop - 1 /\ channel = 0 /\ fresh = hop
    /\ pc = "connected" => handle = hop /\ channel = 0 /\ fresh = 0

\* The sessions, as long as the network has cut none.
OpenInv ==
    /\ ~lost /\ pc \in {"channel", "handler", "establish"} => open = 1..(hop - 1)
    /\ ~lost /\ (Authenticating \/ pc = "connected") => open = 1..hop

LinksInv == HoldInv /\ OpenInv

\* The locals hold what they should and every session below is held by the one
\* above it, so no task ends.
LEMMA LinksInvariance == Spec => []LinksInv
<1>1. Init => LinksInv
  BY DEF Init, LinksInv, HoldInv, OpenInv, Authenticating
<1>2. IInv /\ HopInv /\ LinksInv /\ [Next]_vars => LinksInv'
  <2> SUFFICES ASSUME IInv, HopInv, LinksInv, [Next]_vars PROVE LinksInv'
    OBVIOUS
  <2> USE DEF LinksInv, HoldInv, OpenInv, Authenticating
  <2>1. hop \in Int /\ (pc # "idle" => hop \in 1..Hops) /\ Hops \in Nat \ {0}
    BY HopsType DEF IInv, TypeOK, CallInv
  <2>2. ASSUME NEW c \in Calls, Call(c) PROVE LinksInv'
    BY <2>2 DEF Call, links, IInv, CallInv
  <2>3. ASSUME NEW e, Fail(e) PROVE LinksInv'
    BY <2>3 DEF Fail
  <2>4. CASE OpenChannel
    <3>1. ASSUME handle \in open, channel' = handle, pc' = "handler",
                 UNCHANGED <<call, handle, fresh, open, lost>>
          PROVE  LinksInv'
      BY <2>1, <2>4, <3>1 DEF OpenChannel, call
    <3>2. QED
      BY <2>3, <2>4, <3>1 DEF OpenChannel
  <2>5. CASE MakeHandler
    BY <2>1, <2>3, <2>5 DEF MakeHandler, links
  <2>6. CASE Establish
    <3>1. ASSUME open' = open \cup {hop}, fresh' = hop, channel' = 0, pc' = "method",
                 UNCHANGED <<call, handle, lost>>
          PROVE  LinksInv'
      <4>1. 1..hop = 1..(hop - 1) \cup {hop}
        BY <2>1, <2>6 DEF Establish
      <4>2. QED
        BY <2>1, <2>6, <3>1, <4>1 DEF Establish, call
    <3>2. QED
      BY <2>3, <2>6, <3>1 DEF Establish
  <2>7. ASSUME Authenticating, pc' \in {"method", "agent", "list", "identity", "reply"},
               UNCHANGED <<hop, links>>
        PROVE  LinksInv'
    BY <2>7 DEF links
  <2>8. ASSUME NEW by, NEW key, Send(by, key), Authenticating PROVE LinksInv'
    BY <2>7, <2>8 DEF Send, call
  <2>9. CASE Exhausted \/ NoAnswer
    BY <2>3, <2>9 DEF Exhausted, NoAnswer
  <2>10. CASE PerformNone \/ PerformFiles
    BY <2>3, <2>8, <2>10 DEF PerformNone, PerformFiles, Dispatched, LoadFails, FindHashAlgFails
  <2>11. CASE ConnectAgent \/ ListIdentities
    BY <2>3, <2>7, <2>11 DEF ConnectAgent, Dispatched, ListIdentities, AgentFails, call
  <2>12. CASE NextIdentity
    BY <2>3, <2>7, <2>8, <2>12 DEF NextIdentity, FindHashAlgFails, NextMethod, call
  <2>13. ASSUME NEW r \in Replies, Answer(r) PROVE LinksInv'
    <3>1. ASSUME HopDone, UNCHANGED <<channel, open, lost>> PROVE LinksInv'
      BY <2>1, <2>13, <3>1 DEF HopDone, Answer
    <3>2. QED
      BY <2>3, <2>7, <2>13, <3>1 DEF Answer, NextMethod, call
  <2>14. CASE Disconnect \/ Drop
    BY <2>14 DEF Disconnect, Drop
  <2>15. ASSUME NEW i \in open, Cut(i) PROVE LinksInv'
    BY <2>15 DEF Cut, call
  <2>16. ASSUME NEW i \in open, End(i) PROVE LinksInv'
    <3>1. UNCHANGED <<pc, hop, handle, channel, fresh, lost>>
      BY <2>16 DEF End, call
    <3>2. CASE lost
      BY <3>1, <3>2
    <3>3. CASE ~(Dialling \/ pc = "connected")
      BY <3>1, <3>3 DEF Dialling
    <3>4. CASE ~lost /\ pc \in {"channel", "handler", "establish"}
      <4>1. open = 1..(hop - 1) /\ handle = hop - 1
        BY <3>4
      <4>2. Held(i) /\ (i > 1 => i - 1 \in open)
        BY <2>1, <4>1 DEF Held
      <4>3. QED
        BY <2>16, <4>2 DEF End
    <3>5. CASE ~lost /\ (Authenticating \/ pc = "connected")
      <4>1. open = 1..hop /\ hop \in {handle, fresh}
        BY <3>5
      <4>2. Held(i) /\ (i > 1 => i - 1 \in open)
        BY <2>1, <4>1 DEF Held
      <4>3. QED
        BY <2>16, <4>2 DEF End
    <3>6. QED
      BY <3>2, <3>3, <3>4, <3>5 DEF Dialling
  <2>17. CASE UNCHANGED vars
    BY <2>17 DEF vars, call, links
  <2>18. QED
    BY <2>2, <2>4, <2>5, <2>6, <2>9, <2>10, <2>11, <2>12, <2>13, <2>14, <2>15, <2>16, <2>17
       DEF Next, Client
<1>3. QED
  BY <1>1, <1>2, Invariance, HopInvariance, PTL DEF Spec

\* A connection is returned with the session of every server still running,
\* although their handles have been dropped (connect.rs:266-268, 410).
THEOREM TunnelStaysOpen == Spec => []ChainKeptAlive
<1>1. HopInv /\ LinksInv => ChainKeptAlive
  BY DEF HopInv, LinksInv, OpenInv, ChainKeptAlive
<1>2. QED
  BY <1>1, HopInvariance, LinksInvariance, PTL

-----------------------------------------------------------------------------
(***************************************************************************)
(* The refusals.                                                           *)
(***************************************************************************)
Tried(i) == Plan[i].kind = "Full" \/ \E a \in asked : a.hop = hop /\ a.method = Plan[i]

TriedInv ==
    /\ Authenticating => \A i \in 1..(m - 1) : Tried(i)
    /\ pc = "reply" => Tried(m)

\* The methods passed over so far have all been put to the server.
LEMMA TriedInvariance == Spec => [](TriedInv /\ FailureIsExhaustion)
<1> DEFINE Inv == TriedInv /\ FailureIsExhaustion
<1>1. Init => Inv
  BY DEF Init, TriedInv, FailureIsExhaustion, Authenticating
<1>2. IInv /\ IInv' /\ Inv /\ [Next]_vars => Inv'
  <2> SUFFICES ASSUME IInv, IInv', Inv, [Next]_vars PROVE Inv'
    OBVIOUS
  <2> USE DEF TriedInv, Authenticating
  <2>1. m \in Nat /\ m' \in Nat
    BY DEF IInv, TypeOK
  <2>2. ASSUME UNCHANGED <<chain, hop>>, asked \subseteq asked', NEW i, Tried(i) PROVE Tried(i)'
    <3>1. Plan' = Plan
      BY <2>2, PlanStable
    <3>2. QED
      BY <2>2, <3>1 DEF Tried
  <2>3. ASSUME pc' \notin {"method", "agent", "list", "identity", "reply", "failed"} PROVE Inv'
    BY <2>3 DEF FailureIsExhaustion
  <2>4. ASSUME NEW e, e # "AuthFailure", Fail(e) PROVE Inv'
    BY <2>4 DEF Fail, FailureIsExhaustion
  <2>5. ASSUME Authenticating, pc' \in {"agent", "list", "identity"}, UNCHANGED <<call, m, trail>>
        PROVE  Inv'
    BY <2>1, <2>2, <2>5 DEF FailureIsExhaustion, call, trail
  <2>6. ASSUME Authenticating, Tried(m), NextMethod, UNCHANGED <<call, trail>> PROVE Inv'
    <3>1. \A i \in 1..m : Tried(i)
      BY <2>1, <2>6
    <3>2. \A i \in 1..m : Tried(i)'
      BY <2>2, <2>6, <3>1 DEF call, trail
    <3>3. QED
      BY <2>1, <2>6, <3>2 DEF NextMethod, FailureIsExhaustion
  <2>7. ASSUME NEW by, NEW key, Send(by, key), Authenticating PROVE Inv'
    <3>1. \A i \in 1..(m - 1) : Tried(i)'
      BY <2>2, <2>7 DEF Send, call
    <3>2. Tried(m)'
      <4>1. Plan' = Plan
        BY <2>7, PlanStable DEF Send, call
      <4>2. \E a \in asked' : a.hop = hop /\ a.method = Plan[m]
        <5> DEFINE new == [hop |-> hop, method |-> Plan[m], key |-> key, ctx |-> ctx]
        <5>1. new \in asked'
          BY <2>7 DEF Send
        <5>2. new.hop = hop /\ new.method = Plan[m]
          OBVIOUS
        <5>3. QED
          BY <5>1, <5>2
      <4>3. UNCHANGED <<hop, m>>
        BY <2>7 DEF Send, call
      <4>4. QED
        BY <4>1, <4>2, <4>3 DEF Tried
    <3>3. QED
      BY <2>7, <3>1, <3>2 DEF Send, FailureIsExhaustion
  <2>8. CASE \E c \in Calls : Call(c)
    BY <2>3, <2>8 DEF Call
  <2>9. CASE OpenChannel \/ MakeHandler
    BY <2>3, <2>4, <2>9 DEF OpenChannel, MakeHandler
  <2>10. CASE Establish
    BY <2>4, <2>10 DEF Establish, FailureIsExhaustion
  <2>11. CASE Exhausted
    <3>1. \A i \in DOMAIN Plan : Tried(i)
      BY <2>1, <2>11, PlanIsWellFormed DEF Exhausted, IInv, CallInv
    <3>2. Plan' = Plan
      BY <2>11, PlanStable DEF Exhausted, Fail, call
    <3>3. QED
      BY <2>11, <3>1, <3>2 DEF Exhausted, Fail, FailureIsExhaustion, Tried, call, trail
  <2>12. CASE PerformNone
    BY <2>7, <2>12 DEF PerformNone, Dispatched
  <2>13. CASE ConnectAgent
    BY <2>4, <2>5, <2>13 DEF ConnectAgent, Dispatched, AgentFails, auths
  <2>14. CASE PerformFiles
    BY <2>4, <2>7, <2>14 DEF PerformFiles, Dispatched, LoadFails, FindHashAlgFails
  <2>15. CASE ListIdentities
    BY <2>4, <2>5, <2>15 DEF ListIdentities, AgentFails
  <2>16. CASE NextIdentity
    <3>1. pc = "identity" /\ Tried(m)
      BY <2>16 DEF NextIdentity, FindHashAlgFails, IInv, MethodInv, Tried
    <3>2. QED
      BY <2>4, <2>5, <2>6, <2>7, <2>16, <3>1 DEF NextIdentity, FindHashAlgFails
  <2>17. CASE NoAnswer
    BY <2>4, <2>17 DEF NoAnswer
  <2>18. ASSUME NEW r \in Replies, Answer(r) PROVE Inv'
    <3>1. Verdict(request.by, r) # "AuthFailure"
      BY DEF Verdict, Replies
    <3>2. CASE HopDone
      BY <2>3, <3>2 DEF HopDone
    <3>3. CASE Fail(Verdict(request.by, r))
      BY <2>4, <3>1, <3>3
    <3>4. CASE /\ IF Plan[m].kind = "Full" THEN pc' = "identity" /\ UNCHANGED m ELSE NextMethod
               /\ UNCHANGED <<call, trail>>
      BY <2>5, <2>6, <2>18, <3>4 DEF Answer
    <3>5. QED
      BY <2>18, <3>2, <3>3, <3>4 DEF Answer
  <2>19. CASE Disconnect \/ Drop
    BY <2>3, <2>19 DEF Disconnect, Drop
  <2>20. CASE (\E i \in open : Cut(i) \/ End(i)) \/ UNCHANGED vars
    <3>1. UNCHANGED <<chain, hop, pc, m, error, asked>>
      BY <2>20 DEF Cut, End, vars, call, auths, trail
    <3>2. Plan' = Plan
      BY <3>1, PlanStable
    <3>3. QED
      BY <3>1, <3>2 DEF FailureIsExhaustion, Tried
  <2>21. QED
    BY <2>8, <2>9, <2>10, <2>11, <2>12, <2>13, <2>14, <2>15, <2>16, <2>17, <2>18, <2>19, <2>20
       DEF Next, Client
<1>3. QED
  BY <1>1, <1>2, Invariance, PTL DEF Spec

\* AuthFailure says that every method of the plan was refused by the server;
\* anything that kept a method from being tried is another error
\* (connect.rs:38-42, 446-452).
THEOREM FailureMeansExhaustion == Spec => []FailureIsExhaustion
BY TriedInvariance, PTL

\* A Failure that is taken for "try the next" after "none" or a local key is a
\* plain one (AuthResult::try_from, auth.rs:63-82).
THEOREM LocalRefusalIsFinal == Spec => []LocalRefusalStops
<1> DEFINE Inv == reply # NULL /\ reply.by # "Agent" => reply.result \in {"Retry", "Declined"}
<1>1. Init => Inv
  BY DEF Init
<1>2. Inv /\ [Next]_vars => Inv'
  <2> SUFFICES ASSUME Inv, [Next]_vars PROVE Inv'
    OBVIOUS
  <2>1. CASE reply' \in {reply, NULL}
    BY <2>1
  <2>2. ASSUME NEW r \in Replies, Answer(r), reply' = [by |-> request.by, result |-> r],
               Verdict(request.by, r) = "Failure"
        PROVE  Inv'
    BY <2>2 DEF Verdict, Replies
  <2>3. ASSUME NEW e, Fail(e) PROVE reply' = reply
    BY <2>3 DEF Fail
  <2>4. CASE Client
    <3>1. CASE OpenChannel \/ MakeHandler \/ Establish
      BY <2>1, <2>3, <3>1 DEF OpenChannel, MakeHandler, Establish, auths
    <3>2. CASE Exhausted \/ ConnectAgent \/ ListIdentities \/ NoAnswer
      BY <2>1, <2>3, <3>2
         DEF Exhausted, ConnectAgent, Dispatched, ListIdentities, AgentFails, NoAnswer, auths
    <3>3. CASE PerformNone \/ PerformFiles \/ NextIdentity
      BY <2>1, <2>3, <3>3
         DEF PerformNone, PerformFiles, Dispatched, LoadFails, FindHashAlgFails, NextIdentity, Send
    <3>4. ASSUME NEW r \in Replies, Answer(r) PROVE Inv'
      BY <2>1, <2>2, <2>3, <3>4 DEF Answer
    <3>5. QED
      BY <2>4, <3>1, <3>2, <3>3, <3>4 DEF Client
  <2>5. CASE (\E c \in Calls : Call(c)) \/ Disconnect \/ Drop
    BY <2>1, <2>5 DEF Call, Disconnect, Drop, auths
  <2>6. CASE (\E i \in open : Cut(i) \/ End(i)) \/ UNCHANGED vars
    BY <2>1, <2>6 DEF Cut, End, vars, auths
  <2>7. QED
    BY <2>4, <2>5, <2>6 DEF Next
<1>3. Inv => LocalRefusalStops
  BY DEF LocalRefusalStops
<1>4. QED
  BY <1>1, <1>2, <1>3, PTL DEF Spec

-----------------------------------------------------------------------------
(***************************************************************************)
(* The refinement.                                                         *)
(***************************************************************************)
\* connect implements TrustedPath: the servers of the route are authenticated in
\* the order of the Chain doc (config.rs:387-389), none left out, and a
\* connection is reported for the whole route only.
THEOREM ConnectRefines == Spec => KeepsPromise
<1> DEFINE path == accepted
           route == IF pc = "idle" THEN NULL ELSE Route(chain)
           outcome == CASE pc \in {"connected", "disconnected"} -> "connected"
                        [] pc = "failed" -> "failed"
                        [] OTHER -> "pending"
<1>1. Init => Promise!Init
  BY DEF Init, Promise!Init
<1>2. IInv /\ HopInv /\ [Next]_vars => [Promise!Next]_(Promise!vars)
  <2> SUFFICES ASSUME IInv, HopInv, [Next]_vars PROVE Promise!Next \/ UNCHANGED Promise!vars
    OBVIOUS
  <2>1. pc # "idle" =>
            /\ chain \in Calls /\ chain \in Chains /\ hop \in 1..Hops
            /\ Route(chain) \in Seq(Host) /\ Route(chain) # NULL /\ Len(Route(chain)) = Hops
    BY RouteLength, HostNullAssumption DEF IInv, TypeOK, CallInv, Hops
  <2>2. ASSUME pc # "idle", pc' # "idle", UNCHANGED <<chain, accepted, outcome>>
        PROVE  UNCHANGED Promise!vars
    BY <2>2 DEF Promise!vars
  <2>3. ASSUME NEW c \in Calls, Call(c) PROVE Promise!Call
    <3>1. pc = "idle" /\ pc' = "handler" /\ chain' = c /\ UNCHANGED accepted
      BY <2>3 DEF Call, trail
    <3>2. Route(c) \in Seq(Host)
      BY CallsAssumption, RouteLength
    <3>3. QED
      BY <3>1, <3>2 DEF Promise!Call
  <2>4. ASSUME Dialling, NEW e, Fail(e) PROVE Promise!GiveUp
    <3>1. pc # "idle" /\ pc \notin {"connected", "disconnected", "failed"}
      BY <2>4 DEF Dialling, Authenticating
    <3>2. pc' = "failed" /\ UNCHANGED <<chain, accepted>>
      BY <2>4 DEF Fail, call, trail
    <3>3. QED
      BY <2>1, <3>1, <3>2 DEF Promise!GiveUp
  <2>5. ASSUME Dialling, pc' \notin {"idle", "connected", "disconnected", "failed"},
               UNCHANGED <<chain, accepted>>
        PROVE  UNCHANGED Promise!vars
    BY <2>2, <2>5 DEF Dialling, Authenticating
  <2>6. CASE OpenChannel \/ MakeHandler \/ Establish
    BY <2>4, <2>5, <2>6 DEF OpenChannel, MakeHandler, Establish, Dialling, call, trail, Promise!Next
  <2>7. ASSUME NEW by, NEW key, Send(by, key), Authenticating PROVE UNCHANGED Promise!vars
    BY <2>5, <2>7 DEF Send, call, Dialling
  <2>8. CASE Exhausted \/ PerformNone \/ ConnectAgent \/ NoAnswer
    BY <2>4, <2>5, <2>7, <2>8
       DEF Exhausted, PerformNone, ConnectAgent, Dispatched, AgentFails, NoAnswer, Dialling,
           Authenticating, call, trail, Promise!Next
  <2>9. CASE PerformFiles \/ ListIdentities \/ NextIdentity
    BY <2>4, <2>5, <2>7, <2>9
       DEF PerformFiles, Dispatched, LoadFails, FindHashAlgFails, ListIdentities, AgentFails,
           NextIdentity, NextMethod, Dialling, Authenticating, call, trail, Promise!Next
  <2>10. ASSUME NEW r \in Replies, Answer(r) PROVE Promise!Next \/ UNCHANGED Promise!vars
    <3>1. pc = "reply" /\ Dialling
      BY <2>10 DEF Answer, Dialling, Authenticating
    <3>2. ASSUME HopDone, UNCHANGED chain PROVE Promise!Extend
      <4>1. Len(accepted) = hop - 1 /\ hop \in 1..Hops /\ Hops \in Nat \ {0}
        BY <2>1, <3>1, HopsType DEF HopInv, IInv
      <4>2. HopHost(hop) = Route(chain)[Len(accepted) + 1]
        BY <2>1, <3>1, <4>1, HopHostIsRoute
      <4>3. outcome = "pending"
        BY <3>1
      <4>4. outcome' = IF Len(accepted) + 1 = Len(Route(chain)) THEN "connected" ELSE "pending"
        BY <2>1, <3>1, <3>2, <4>1 DEF HopDone
      <4>5. route = Route(chain) /\ route' = route
        BY <3>1, <3>2 DEF HopDone
      <4>6. Len(accepted) < Len(Route(chain))
        BY <2>1, <3>1, <4>1
      <4>7. QED
        BY <2>1, <3>1, <3>2, <4>2, <4>3, <4>4, <4>5, <4>6 DEF Promise!Extend, HopDone
    <3>3. QED
      BY <2>4, <2>5, <2>10, <3>1, <3>2
         DEF Answer, NextMethod, call, trail, Promise!Next
  <2>11. CASE Disconnect \/ Drop
    BY <2>2, <2>11 DEF Disconnect, Drop, call, trail
  <2>12. CASE (\E i \in open : Cut(i) \/ End(i)) \/ UNCHANGED vars
    <3>1. UNCHANGED <<chain, accepted, pc>>
      BY <2>12 DEF Cut, End, vars, call, trail
    <3>2. QED
      BY <3>1 DEF Promise!vars
  <2>13. QED
    BY <2>3, <2>6, <2>8, <2>9, <2>10, <2>11, <2>12 DEF Next, Client, Promise!Next
<1>3. QED
  BY <1>1, <1>2, Invariance, HopInvariance, PTL DEF Spec, KeepsPromise, Promise!Spec
=============================================================================
