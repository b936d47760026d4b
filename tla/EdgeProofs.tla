----------------------------- MODULE EdgeProofs -----------------------------
(***************************************************************************)
(* Proofs about the edge's request handlers, for any number of requests,   *)
(* connections, subdomains and accounts.  The composition implements the   *)
(* tunnel server alone, so everything proved of that one carries over.     *)
(***************************************************************************)
EXTENDS Edge, TunnelSessionsProofs

\* A request handler takes no step of the tunnel server.
LEMMA RequestsLeaveSessions ==
  ASSUME NEW r \in Requests, Handle(r) \/ AgentAnswers(r)
  PROVE  UNCHANGED vars
BY DEF Handle, FindTunnel, CheckPresence, GetSession, Forward, ReadAnswer, Enqueue,
       AcceptWebhook, ServeSnapshot, AgentAnswers

\* The tunnel server in the composition behaves as it does alone.
THEOREM EdgeImplementsSessions == EdgeSpec => Spec
<1>1. EdgeInit => Init BY DEF EdgeInit
<1>2. [EdgeNext]_allVars => [Next]_vars
  <2> SUFFICES ASSUME [EdgeNext]_allVars PROVE [Next]_vars
    OBVIOUS
  <2>1. ASSUME NEW c \in Conns, SessionStep(c) PROVE Next
    BY <2>1 DEF SessionStep, Next, Serve
  <2>2. ASSUME NEW c \in Conns, ConnectDrain(c) PROVE Next
    BY <2>2 DEF ConnectDrain, Next, Serve
  <2>3. ASSUME NEW c \in Conns, ListQueue(c) PROVE UNCHANGED vars
    BY <2>3 DEF ListQueue
  <2>4. EdgeRestart => Next BY DEF EdgeRestart, Next
  <2>5. Tick \/ Shutdown => Next BY DEF Next
  <2>6. UNCHANGED allVars => UNCHANGED vars BY DEF allVars
  <2> QED BY <2>1, <2>2, <2>3, <2>4, <2>5, <2>6, RequestsLeaveSessions DEF EdgeNext
<1> QED BY <1>1, <1>2, PTL DEF EdgeSpec, Spec

-----------------------------------------------------------------------------
(* Type correctness.                                                       *)

(* Whatever requests, connections and faults do, the composition of handlers
   with sessions keeps its types (router.go, offline.go, tunnelserver.go). *)
THEOREM EdgeTypeCorrect == EdgeSpec => [](TypeOK /\ EdgeTypeOK)
<1>1. EdgeInit => EdgeTypeOK
  BY EdgeAssumption DEF EdgeAssumption, EdgeInit, EdgeTypeOK, Steps, Answers
<1>2. TypeOK /\ EdgeTypeOK /\ [EdgeNext]_allVars => EdgeTypeOK'
  <2> SUFFICES ASSUME TypeOK, EdgeTypeOK, [EdgeNext]_allVars PROVE EdgeTypeOK'
    OBVIOUS
  <2> USE DEF EdgeTypeOK, Steps, Answers, requests, events, edgeVars
  <2>1. ASSUME NEW r \in Requests, Handle(r) PROVE EdgeTypeOK'
    <3> USE DEF To, Answer
    <3>1. CASE FindTunnel(r) BY <3>1 DEF FindTunnel
    <3>2. CASE CheckPresence(r) BY <3>2 DEF CheckPresence
    <3>3. CASE GetSession(r)
      <4>1. registry[host[r]] \in Conns \cup {None} BY DEF TypeOK
      <4> QED BY <3>3, <4>1 DEF GetSession
    <3>4. CASE Forward(r) BY <3>4 DEF Forward
    <3>5. CASE ReadAnswer(r) BY <3>5 DEF ReadAnswer
    <3>6. CASE Enqueue(r) BY <3>6 DEF Enqueue
    <3>7. CASE AcceptWebhook(r) BY <3>7 DEF AcceptWebhook
    <3>8. CASE ServeSnapshot(r) BY <3>8 DEF ServeSnapshot
    <3> QED BY <2>1, <3>1, <3>2, <3>3, <3>4, <3>5, <3>6, <3>7, <3>8 DEF Handle
  <2>2. ASSUME NEW r \in Requests, AgentAnswers(r) PROVE EdgeTypeOK'
    BY <2>2 DEF AgentAnswers
  <2>3. ASSUME NEW c \in Conns, SessionStep(c) PROVE EdgeTypeOK'
    BY <2>3 DEF SessionStep
  <2>4. ASSUME NEW c \in Conns, ConnectDrain(c) PROVE EdgeTypeOK'
    BY <2>4 DEF ConnectDrain
  <2>5. ASSUME NEW c \in Conns, ListQueue(c) PROVE EdgeTypeOK'
    BY <2>5 DEF ListQueue
  <2>6. CASE EdgeRestart BY <2>6 DEF EdgeRestart
  <2>7. UNCHANGED edgeVars => EdgeTypeOK' OBVIOUS
  <2> QED BY <2>1, <2>2, <2>3, <2>4, <2>5, <2>6, <2>7 DEF EdgeNext, allVars
<1> QED BY <1>1, <1>2, TypeCorrect, EdgeImplementsSessions, PTL DEF EdgeSpec

-----------------------------------------------------------------------------
(* Whom a request goes to.                                                 *)

\* Only Registry.Get gives a handler its session.
LEMMA OnlyGetSession ==
  ASSUME [EdgeNext]_allVars
  PROVE  UNCHANGED <<host, sess>> \/ \E r \in Requests : GetSession(r)
<1>1. ASSUME NEW r \in Requests, Handle(r), ~GetSession(r) PROVE UNCHANGED <<host, sess>>
  BY <1>1 DEF Handle, FindTunnel, CheckPresence, Forward, ReadAnswer, Enqueue,
              AcceptWebhook, ServeSnapshot
<1>2. ASSUME NEW r \in Requests, AgentAnswers(r) PROVE UNCHANGED <<host, sess>>
  BY <1>2 DEF AgentAnswers, requests
<1>3. ASSUME NEW c \in Conns, SessionStep(c) \/ ConnectDrain(c) \/ ListQueue(c)
      PROVE  UNCHANGED <<host, sess>>
  BY <1>3 DEF SessionStep, ConnectDrain, ListQueue, edgeVars, requests
<1>4. EdgeRestart \/ UNCHANGED allVars \/ UNCHANGED edgeVars => UNCHANGED <<host, sess>>
  BY DEF EdgeRestart, allVars, edgeVars
<1> QED BY <1>1, <1>2, <1>3, <1>4 DEF EdgeNext

\* A handler only ever holds sessions opened for its request's subdomain by
\* the account that owns it, however stale the session is when it is used.
THEOREM RequestsReachTheOwner == EdgeSpec => []ForwardedToOwner
<1>1. EdgeInit => ForwardedToOwner BY DEF EdgeInit, ForwardedToOwner
<1> DEFINE OwnersKept == \A s \in Subs : owner[s] # None => owner'[s] = owner[s]
<1>2. /\ TypeOK /\ EdgeTypeOK /\ RegistryInv /\ ForwardedToOwner
      /\ [EdgeNext]_allVars /\ [Next]_vars /\ [OwnersKept]_vars
      => ForwardedToOwner'
  <2> SUFFICES ASSUME TypeOK, EdgeTypeOK, RegistryInv, ForwardedToOwner,
                      [EdgeNext]_allVars, [Next]_vars, [OwnersKept]_vars
               PROVE  ForwardedToOwner'
    OBVIOUS
  <2>1. UNCHANGED <<sub, user>>
    <3>1. ASSUME NEW c \in Conns, Accept(c) \/ Handshake(c) \/ Serve(c) \/ Drop(c)
          PROVE  UNCHANGED <<sub, user>>
      BY <3>1 DEF Accept, Handshake, Refuse, Authenticate, ClaimSelect, ClaimInsert, ClaimUpdate,
                  Reply, Serve, Lookup, Put, FirstBeat, Heartbeat, Depart, Clear, Abandon,
                  Drop, input
    <3>2. Tick \/ Shutdown \/ Restart \/ UNCHANGED vars => UNCHANGED <<sub, user>>
      BY DEF Tick, Shutdown, Restart, vars, input
    <3> QED BY <3>1, <3>2 DEF Next
  <2>2. \A s \in Subs : owner[s] # None => owner'[s] = owner[s]
    BY DEF vars
  <2>3. CASE UNCHANGED <<host, sess>>
    <3> SUFFICES ASSUME NEW r \in Requests, sess[r] # None
                 PROVE  sub[sess[r]] = host[r] /\ owner'[host[r]] = user[sess[r]]
      BY <2>1, <2>3 DEF ForwardedToOwner
    <3>1. sess[r] \in Conns /\ host[r] \in Subs BY DEF EdgeTypeOK
    <3>2. user[sess[r]] # None BY <3>1, NoneAssumption DEF NoneAssumption, TypeOK
    <3> QED BY <2>2, <3>1, <3>2 DEF ForwardedToOwner
  <2>4. ASSUME NEW q \in Requests, GetSession(q) PROVE ForwardedToOwner'
    <3>1. UNCHANGED <<vars, host>> BY <2>4 DEF GetSession
    <3>2. \A r \in Requests : sess'[r] = IF r = q THEN registry[host[q]] ELSE sess[r]
      BY <2>4 DEF GetSession, EdgeTypeOK
    <3>3. registry[host[q]] # None =>
            /\ sub[registry[host[q]]] = host[q]
            /\ owner[host[q]] = user[registry[host[q]]]
      BY DEF EdgeTypeOK, RegistryInv, RegisteredIsServed, RegisteredIsOwned
    <3> QED BY <3>1, <3>2, <3>3 DEF ForwardedToOwner, vars
  <2> QED BY <2>3, <2>4, OnlyGetSession
<1> QED BY <1>1, <1>2, EdgeTypeCorrect, EdgeImplementsSessions, RegistrySafe,
           OwnershipIsFinal, PTL DEF EdgeSpec, Spec, OwnerIsFinal

-----------------------------------------------------------------------------
(* What becomes of a webhook.                                              *)

Kept == queue \cup offered

\* A request that can still be forwarded is not stored, one that can still be
\* stored has not reached the agent, and 202 follows the INSERT.
WebhookInv ==
  /\ \A r \in Requests :
       /\ r \in handled => at[r] \in {"waiting", "end"}
       /\ r \in Kept => at[r] \in {"stored", "end"}
       /\ at[r] = "stored" => r \in Kept
  /\ NotBothWays
  /\ AcceptedIsStored

\* Every step of the composition keeps it: where a handler is says what became
\* of its webhook (ServeHTTP).
LEMMA WebhookSafe == EdgeSpec => []WebhookInv
<1> USE DEF WebhookInv, NotBothWays, AcceptedIsStored, Kept
<1>1. EdgeInit => WebhookInv BY DEF EdgeInit
<1>2. EdgeTypeOK /\ WebhookInv /\ [EdgeNext]_allVars => WebhookInv'
  <2> SUFFICES ASSUME EdgeTypeOK, WebhookInv, [EdgeNext]_allVars PROVE WebhookInv'
    OBVIOUS
  <2> USE DEF EdgeTypeOK, requests, events
  <2>1. ASSUME NEW r \in Requests, Handle(r) PROVE WebhookInv'
    <3> USE DEF To, Answer
    <3>1. CASE FindTunnel(r) BY <3>1 DEF FindTunnel
    <3>2. CASE CheckPresence(r) BY <3>2 DEF CheckPresence
    <3>3. CASE GetSession(r) BY <3>3 DEF GetSession
    <3>4. CASE Forward(r) BY <3>4 DEF Forward
    <3>5. CASE ReadAnswer(r) BY <3>5 DEF ReadAnswer
    <3>6. CASE Enqueue(r) BY <3>6 DEF Enqueue
    <3>7. CASE AcceptWebhook(r) BY <3>7 DEF AcceptWebhook
    <3>8. CASE ServeSnapshot(r) BY <3>8 DEF ServeSnapshot
    <3> QED BY <2>1, <3>1, <3>2, <3>3, <3>4, <3>5, <3>6, <3>7, <3>8 DEF Handle
  <2>2. ASSUME NEW r \in Requests, AgentAnswers(r) PROVE WebhookInv'
    BY <2>2 DEF AgentAnswers
  <2>3. ASSUME NEW c \in Conns, ConnectDrain(c) PROVE WebhookInv'
    BY <2>3 DEF ConnectDrain
  <2>4. ASSUME NEW c \in Conns, ListQueue(c) PROVE WebhookInv'
    <3>1. UNCHANGED <<at, answer, handled>> /\ Kept' = Kept BY <2>4 DEF ListQueue
    <3> QED BY <3>1
  <2>5. CASE EdgeRestart BY <2>5 DEF EdgeRestart
  <2>6. UNCHANGED edgeVars => WebhookInv' BY DEF edgeVars
  <2> QED BY <2>1, <2>2, <2>3, <2>4, <2>5, <2>6 DEF EdgeNext, SessionStep, allVars
<1> QED BY <1>1, <1>2, EdgeTypeCorrect, PTL DEF EdgeSpec

\* 202 Accepted is durable, whatever crashes and faults follow.
THEOREM AcceptedWebhooksAreStored == EdgeSpec => []AcceptedIsStored
  BY WebhookSafe, PTL DEF WebhookInv

\* No webhook is both delivered live and queued for replay.
THEOREM LiveOrQueued == EdgeSpec => []NotBothWays
  BY WebhookSafe, PTL DEF WebhookInv
=============================================================================
