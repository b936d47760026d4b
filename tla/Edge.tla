-------------------------------- MODULE Edge --------------------------------
(***************************************************************************)
(* The public side of the edge on top of TunnelSessions: one handler per   *)
(* HTTP request (Router.ServeHTTP, forwardLive, OfflineDispatcher), the    *)
(* webhooks they queue, and the listing each agent connection's drain      *)
(* starts with.  What becomes of a listed event is ReplayQueue's subject.  *)
(*                                                                         *)
(* A handler reads the tunnels table, then Redis, then the Registry, and   *)
(* acts on what it read; agents come and go between any two of its steps.  *)
(***************************************************************************)
EXTENDS TunnelSessions

CONSTANTS
  Requests,   \* HTTP requests to tunnel subdomains
  Kinds,      \* kinds of request: "webhook" and "page"
  StreamFails \* whether a stream may fail on a session that stays open

ASSUME EdgeAssumption == Kinds \subseteq {"webhook", "page"} /\ StreamFails \in BOOLEAN

VARIABLES
  kind,       \* what classify.IsWebhook says of a request
  host,       \* the subdomain a request is for
  at,         \* where the handler of each request is
  sess,       \* the session Registry.Get gave it
  answer,     \* what the client of a request was told, "none" until then
  handled,    \* requests the agent answered, through the local app
  queue,      \* requests stored as queued events, until a drain lists them
  drain,      \* the drain of each connection
  offered     \* events a drain with an open session has listed

edgeVars == <<kind, host, at, sess, answer, handled, queue, drain, offered>>
requests == <<at, sess, answer>>
events == <<queue, drain, offered>>
allVars == <<vars, edgeVars>>

Steps == {"idle", "presence", "session", "forward", "waiting", "offline", "stored", "end"}
Answers == {"none", "app", "empty", "202", "404", "5xx", "snapshot", "503"}

EdgeTypeOK ==
  /\ kind \in [Requests -> Kinds]
  /\ host \in [Requests -> Subs]
  /\ at \in [Requests -> Steps]
  /\ sess \in [Requests -> Conns \cup {None}]
  /\ answer \in [Requests -> Answers]
  /\ handled \in SUBSET Requests
  /\ queue \in SUBSET Requests
  /\ drain \in [Conns -> {"none", "started", "done"}]
  /\ offered \in SUBSET Requests

EdgeInit ==
  /\ Init
  /\ kind \in [Requests -> Kinds]
  /\ host \in [Requests -> Subs]
  /\ at = [r \in Requests |-> "idle"]
  /\ sess = [r \in Requests |-> None]
  /\ answer = [r \in Requests |-> "none"]
  /\ handled = {}
  /\ queue = {}
  /\ drain = [c \in Conns |-> "none"]
  /\ offered = {}

To(r, from, to) == at[r] = from /\ at' = [at EXCEPT ![r] = to]

\* The handler answers a and returns.
Answer(r, from, a) == To(r, from, "end") /\ answer' = [answer EXCEPT ![r] = a]

-----------------------------------------------------------------------------
(* Router.ServeHTTP, for a request the rate limiter lets through.          *)

\* TunnelBySubdomain.
FindTunnel(r) ==
  /\ \/ owner[host[r]] # None /\ To(r, "idle", "presence") /\ UNCHANGED answer
     \/ owner[host[r]] = None /\ Answer(r, "idle", "404")
     \/ DBFaults /\ Answer(r, "idle", "5xx")
  /\ UNCHANGED <<vars, kind, host, sess, handled, events>>

\* Presence.IsOnline: an error is logged and counts as offline.
CheckPresence(r) ==
  /\ \/ presence[host[r]] > 0 /\ To(r, "presence", "session")
     \/ (presence[host[r]] = 0 \/ RedisFaults) /\ To(r, "presence", "offline")
  /\ UNCHANGED <<vars, kind, host, sess, answer, handled, events>>

\* Mutant: the handler keeps the subdomain and looks the session up again.
GetSubdomain(r) ==
  /\ To(r, "session", IF registry[host[r]] = None THEN "offline" ELSE "forward")
  /\ sess' = [sess EXCEPT ![r] = host[r]]
  /\ UNCHANGED <<vars, kind, host, answer, handled, events>>

\* Registry.Get.
GetSession(r) ==
  /\ To(r, "session", IF registry[host[r]] = None THEN "offline" ELSE "forward")
  /\ sess' = [sess EXCEPT ![r] = registry[host[r]]]
  /\ UNCHANGED <<vars, kind, host, answer, handled, events>>

-----------------------------------------------------------------------------
(* forwardLive.                                                            *)

\* A stream fails with its session, or by itself.
Broken(r) == ~open[sess[r]] \/ StreamFails

\* OpenStream and r.Write, which also fails on the client's body.  On an error
\* ServeHTTP only logs and returns, and net/http completes the response as an
\* empty 200.
Forward(r) ==
  /\ \/ To(r, "forward", "waiting") /\ open[sess[r]] /\ UNCHANGED answer
     \/ Answer(r, "forward", "empty") /\ Broken(r)
  /\ UNCHANGED <<vars, kind, host, sess, handled, events>>

\* The agent passes the request to the local app and writes the answer (or a
\* 502 of its own) to the stream.
AgentAnswers(r) ==
  /\ at[r] = "waiting" /\ open[sess[r]] /\ r \notin handled
  /\ handled' = handled \cup {r}
  /\ UNCHANGED <<vars, kind, host, requests, events>>

\* Mutant: a request whose session broke is treated as if it came offline.
ReadOrQueue(r) ==
  /\ \/ r \in handled /\ Answer(r, "waiting", "app")
     \/ To(r, "waiting", "offline") /\ Broken(r) /\ UNCHANGED answer
  /\ UNCHANGED <<vars, kind, host, sess, handled, events>>

\* Mutant: the read does not end with its stream.
ReadForEver(r) ==
  /\ r \in handled /\ Answer(r, "waiting", "app")
  /\ UNCHANGED <<vars, kind, host, sess, handled, events>>

\* http.ReadResponse, without a deadline: the answer, or an error once the
\* session has closed or the agent has closed the stream without an answer it
\* could finish (handleStream's deferred Close), treated as in Forward.
ReadAnswer(r) ==
  /\ \/ r \in handled /\ Answer(r, "waiting", "app")
     \/ Answer(r, "waiting", "empty") /\ Broken(r)
  /\ UNCHANGED <<vars, kind, host, sess, handled, events>>

-----------------------------------------------------------------------------
(* OfflineDispatcher.ServeOffline.                                         *)

\* Mutant: the error of the INSERT is logged and ignored.
EnqueueAnyway(r) ==
  /\ kind[r] = "webhook"
  /\ To(r, "offline", "stored")
  /\ queue' = queue \cup {r} \/ (DBFaults /\ UNCHANGED queue)
  /\ UNCHANGED <<vars, kind, host, sess, answer, handled, drain, offered>>

\* bufferWebhook's INSERT, which may have been done when it fails.  A body that
\* cannot be read or is too large is refused like a failed INSERT.
Enqueue(r) ==
  /\ kind[r] = "webhook"
  /\ \/ To(r, "offline", "stored") /\ queue' = queue \cup {r} /\ UNCHANGED answer
     \/ DBFaults /\ Answer(r, "offline", "5xx") /\ queue' \in {queue, queue \cup {r}}
  /\ UNCHANGED <<vars, kind, host, sess, handled, drain, offered>>

\* bufferWebhook's 202 Accepted.
AcceptWebhook(r) ==
  /\ Answer(r, "stored", "202")
  /\ UNCHANGED <<vars, kind, host, sess, handled, events>>

\* serveSnapshot, or the branded offline page.
ServeSnapshot(r) ==
  /\ kind[r] = "page"
  /\ \E a \in {"snapshot", "503"} : Answer(r, "offline", a)
  /\ UNCHANGED <<vars, kind, host, sess, handled, events>>

Handle(r) ==
  \/ FindTunnel(r) \/ CheckPresence(r) \/ GetSession(r)
  \/ Forward(r) \/ ReadAnswer(r)
  \/ Enqueue(r) \/ AcceptWebhook(r) \/ ServeSnapshot(r)

-----------------------------------------------------------------------------
(* The agents' side.                                                       *)

\* Mutant: OnConnect is not called.
ConnectSilently(c) == FirstBeat(c) /\ UNCHANGED edgeVars

\* handleConn starts OnConnect after its first heartbeat.
ConnectDrain(c) ==
  /\ FirstBeat(c)
  /\ drain' = [drain EXCEPT ![c] = "started"]
  /\ UNCHANGED <<kind, host, requests, handled, queue, offered>>

\* Drain's QueuedEvents by sess.TunnelID, which is zero and matches no event
\* when handleConn did not find its row; events listed for a session that has
\* broken are back in the queue.
ListQueue(c) ==
  /\ drain[c] = "started"
  /\ drain' = [drain EXCEPT ![c] = "done"]
  /\ LET batch == {r \in queue : host[r] = sub[c] /\ tunnel[c] /\ open[c]} IN
       \E listed \in {batch} \cup (IF DBFaults THEN {{}} ELSE {}) :
         /\ queue' = queue \ listed
         /\ offered' = offered \cup listed
  /\ UNCHANGED <<vars, kind, host, requests, handled>>

\* Every other step of TunnelSessions leaves requests and events alone ...
SessionStep(c) ==
  /\ \/ Accept(c) \/ Handshake(c) \/ Drop(c)
     \/ Lookup(c) \/ Put(c) \/ Heartbeat(c) \/ Depart(c) \/ Clear(c) \/ Abandon(c)
  /\ UNCHANGED edgeVars

\* ... but the end of the process, which ends every handler and drain in it.
EdgeRestart ==
  /\ Restart
  /\ at' = [r \in Requests |-> IF at[r] = "idle" THEN "idle" ELSE "end"]
  /\ drain' = [c \in Conns |-> IF drain[c] = "none" THEN "none" ELSE "done"]
  /\ UNCHANGED <<kind, host, sess, answer, handled, queue, offered>>

EdgeNext ==
  \/ \E r \in Requests : Handle(r) \/ AgentAnswers(r)
  \/ \E c \in Conns : SessionStep(c) \/ ConnectDrain(c) \/ ListQueue(c)
  \/ (Tick \/ Shutdown) /\ UNCHANGED edgeVars
  \/ EdgeRestart

EdgeSpec == EdgeInit /\ [][EdgeNext]_allVars

\* Handlers of requests and of connections are goroutines, as drains are, and an
\* agent answers what reaches it.
EdgeFairness ==
  /\ \A r \in Requests : /\ WF_allVars(at[r] # "idle" /\ Handle(r))
                         /\ WF_allVars(AgentAnswers(r))
  /\ \A c \in Conns : WF_vars(Serve(c)) /\ WF_allVars(ListQueue(c))

EdgeFairSpec == EdgeSpec /\ EdgeFairness

-----------------------------------------------------------------------------
(* Properties.                                                             *)

\* A request goes to nobody but its tunnel's owner: the session a handler
\* holds, however stale by the time it is used, was opened for the request's
\* subdomain by the account that owns it (Registry.Get, ClaimTunnel).
ForwardedToOwner ==
  \A r \in Requests : sess[r] # None =>
    sub[sess[r]] = host[r] /\ owner[host[r]] = user[sess[r]]

\* 202 Accepted is durable: a webhook whose sender was told so is stored, and
\* is still stored or was listed by a drain after any crash (bufferWebhook).
AcceptedIsStored ==
  \A r \in Requests : answer[r] = "202" => r \in queue \cup offered

\* One side only takes a request: what the agent answered is not queued too,
\* so a webhook is not delivered live and replayed.
NotBothWays == handled \cap (queue \cup offered) = {}

\* Every request is answered, or its connection breaks with the process: no
\* handler waits for ever on a session that has been replaced or has broken.
RequestIsAnswered ==
  \A r \in Requests : at[r] # "idle" ~> at[r] = "end"

\* A webhook stored before an agent connects is listed by that connection's
\* drain: while nothing fails, it is offered unless the session breaks first.
StoredBeforeDrain ==
  \A c \in Conns : \A r \in Requests :
    pc[c] = "put" /\ open[c] /\ r \in queue /\ host[r] = sub[c] /\ tunnel[c]
      ~> r \in offered \/ ~open[c]

\* A webhook sent while the agent is away gets 202 and is queued (README.md:
\* 126-127): no webhook is answered with success and then neither reached the
\* app nor was stored.
NoWebhookSwallowed ==
  \A r \in Requests :
    kind[r] = "webhook" /\ answer[r] \in {"app", "empty", "202"} =>
      r \in handled \cup queue \cup offered
=============================================================================
