------------------------------- MODULE Agents -------------------------------
(***************************************************************************)
(* The agents' reconnect loop (agent.Run) against a server process that    *)
(* starts, migrates, ends and starts again: composition with               *)
(* ServerProcess.  Each side of a connection learns by itself that it is   *)
(* gone.  The handshake and the Registry are those of TunnelSessions, for  *)
(* agents of one account that name the same subdomain, with the claim and  *)
(* the heartbeat left out.                                                 *)
(*                                                                         *)
(* A connection that both sides have left is used again.  Waiting times    *)
(* are left out: backoff is the value the loop waits by, not a delay.      *)
(***************************************************************************)
EXTENDS ServerProcess

CONSTANTS
  AgentIds,
  MaxConns,              \* bound on connections at a time
  Server,                \* the process the agents' address leads to
  MinBackoff, MaxBackoff

Conns == 1..MaxConns

ASSUME AgentAssumption ==
  /\ None \notin AgentIds \cup Conns /\ Server \in Procs
  /\ MaxConns \in Nat
  /\ MinBackoff \in Nat \ {0} /\ MaxBackoff \in Nat /\ MinBackoff <= MaxBackoff

VARIABLES
  place,     \* where Run and connectAndServe of each agent are
  link,      \* the connection of each agent
  backoff,
  cancelled, \* the agent's context
  up,        \* is the session open as the agent sees it
  open,      \* is the session open as the edge sees it
  handler,   \* where the edge's handler of each connection is
  welcomed,  \* the edge has written a positive reply
  registry   \* the session in Registry.sessions, None when there is none

agentVars == <<place, link, backoff, cancelled>>
connVars == <<up, open, handler, welcomed, registry>>
allVars == <<procVars, agentVars, connVars>>

AgentsTypeOK ==
  /\ ProcTypeOK
  /\ place \in [AgentIds -> {"dial", "shake", "serve", "pause", "returned"}]
  /\ link \in [AgentIds -> Conns \cup {None}]
  /\ backoff \in [AgentIds -> MinBackoff..MaxBackoff]
  /\ cancelled \in [AgentIds -> BOOLEAN]
  /\ up \in [Conns -> BOOLEAN] /\ open \in [Conns -> BOOLEAN]
  /\ welcomed \in [Conns -> BOOLEAN]
  /\ handler \in [Conns -> {"idle", "hello", "put", "serve"}]
  /\ registry \in Conns \cup {None}

\* An agent is run from the start or not at all.
AgentsInit ==
  /\ ProcInit
  /\ place \in [AgentIds -> {"dial", "returned"}]
  /\ link = [a \in AgentIds |-> None]
  /\ backoff = [a \in AgentIds |-> MinBackoff]
  /\ cancelled = [a \in AgentIds |-> FALSE]
  /\ up = [c \in Conns |-> FALSE]
  /\ open = [c \in Conns |-> FALSE]
  /\ handler = [c \in Conns |-> "idle"]
  /\ welcomed = [c \in Conns |-> FALSE]
  /\ registry = None

Move(a, from, to) == place[a] = from /\ place' = [place EXCEPT ![a] = to]

Free == {c \in Conns : handler[c] = "idle" /\ ~up[c] /\ \A a \in AgentIds : link[a] # c}

\* connectAndServe's deferred ymux.Close; the edge learns of it later.
Leave(a) ==
  /\ up' = [up EXCEPT ![link[a]] = FALSE]
  /\ welcomed' = [welcomed EXCEPT ![link[a]] = FALSE]
  /\ link' = [link EXCEPT ![a] = None]

-----------------------------------------------------------------------------
(* agent.Run and connectAndServe.                                          *)

\* The loop's ctx.Err check and its select; no call under way notices the
\* context before it ends.
Return(a) ==
  /\ cancelled[a]
  /\ Move(a, "dial", "returned") \/ Move(a, "pause", "returned")
  /\ UNCHANGED <<procVars, link, backoff, cancelled, connVars>>

\* The dial, and the server's accept; no reply is there yet.
Dial(a) ==
  /\ ~cancelled[a] /\ at[Server] = "serve"
  /\ Move(a, "dial", "shake")
  /\ \E c \in Free :
       /\ \A d \in Free : c <= d
       /\ link' = [link EXCEPT ![a] = c]
       /\ up' = [up EXCEPT ![c] = TRUE]
       /\ open' = [open EXCEPT ![c] = TRUE]
       /\ handler' = [handler EXCEPT ![c] = "hello"]
       /\ welcomed' = [welcomed EXCEPT ![c] = FALSE]
  /\ UNCHANGED <<procVars, backoff, cancelled, registry>>

\* Nobody listens.
DialFails(a) ==
  /\ ~cancelled[a] /\ at[Server] # "serve"
  /\ Move(a, "dial", "pause")
  /\ UNCHANGED <<procVars, link, backoff, cancelled, connVars>>

\* The positive reply arrives: acceptLoop.
Connect(a) ==
  /\ Move(a, "shake", "serve")
  /\ welcomed[link[a]]
  /\ UNCHANGED <<procVars, link, backoff, cancelled, connVars>>

\* The handshake is refused, the session breaks, or the reply is not there
\* within handshakeTimeout: no public URL, and the backoff goes on.
ShakeFails(a) ==
  /\ Move(a, "shake", "pause")
  /\ \/ ~(open[link[a]] /\ up[link[a]]) /\ UNCHANGED troubles
     \/ ~welcomed[link[a]] /\ Trouble
  /\ Leave(a)
  /\ UNCHANGED <<at, has, file, applied, lock, signalled,
                 backoff, cancelled, open, handler, registry>>

\* Mutant: acceptLoop without the goroutine that waits for ctx.Done.
SessionEndsAlone(a) ==
  /\ Move(a, "serve", "pause")
  /\ ~(open[link[a]] /\ up[link[a]])
  /\ Leave(a)
  /\ backoff' = [backoff EXCEPT ![a] = MinBackoff]
  /\ UNCHANGED <<procVars, cancelled, open, handler, registry>>

\* acceptLoop ends with the session, which its goroutine closes when the
\* context is cancelled.  However short it was, the backoff is reset.
SessionEnds(a) ==
  /\ Move(a, "serve", "pause")
  /\ cancelled[a] \/ ~(open[link[a]] /\ up[link[a]])
  /\ Leave(a)
  /\ backoff' = [backoff EXCEPT ![a] = MinBackoff]
  /\ UNCHANGED <<procVars, cancelled, open, handler, registry>>

\* Mutant: the doubled backoff is not capped.
RetryUncapped(a) ==
  /\ Move(a, "pause", "dial")
  /\ backoff' = [backoff EXCEPT ![a] = 2 * @]
  /\ UNCHANGED <<procVars, link, cancelled, connVars>>

\* time.After(jitter(backoff)), then the doubling up to maxBackoff.
Retry(a) ==
  /\ Move(a, "pause", "dial")
  /\ backoff' = [backoff EXCEPT ![a] = IF 2 * @ > MaxBackoff THEN MaxBackoff ELSE 2 * @]
  /\ UNCHANGED <<procVars, link, cancelled, connVars>>

\* Ctrl+C.
Cancel(a) ==
  /\ ~cancelled[a] /\ Trouble
  /\ cancelled' = [cancelled EXCEPT ![a] = TRUE]
  /\ UNCHANGED <<at, has, file, applied, lock, signalled, place, link, backoff, connVars>>

Run(a) ==
  \/ Return(a) \/ Dial(a) \/ DialFails(a) \/ Connect(a) \/ ShakeFails(a)
  \/ SessionEnds(a) \/ Retry(a)

-----------------------------------------------------------------------------
(* handleConn and the Registry.                                            *)

\* authenticate succeeds.
Welcome(c) ==
  /\ handler[c] = "hello" /\ open[c] /\ at[Server] = "serve"
  /\ handler' = [handler EXCEPT ![c] = "put"]
  /\ welcomed' = [welcomed EXCEPT ![c] = TRUE]
  /\ UNCHANGED <<procVars, agentVars, up, open, registry>>

\* The session breaks, or a statement fails, or the rate limiter refuses.
Refuse(c) ==
  /\ handler[c] = "hello"
  /\ (~open[c] /\ UNCHANGED troubles) \/ Failure(Server)
  /\ handler' = [handler EXCEPT ![c] = "idle"]
  /\ open' = [open EXCEPT ![c] = FALSE]
  /\ UNCHANGED <<at, has, file, applied, lock, signalled,
                 agentVars, up, welcomed, registry>>

\* Registry.Put closes the session it replaces.
Put(c) ==
  /\ handler[c] = "put"
  /\ handler' = [handler EXCEPT ![c] = "serve"]
  /\ registry' = c
  /\ open' = [d \in Conns |-> open[d] /\ (d = c \/ d # registry)]
  /\ UNCHANGED <<procVars, agentVars, up, welcomed>>

\* heartbeatLoop's closeCh branch: Registry.Remove.
Depart(c) ==
  /\ handler[c] = "serve" /\ ~open[c] /\ at[Server] = "serve"
  /\ handler' = [handler EXCEPT ![c] = "idle"]
  /\ registry' = IF registry = c THEN None ELSE registry
  /\ UNCHANGED <<procVars, agentVars, up, open, welcomed>>

Handle(c) == Welcome(c) \/ Refuse(c) \/ Put(c) \/ Depart(c)

-----------------------------------------------------------------------------
(* The network, and the process.                                           *)

\* A connection breaks: one side notices at once, the other one later.
Break(c) ==
  /\ Trouble
  /\ \/ open[c] /\ open' = [open EXCEPT ![c] = FALSE] /\ UNCHANGED up
     \/ up[c] /\ up' = [up EXCEPT ![c] = FALSE] /\ UNCHANGED open
  /\ UNCHANGED <<at, has, file, applied, lock, signalled,
                 agentVars, handler, welcomed, registry>>

\* The edge learns that the agent is gone, by a FIN or by yamux's keepalive.
Notice(c) ==
  /\ open[c] /\ ~up[c]
  /\ open' = [open EXCEPT ![c] = FALSE]
  /\ UNCHANGED <<procVars, agentVars, up, handler, welcomed, registry>>

\* A process that ends takes its sessions with it.
Sessions(p) ==
  /\ IF p = Server /\ at'[p] = "off"
     THEN /\ open' = [c \in Conns |-> FALSE]
          /\ handler' = [c \in Conns |-> "idle"]
          /\ registry' = None
     ELSE UNCHANGED <<open, handler, registry>>
  /\ UNCHANGED <<agentVars, up, welcomed>>

AgentsNext ==
  \/ \E a \in AgentIds : Run(a) \/ Cancel(a)
  \/ \E c \in Conns : Handle(c) \/ Break(c) \/ Notice(c)
  \/ \E p \in Procs : ProcStep(p) /\ Sessions(p)

AgentsSpec == AgentsInit /\ [][AgentsNext]_allVars

\* Goroutines run, a lost connection is noticed, the server is restarted
\* whenever it ends, and PostgreSQL grants the lock in the order of asking.
AgentsFairness ==
  /\ \A a \in AgentIds : WF_allVars(Run(a))
  /\ \A c \in Conns : WF_allVars(Handle(c)) /\ WF_allVars(Notice(c))
  /\ \A p \in Procs : WF_allVars(RunServe(p) /\ Sessions(p))
                      /\ SF_allVars(Lock(p) /\ Sessions(p))
  /\ WF_allVars(Start(Server) /\ Sessions(Server))

AgentsFairSpec == AgentsSpec /\ AgentsFairness

-----------------------------------------------------------------------------
(* Properties.                                                             *)

\* The server has the agent's open session registered under its subdomain.
Served(c) ==
  at[Server] = "serve" /\ handler[c] = "serve" /\ open[c] /\ registry = c

Connected(a) == place[a] = "serve" /\ Served(link[a]) /\ up[link[a]]

Others(a) == AgentIds \ {a}

\* Run "connects and serves forever, reconnecting with backoff on failure,
\* until ctx is cancelled" (agent.go:34-35).  Once nothing more goes wrong: a
\* cancelled agent has returned; an agent that is alone is connected for good,
\* whatever its earlier connections left at the server; and agents that keep
\* replacing one another do not leave their tunnel without a session for good.
AgentsSettle ==
  /\ \A a \in AgentIds :
       /\ cancelled[a] ~> place[a] = "returned"
       /\ <>[](\A b \in Others(a) : place[b] = "returned") =>
            <>[](Connected(a) \/ place[a] = "returned")
  /\ []<>((\E c \in Conns : Served(c)) \/ \A a \in AgentIds : place[a] = "returned")
=============================================================================
