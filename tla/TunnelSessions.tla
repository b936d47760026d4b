--------------------------- MODULE TunnelSessions ---------------------------
(***************************************************************************)
(* The tunnel server: one goroutine per agent connection (handleConn and   *)
(* heartbeatLoop), the tunnels table it claims a subdomain in, the         *)
(* in-memory session Registry, and the Redis presence key of a subdomain.  *)
(*                                                                         *)
(* A connection is used once; an agent that reconnects uses another one.   *)
(* A step is one statement that another goroutine, PostgreSQL or Redis can *)
(* observe.  Time advances in ticks of PresenceTTL / TTL; a ticker that    *)
(* has fired is served before the next tick (Timely in Tick).              *)
(***************************************************************************)
EXTENDS Integers

CONSTANTS
  Conns,      \* agent connections the listener may accept
  Subs,       \* subdomains
  Users,      \* accounts
  None,       \* no connection, no account
  TTL,        \* lifetime of a presence key, in ticks
  Period,     \* heartbeat period, in ticks (PresenceTTL / 3)
  DBFaults,   \* whether a PostgreSQL call may fail
  RedisFaults \* whether a Redis call may fail

ASSUME NoneAssumption == None \notin Conns \cup Users
ASSUME ClockAssumption == /\ TTL \in Nat /\ Period \in Nat \ {0}
                          /\ Period < TTL
                          /\ {DBFaults, RedisFaults} \subseteq BOOLEAN

VARIABLES
  pc,         \* where the handler of each connection is
  sub,        \* the subdomain the agent of a connection asks for
  user,       \* the account its token belongs to
  open,       \* is the yamux session open, as the edge sees it
  tunnel,     \* did the handler find its tunnel row (sess.TunnelID # 0)
  timer,      \* ticks until the heartbeat ticker fires
  owner,      \* tunnels.user_id, by subdomain
  registry,   \* Registry.sessions
  presence,   \* ticks the presence key still has to live, 0 when absent
  cleared,    \* history: whose Presence.Clear removed the key, None once it is written
  stopping    \* the process context is cancelled

key == <<presence, cleared>>
vars == <<pc, sub, user, open, tunnel, timer, owner, registry, key, stopping>>

\* A handler in one of these places has run Registry.Put for its session.
InLoop == {"beat", "serve", "clear"}
Places == {"idle", "hello", "select", "insert", "update", "reply", "lookup",
           "put", "done"} \cup InLoop

TypeOK ==
  /\ pc \in [Conns -> Places]
  /\ sub \in [Conns -> Subs]
  /\ user \in [Conns -> Users]
  /\ open \in [Conns -> BOOLEAN]
  /\ tunnel \in [Conns -> BOOLEAN]
  /\ timer \in [Conns -> 0..Period]
  /\ owner \in [Subs -> Users \cup {None}]
  /\ registry \in [Subs -> Conns \cup {None}]
  /\ presence \in [Subs -> 0..TTL]
  /\ cleared \in [Subs -> Conns \cup {None}]
  /\ stopping \in BOOLEAN

\* What an agent will say in its handshake (sub, user) is an input, chosen once.
Init ==
  /\ pc = [c \in Conns |-> "idle"]
  /\ sub \in [Conns -> Subs]
  /\ user \in [Conns -> Users]
  /\ open = [c \in Conns |-> FALSE]
  /\ tunnel = [c \in Conns |-> FALSE]
  /\ timer = [c \in Conns |-> 0]
  /\ owner = [s \in Subs |-> None]
  /\ registry = [s \in Subs |-> None]
  /\ presence = [s \in Subs |-> 0]
  /\ cleared = [s \in Subs |-> None]
  /\ stopping = FALSE

Goto(c, from, to) == pc[c] = from /\ pc' = [pc EXCEPT ![c] = to]

\* ymux.Close() by the handler itself, which then returns.
HangUp(c, from) == Goto(c, from, "done") /\ open' = [open EXCEPT ![c] = FALSE]

\* A call made with the process context fails once that is cancelled.
MayFail == DBFaults \/ stopping

input == <<sub, user>>

-----------------------------------------------------------------------------
(* The handshake.                                                          *)

\* The accept loop of ListenAndServe; the rate limiter may also refuse, which
\* leaves every variable alone.
Accept(c) ==
  /\ ~stopping
  /\ Goto(c, "idle", "hello")
  /\ open' = [open EXCEPT ![c] = TRUE]
  /\ UNCHANGED <<input, tunnel, timer, owner, registry, key, stopping>>

\* No stream, no handshake within the deadline, a wrong version, an unknown
\* token or a malformed subdomain.
Refuse(c) ==
  /\ HangUp(c, "hello")
  /\ UNCHANGED <<input, tunnel, timer, owner, registry, key, stopping>>

\* The version is right and UserByToken finds the account.
Authenticate(c) ==
  /\ open[c] /\ ~stopping
  /\ Goto(c, "hello", "select")
  /\ UNCHANGED <<input, open, tunnel, timer, owner, registry, key, stopping>>

\* Mutant: the claim does not compare the owner with the account.
ClaimSelectAny(c) ==
  /\ \/ owner[sub[c]] = None /\ Goto(c, "select", "insert") /\ UNCHANGED open
     \/ owner[sub[c]] # None /\ Goto(c, "select", "update") /\ UNCHANGED open
     \/ MayFail /\ HangUp(c, "select")
  /\ UNCHANGED <<input, tunnel, timer, owner, registry, key, stopping>>

\* Mutant: a deferred Presence.Clear also runs when the claim is refused.
ClaimRefusalClears(c) ==
  /\ \/ owner[sub[c]] = None /\ Goto(c, "select", "insert") /\ UNCHANGED <<open, key>>
     \/ owner[sub[c]] = user[c] /\ Goto(c, "select", "update") /\ UNCHANGED <<open, key>>
     \/ /\ owner[sub[c]] \notin {None, user[c]} \/ MayFail
        /\ HangUp(c, "select")
        /\ presence' = [presence EXCEPT ![sub[c]] = 0]
        /\ cleared' = [cleared EXCEPT ![sub[c]] = c]
  /\ UNCHANGED <<input, tunnel, timer, owner, registry, stopping>>

\* ClaimTunnel's SELECT, and the branch taken on what it found.
ClaimSelect(c) ==
  /\ \/ owner[sub[c]] = None /\ Goto(c, "select", "insert") /\ UNCHANGED open
     \/ owner[sub[c]] = user[c] /\ Goto(c, "select", "update") /\ UNCHANGED open
     \/ owner[sub[c]] \notin {None, user[c]} /\ HangUp(c, "select")
     \/ MayFail /\ HangUp(c, "select")
  /\ UNCHANGED <<input, tunnel, timer, owner, registry, key, stopping>>

\* Mutant: INSERT ... ON CONFLICT DO UPDATE SET user_id.
ClaimUpsert(c) ==
  /\ \/ /\ Goto(c, "insert", "reply")
        /\ owner' = [owner EXCEPT ![sub[c]] = user[c]]
        /\ UNCHANGED open
     \/ MayFail /\ HangUp(c, "insert") /\ UNCHANGED owner
  /\ UNCHANGED <<input, tunnel, timer, registry, key, stopping>>

\* ClaimTunnel's INSERT, which the UNIQUE constraint on subdomain may refuse;
\* a call that fails may have inserted the row.
ClaimInsert(c) ==
  /\ \/ /\ owner[sub[c]] = None
        /\ owner' = [owner EXCEPT ![sub[c]] = user[c]]
        /\ \/ Goto(c, "insert", "reply") /\ UNCHANGED open
           \/ MayFail /\ HangUp(c, "insert")
     \/ /\ owner[sub[c]] # None \/ MayFail
        /\ HangUp(c, "insert")
        /\ UNCHANGED owner
  /\ UNCHANGED <<input, tunnel, timer, registry, key, stopping>>

\* ClaimTunnel's UPDATE of the buffer rules of a row the account owns.
ClaimUpdate(c) ==
  /\ \/ Goto(c, "update", "reply") /\ UNCHANGED open
     \/ MayFail /\ HangUp(c, "update")
  /\ UNCHANGED <<input, tunnel, timer, owner, registry, key, stopping>>

\* The positive handshake reply; writing it fails on a closed session.
Reply(c) ==
  /\ \/ open[c] /\ Goto(c, "reply", "lookup") /\ UNCHANGED open
     \/ ~open[c] /\ HangUp(c, "reply")
  /\ UNCHANGED <<input, tunnel, timer, owner, registry, key, stopping>>

-----------------------------------------------------------------------------
(* The session.                                                            *)

\* TunnelBySubdomain: an error is ignored and leaves TunnelID at zero.
Lookup(c) ==
  /\ Goto(c, "lookup", "put")
  /\ \E found \in {TRUE} \cup (IF MayFail THEN {FALSE} ELSE {}) :
       tunnel' = [tunnel EXCEPT ![c] = found]
  /\ UNCHANGED <<input, open, timer, owner, registry, key, stopping>>

\* Registry.Put closes the session it replaces.
Put(c) ==
  /\ Goto(c, "put", "beat")
  /\ registry' = [registry EXCEPT ![sub[c]] = c]
  /\ open' = [d \in Conns |-> open[d] /\ (d = c \/ d # registry[sub[c]])]
  /\ UNCHANGED <<input, tunnel, timer, owner, key, stopping>>

\* Presence.Heartbeat, whose error is only logged.
Beat(s) ==
  \/ presence' = [presence EXCEPT ![s] = TTL] /\ cleared' = [cleared EXCEPT ![s] = None]
  \/ (RedisFaults \/ stopping) /\ UNCHANGED key

\* Mutant: the ticker gets the lifetime of the key, not a third of it.
FirstBeatSlow(c) ==
  /\ Goto(c, "beat", "serve")
  /\ timer' = [timer EXCEPT ![c] = TTL]
  /\ Beat(sub[c])
  /\ UNCHANGED <<input, open, tunnel, owner, registry, stopping>>

\* The first heartbeat and the new ticker; `go OnConnect(sess)` starts here.
FirstBeat(c) ==
  /\ Goto(c, "beat", "serve")
  /\ timer' = [timer EXCEPT ![c] = Period]
  /\ Beat(sub[c])
  /\ UNCHANGED <<input, open, tunnel, owner, registry, stopping>>

\* Mutant: EXPIRE instead of SET, which does not bring back an absent key.
HeartbeatExpire(c) ==
  /\ pc[c] = "serve" /\ timer[c] = 0
  /\ timer' = [timer EXCEPT ![c] = Period]
  /\ IF presence[sub[c]] > 0 THEN Beat(sub[c]) ELSE UNCHANGED key
  /\ UNCHANGED <<pc, input, open, tunnel, owner, registry, stopping>>

\* The ticker branch of heartbeatLoop: select may take it on a closed session.
Heartbeat(c) ==
  /\ pc[c] = "serve" /\ timer[c] = 0
  /\ timer' = [timer EXCEPT ![c] = Period]
  /\ Beat(sub[c])
  /\ UNCHANGED <<pc, input, open, tunnel, owner, registry, stopping>>

\* Mutant: Registry.Remove does not compare the session.
DepartAnyone(c) ==
  /\ ~open[c]
  /\ Goto(c, "serve", "clear")
  /\ registry' = [registry EXCEPT ![sub[c]] = None]
  /\ UNCHANGED <<input, open, tunnel, timer, owner, key, stopping>>

\* Mutant: the session is never removed.
DepartLeaking(c) ==
  /\ ~open[c]
  /\ Goto(c, "serve", "clear")
  /\ UNCHANGED <<input, open, tunnel, timer, owner, registry, key, stopping>>

\* Mutant: the loop watches for its replacement, not for its own session.
DepartReplaced(c) ==
  /\ registry[sub[c]] # c
  /\ Goto(c, "serve", "clear")
  /\ UNCHANGED <<input, open, tunnel, timer, owner, registry, key, stopping>>

\* The closeCh branch: Registry.Remove ...
Depart(c) ==
  /\ ~open[c]
  /\ Goto(c, "serve", "clear")
  /\ registry' = [s \in Subs |-> IF s = sub[c] /\ registry[s] = c
                                THEN None ELSE registry[s]]
  /\ UNCHANGED <<input, open, tunnel, timer, owner, key, stopping>>

\* ... then Presence.Clear, whoever holds the subdomain by now.
Clear(c) ==
  /\ Goto(c, "clear", "done")
  /\ \/ /\ presence' = [presence EXCEPT ![sub[c]] = 0]
        /\ cleared' = IF presence[sub[c]] > 0 THEN [cleared EXCEPT ![sub[c]] = c]
                                              ELSE cleared
     \/ RedisFaults /\ UNCHANGED key
  /\ UNCHANGED <<input, open, tunnel, timer, owner, registry, stopping>>

\* The ctx.Done branch: the handler returns and leaves everything behind.
Abandon(c) ==
  /\ stopping
  /\ Goto(c, "serve", "done")
  /\ UNCHANGED <<input, open, tunnel, timer, owner, registry, key, stopping>>

-----------------------------------------------------------------------------
(* The environment.                                                        *)

\* The agent disconnects, or yamux gives up on it.
Drop(c) ==
  /\ open[c]
  /\ open' = [open EXCEPT ![c] = FALSE]
  /\ UNCHANGED <<pc, input, tunnel, timer, owner, registry, key, stopping>>

\* One tick of the clock; it waits for the tickers that have fired.
Tick ==
  /\ \A c \in Conns : pc[c] = "serve" => timer[c] > 0
  /\ timer' = [c \in Conns |-> IF pc[c] = "serve" THEN timer[c] - 1 ELSE timer[c]]
  /\ presence' = [s \in Subs |-> IF presence[s] > 0 THEN presence[s] - 1 ELSE 0]
  /\ UNCHANGED <<pc, input, open, tunnel, owner, registry, cleared, stopping>>

\* SIGTERM cancels the process context.
Shutdown ==
  /\ ~stopping
  /\ stopping' = TRUE
  /\ UNCHANGED <<pc, input, open, tunnel, timer, owner, registry, key>>

\* The process ends, by a crash or after a shutdown, and another one starts:
\* goroutines, sessions and the Registry are gone, PostgreSQL and Redis are not.
Restart ==
  /\ pc' = [c \in Conns |-> IF pc[c] = "idle" THEN "idle" ELSE "done"]
  /\ open' = [c \in Conns |-> FALSE]
  /\ timer' = [c \in Conns |-> 0]
  /\ registry' = [s \in Subs |-> None]
  /\ stopping' = FALSE
  /\ UNCHANGED <<input, tunnel, owner, key>>

Handshake(c) ==
  \/ Refuse(c) \/ Authenticate(c) \/ ClaimSelect(c) \/ ClaimInsert(c)
  \/ ClaimUpdate(c) \/ Reply(c)

Serve(c) ==
  \/ Lookup(c) \/ Put(c) \/ FirstBeat(c) \/ Heartbeat(c)
  \/ Depart(c) \/ Clear(c) \/ Abandon(c)

Next ==
  \/ \E c \in Conns : Accept(c) \/ Handshake(c) \/ Serve(c) \/ Drop(c)
  \/ Tick \/ Shutdown \/ Restart

Spec == Init /\ [][Next]_vars

\* A goroutine that can run does, select takes each ready branch sooner or
\* later (it picks one at random), and time passes.  Nothing obliges an agent
\* to connect or to drop, or the process to stop.
Fairness ==
  /\ \A c \in Conns : /\ WF_vars(Handshake(c))
                      /\ WF_vars(Serve(c))
                      /\ WF_vars(Depart(c))
                      /\ WF_vars(Abandon(c))
  /\ WF_vars(Tick)

FairSpec == Spec /\ Fairness

-----------------------------------------------------------------------------
(* Properties.                                                             *)

\* Registry.Put and Registry.Remove together keep one live session per
\* subdomain: a session that has been put and is still open is the registered
\* one, so an old connection is closed when it is replaced and the disconnect
\* of an old connection never unregisters a newer one.
LiveIsRegistered ==
  \A c \in Conns : pc[c] \in InLoop /\ open[c] => registry[sub[c]] = c

\* No entry of the Registry is leaked: whatever is registered belongs to its
\* subdomain and still has a handler that will remove it, until a shutdown
\* makes the handlers return.
RegisteredIsServed ==
  \A s \in Subs : registry[s] # None =>
    /\ sub[registry[s]] = s
    /\ pc[registry[s]] \in {"beat", "serve"} \/ stopping

\* authenticate's answer survives until Put: the account behind a registered
\* session owns the tunnel, however the claims of two accounts interleaved
\* between ClaimTunnel's SELECT and INSERT.
RegisteredIsOwned ==
  \A s \in Subs : registry[s] # None => owner[s] = user[registry[s]]

\* A subdomain, once claimed, stays with its account: a concurrent claim that
\* saw no row does not take it over.
OwnerIsFinal ==
  [][\A s \in Subs : owner[s] # None => owner'[s] = owner[s]]_vars

\* While Redis answers, heartbeatLoop keeps the key of a serving connection
\* alive: when the key is not there, it was removed by the Presence.Clear of another
\* connection of the same account for the same subdomain, and no heartbeat has
\* written it since.  A connection that was refused hides nothing.
OnlyStaleClearHides ==
  ~RedisFaults /\ ~stopping =>
    \A c \in Conns : pc[c] = "serve" /\ presence[sub[c]] = 0 =>
      \E d \in Conns \ {c} :
        sub[d] = sub[c] /\ user[d] = user[c] /\ cleared[sub[c]] = d

\* A stale Presence.Clear does not last: the next heartbeat of the serving
\* connection brings its tunnel back online.
HiddenComesBack ==
  \A c \in Conns :
    pc[c] = "serve" /\ open[c] ~> presence[sub[c]] > 0 \/ ~open[c] \/ stopping

Served(s) == \E c \in Conns : sub[c] = s /\ pc[c] \in InLoop /\ open[c]

\* A tunnel without a session does not stay online, whether its session broke,
\* was abandoned at a shutdown or ended with the process: it goes offline, by
\* Presence.Clear or by expiry, unless another session serves it.
UnservedGoesOffline ==
  \A s \in Subs : ~Served(s) ~> presence[s] = 0 \/ Served(s)
=============================================================================
