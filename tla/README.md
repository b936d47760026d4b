# Verification of liveurl

liveurl gives a local web app a public URL. A server process (`liveurld`) holds
one yamux session per connected agent and forwards HTTP requests over it. While
the agent is away, the server stores incoming webhooks in PostgreSQL and replays
them when the agent is back, and serves pages from a snapshot cache.

This directory holds TLA+ modules of that server, TLC configurations that check
them on small instances, and proofs that the TLA+ proof system (TLAPS) checks for
every value of the constants. Paths below are relative to the repository.

## The system

| Component | State it keeps | Operations that change it | Meets |
|---|---|---|---|
| Tunnel server (`internal/edge/tunnelserver.go`) | a goroutine, a ticker and a yamux session per connection | accept, handshake, heartbeat, disconnect | tunnels table, registry, presence, replay |
| Session registry (`internal/edge/session.go`) | map subdomain -> session, in memory | Put, Remove (Get only reads) | tunnel server writes; router and control API read |
| Presence (`internal/store/presence.go`) | a Redis key per subdomain with a lifetime | Heartbeat, Clear | tunnel server writes; router and control API read |
| Tunnels table (`internal/store/tunnels.go`) | row per subdomain: its owner | ClaimTunnel | every lookup by subdomain |
| Replay engine (`internal/edge/replay/replay.go`) | position in the listed batch | Drain, ReplayEvent | event rows, a session's streams |
| Webhook events (`internal/store/events.go`) | row per webhook: state, attempts | Enqueue, MarkReplaying, MarkDelivered, MarkFailed, Requeue, ClearEvents | dispatcher inserts; drains and control API change |
| Router and live proxy (`internal/edge/router.go`, `proxy.go`) | a goroutine per request | ServeHTTP, forwardLive | reads tunnels, presence, registry; uses a session |
| Offline dispatcher (`internal/edge/offline.go`) | none | bufferWebhook, serveSnapshot | event rows, snapshot rows |
| Classifier (`internal/edge/classify/classify.go`) | none | pure | dispatcher |
| Snapshot cache (`internal/store/snapshots.go`, `internal/edge/snapshot/`) | row per page: body, captured_at | PutSnapshot | live proxy writes, dispatcher reads |
| Rate limiter (`internal/edge/ratelimit.go`) | map key -> token bucket, lastSweep | Allow (with sweepLocked) | router, tunnel listener, control API |
| Control API (`internal/control/server.go`) | none of its own | sign-up, log-in, manual replay, clear | users, events, registry |
| Accounts (`internal/store/users.go`, `cmd/liveurld/main.go`) | users, tokens, passwords | SignUp, VerifyPassword, NewToken, ResetPassword, seed | control API, handshake |
| Agent (`internal/agent/agent.go`) | one session, a backoff | dial, handshake, accept streams, reconnect | tunnel server |
| Relay of one exchange (`internal/edge/proxy.go`, `internal/agent/stream.go`) | a handler, readers and copying goroutines on either side | forwardLive, handleStream, passthroughUpgrade twice | the client, a stream, the local app, the snapshot cache |
| Migrations (`internal/store/store.go`) | `schema_migrations`, the advisory lock | Open, Migrate | other processes of the same database |
| Server process (`cmd/liveurld/main.go`) | the root context, `errc` | start, cancel, shut down | everything |
| Dashboard, CLI, packaging | what the page shows | calls to the control API | control API |

Everything in memory (registry, goroutines, sessions, limiters) is lost with the
process; PostgreSQL and Redis survive it.

### What is hard here

* **Two connections of one subdomain.** An agent's old connection may linger
  until yamux notices that it is dead. `Put` closes the replaced session, and the
  old handler runs its disconnect path later, on state that belongs to its
  successor by then.
* **Decisions on old reads.** The router reads presence, then the registry,
  and then either uses a session that may break or inserts an event that nobody
  may list. A drain works through a list read before it began.
* **Statements without a transaction around them.** A replay is MarkReplaying,
  a request, an answer, and one or two more statements. The process may end, a
  context may run out, or a database may fail between any two, and a
  statement that failed for its caller may have been executed.
* **Concurrent transactions.** Overlapping `PutSnapshot` calls see each other's
  pages only after commit and hold row locks for each other. `ClaimTunnel`
  selects and inserts without a transaction.
* **Two ends of one connection.** Agent and edge learn separately that a session
  is over, or that a handshake succeeded. Two agents on one subdomain replace each
  other without end. A process may start and end with agents in any of these states.
* **A cut exchange.** A body is copied to the client and to the cache while any of
  client, session and app may go. After an upgrade four goroutines copy, the first
  that ends closes its side, and buffered readers hold bytes nobody asked for yet.
* **Limits.** Retry limit, cache cap, presence lifetime, idle time of a bucket,
  body limit, cap of the backoff.

`PROJECT.json` lists every such hazard at its line, with the properties that
would catch it going wrong.

### What makes each component correct

* Tunnel server, registry, presence: the open session of a subdomain is the
  registered one; whatever is registered has a handler that will remove it; a
  subdomain belongs to the account that claimed it first; presence says offline
  for a served tunnel only for a reason, and not for long, and in the end for one
  that has no session.
* Queue and replay: an event is delivered only after the app acknowledged it,
  is given up only after enough answers, and a drain takes an event up only after
  every older one it listed was acknowledged. Together: an at-least-once queue.
* Router and dispatcher: requests reach the owner only; 202 means stored; one
  side only takes a request; every request is answered.
* Snapshot cache: the cap holds up to overlaps, eviction is oldest first, and
  nothing hangs.
* Accounts: nobody gets an account that was there before; sign-up is all or
  nothing; a token that was shown works.
* Agent and process: a cancelled agent returns; one that is left alone ends up
  connected for good; agents that replace each other leave no tunnel without a
  session for good. Migrations are applied once and in order.
* Relay: a snapshot is a whole body within the limit; an upgraded connection loses and
  reorders nothing but what is under way when both sides act; no goroutine stays
  behind but those of a client that stalls in its request.
* Limiter: a token bucket per client in bounded memory.

## Modules

| Module | Models | State and actions against the code |
|---|---|---|
| `TunnelSessions` | tunnel server, registry, presence, tunnels table | `pc` is where each `handleConn`/`heartbeatLoop` goroutine is; `owner`, `registry`, `presence` are the table, the map and the keys. `ClaimSelect`/`ClaimInsert`/`ClaimUpdate` are the three statements of ClaimTunnel; `Put` closes the replaced session, `Depart` is Registry.Remove and `Clear` is Presence.Clear; the history `cleared` says whose Clear took a key away; `Tick` ages keys and tickers |
| `ReplayQueue` | event rows, drains, manual replays, clearing | one row per event (`state`, `attempts`), one worker per drain or manual replay with its list `todo`; one action per statement or stream operation of Drain and ReplayEvent |
| `WebhookPromise` | abstract: what a sender may rely on | each webhook is absent, pending, delivered or dead; delivered only if the app acknowledged it, dead only if the app answered it often enough, removed only with all others |
| `ReplayRefinement` | refinement mapping ReplayQueue -> WebhookPromise | `KeepsPromise` |
| `Edge` | composition: requests, event inserts and drains over `TunnelSessions` | EXTENDS TunnelSessions; adds the handler of each request (`at`, `sess`, `answer`), the stored events (`queue`), the drains' listing (`offered`), and the agent's answers (`handled`) |
| `TokenBucket` | abstract: a bucket per key that is never dropped | |
| `IPLimiter` | Allow with its throttled sweep | implements TokenBucket (`IsTokenBucket`), though it forgets idle keys |
| `SnapshotCache` | PutSnapshot as a READ COMMITTED transaction | statements `Upsert`, `Sum`, `Pick`/`Delete`, `Commit`; row locks and the deadlock detector are modelled from PostgreSQL's documented behaviour |
| `Accounts` | sign-up, log-in, seed, reset-password | `users`, `password`, `tokens` are the two tables, `inserting` the row lock of an open sign-up; one action per statement of SignUp's transaction, of logIn, seedCmd and resetPasswordCmd |
| `ServerProcess` | runServe, with Open and Migrate | `at` is where runServe of each process is, `applied` is `schema_migrations`, `lock` the advisory lock; `Check` and `Apply` are the loop over the files, `Select` the select over `errc` and the context, `Finish` the grace period |
| `Agents` | composition: agents' reconnect loops against a server process | EXTENDS ServerProcess; `place` is where Run and connectAndServe of each agent are, `up` and `open` are the two ends' views of a connection, `handler` and `registry` the edge's side of it |
| `LiveStream` | one exchange: forwardLive, handleStream, both passthroughUpgrades | `wire` holds what is on each of six hops, `buf` what a reader has taken beyond what was asked; `body` is how far the request's own body has come, which r.Write and req.Write wait for; `edge`, `agent` and `copy` are where the handlers and the copying goroutines are; `cb` is the cappedBuffer |
| `MC...` | the same for TLC, with symmetry sets | |
| `...Proofs` | theorems and their proofs | |

`map` in `PROJECT.json` names the lines of every definition.

### Abstractions

* A request, a webhook, a page body or an account is a model value. Encoding and
  wording are left out; `kind` (webhook or page) is an input of `Edge`, since
  IsWebhook is a pure function.
* A statement that fails is a statement whose effect is unknown: each write may
  have been executed although its caller sees an error. 202 follows a success.
* A stream may fail although its session lives (`StreamFails` in `Edge` and `ReplayQueue`):
  handleStream closes it on a request it cannot read, and r.Write passes on the error of
  a client's body. In `Edge` a request is complete when it is forwarded; a client that
  stalls in its body is in `LiveStream`.
* In `Edge` an event that a drain listed moves from `queue` to `offered`; what
  becomes of it then is `ReplayQueue`. Manual replay and clearing are in
  `ReplayQueue` only.
* In `TunnelSessions` a connection object is used once; an agent that reconnects uses
  the next. In `Agents`, where agents reconnect without end, a connection that both
  sides have left is used again, the free one with the lowest number first.
* `Agents` leaves out waiting times, the claim and the heartbeat (`TunnelSessions` has
  them): its agents name one subdomain of one account. The handshake is a reply that
  may be refused, lost or late.
* What goes wrong from outside in `ServerProcess` and `Agents` (a failing call, a
  signal, a kill, a lost connection, a timeout, Ctrl+C) is drawn from `troubles`, in
  any state and any order, so that the liveness property speaks of a system that is
  left alone at last.
* `LiveStream` abstracts bytes to numbered portions, and a head or the end of a body to
  one item. Of a request's body only its end is followed: it is due until the client
  sends it, and passed once r.Write, and then req.Write, has copied it. A request for an
  upgrade has no body. A hop holds at most `Window` items, and a handler's own writes of what a
  reader held are not split. TCP loses nothing in order, except that closing a socket
  with unread bytes may drop what was last written to it. What a peer sends to a closed
  socket is left out. A peer may close one direction or leave altogether. A stream of a
  broken yamux session still yields what had arrived.
* In `TunnelSessions` a ticker that has fired is served before time advances
  again, so goroutines are not starved for a whole heartbeat period. That
  is the timing assumption behind the presence properties.
* Snapshot rows are captured at different instants.
* In `Accounts` a token is named by the call that mints it and a recovery password by
  the reset that draws it, since both are random.

## Runs

| Run | Checks | Bounds |
|---|---|---|
| `TunnelSessions_conns` | `TypeOK`, `LiveIsRegistered`, `RegisteredIsServed`, `RegisteredIsOwned`, `OwnerIsFinal`, `OnlyStaleClearHides`, `HiddenComesBack`, `UnservedGoesOffline` | 2 connections of 1 or 2 accounts, 1 subdomain, lifetime 3 ticks, period 1; PostgreSQL may fail, Redis answers |
| `ReplayQueue_safety` | `TypeOK`, `DeliveredWasAcked`, `DeadWasTried`, `HeadOfLine`, `KeepsPromise` | 2 drains, 1 manual replay, 2 events, retry limit 2, crashes, failing statements and streams, failing app; of the three workers at most two run at a time (`TwoAtATime`) |
| `ReplayQueue_liveness` | `ListedIsDelivered` | 2 drains, 2 events, no failures |
| `ReplayQueue_stuck` | violation of `ReplayingIsAttended` | 1 drain, 1 manual replay, 1 event, crashes |
| `Edge_safety` | `EdgeTypeOK`, `ForwardedToOwner`, `AcceptedIsStored`, `NotBothWays` | 2 connections of 2 accounts, 1 request, failing stores and streams |
| `Edge_liveness` | `RequestIsAnswered`, `StoredBeforeDrain` | 2 connections, 1 webhook, stores answer, streams may fail |
| `Edge_swallowed` | violation of `NoWebhookSwallowed` | 1 connection, 1 webhook, no failures but that of the session |
| `SnapshotCache_puts` | `TypeOK`, `QuietPutFits`, `EvictsOldest`, `PutEnds` | 2 puts, 3 pages, bodies of 1 or 2, cap 3, any initial cache (above the cap too) |
| `Accounts_calls` | `TypeOK`, `NoTakeover`, `SignUpIsAtomic`, `LogInHadPassword`, `AnsweredTokenWorks`, `CallEnds` | 2 sign-ups, 1 log-in, 1 seed, 1 reset, 1 email, 2 passwords, failing statements |
| `Agents_settle` | `AgentsTypeOK`, `MigratesOnce`, `AgentsSettle` | 2 agents, 2 connections at a time, 2 processes, 1 migration, 1 trouble anywhere, backoff 2 to 3 |
| `LiveStream_exchange` | `StreamTypeOK`, `StoredIsWhole`, `UpgradeDelivers`, `RelayEnds` | 1 exchange, 2 portions per side, window 2, limit 1 portion; the client may stall in its request, either peer may close or leave, the session may break |
| `IPLimiter_bucket` | `TypeOK`, `IsTokenBucket`, `IdleIsForgotten` | 2 keys, 9 ticks, idle time 3 |

What each run shows:

* `TunnelSessions_conns`: Two connections, of one account or of two, ask for one
  subdomain, with failing statements, shutdown and restart: registry, handlers and
  tunnels table agree, a claimed subdomain never changes hands, only the late
  Presence.Clear of another connection of its owner hides a served tunnel, and not for
  long, and a tunnel that lost its session goes offline.
* `ReplayQueue_safety`: Two drains, a manual replay and clearing race on two events,
  with crashes, failing statements and streams, and an app that fails: what a row says
  of the past is true, a drain takes an event up only after every older one it listed was
  acknowledged, and the queue implements WebhookPromise.
* `ReplayQueue_liveness`: While nothing fails and the app answers, a drain gets
  through everything it listed.
* `ReplayQueue_stuck`: A replay whose process ends after MarkReplaying, or a manual
  replay whose requeue fails on the deadline that has passed meanwhile, leaves its event
  in a state that no drain lists.
* `Edge_safety`: A request against two connections of two accounts, with failing
  statements and streams, shutdown and restart: it reaches its owner only, what was accepted is stored, and
  nothing is taken twice.
* `Edge_liveness`: Two connections replace each other under a request the client
  has sent in full: it is answered all the same, and a webhook stored before a connection is put is listed
  by that connection's drain.
* `Edge_swallowed`: A webhook forwarded to a session that breaks is answered with an
  empty 200 and neither delivered nor stored.
* `SnapshotCache_puts`: Two overlapping puts on any cache that earlier ones may have
  left, with failing statements and deadlocks: a put that no commit disturbs brings
  the cache under its cap, evicting oldest first, and no put hangs on a row lock.
* `Accounts_calls`: Two sign-ups, a log-in, a seed and a password reset race for one
  email, with statements that fail before or after they executed: nobody gets an
  account that was there before, sign-up is all or nothing, and a token that was
  answered works.
* `Agents_settle`: Two agents of one account on one subdomain against a server that
  starts, migrates beside another process, and fails, is signalled or is killed once,
  anywhere: migrations are applied once and in order, a cancelled agent returns, one
  that is left alone is connected for good, and two that keep replacing each other do
  not leave the tunnel without a session for good.
* `LiveStream_exchange`: One exchange, whole or cut anywhere by the client, the app or
  the session: only a whole body within the limit becomes a snapshot, an upgraded
  connection loses and reorders nothing but what is under way when both sides act, and
  unless the client stalls in its request both handlers and their goroutines end.
* `IPLimiter_bucket`: With eviction and throttled sweeps, Allow answers as a bucket
  per key that is never dropped, and idle keys are dropped within two idle times.

Why the bounds are enough for the interesting cases:

* Registry, presence and claims interact through an old connection and its
  successor. One subdomain suffices: no code touches two. Redis does not fail in
  `TunnelSessions_conns`, since the presence properties are about what happens
  without that; in `Edge_safety` PostgreSQL and Redis both fail.
* The queue needs a head and a follower (two events) for order, two drains for
  overlap, and a manual replay for the race on attempts. Retry limit 2 separates
  "counted once" from "dead". The bound is on events received. Two workers at a
  time, three one after the other, keep the run small; every race in the hazard list
  is one of two workers, and the theorems have no such bound.
* A second put is what a put's statements can race with; three pages let one
  transaction evict two while keeping its own. The initial cache stands for any
  number of puts before.
* Three idle times let a bucket be used, dropped, made again and dropped again.
  The parameters make a bucket refill exactly within the idle time, the tightest
  case that `RefillAssumption` allows.

* Two agents and two connections make a replacement, and a connection whose two ends
  disagree beside a new one. One trouble is a crash, a timeout or a loss at any
  place; what follows it (failing dials, replacements, a restart) needs no other. One
  migration lets two processes race for it and be cut off around its COMMIT; order and
  gaps among several are proved (`MigrationsApplyOnce`).
* Two portions are the fewest that can be reordered, or show a gap; limit 1 lets a body
  pass it; window 2 lets a reader take a portion together with a head, and lets a
  writer block.

`CHECK_DEADLOCK FALSE` is set where work ends: all events processed, all puts
returned, the clock at its bound, the exchange over, all agents returned.

### Fairness

* `TunnelSessions`: weak fairness of each handler and of time. A handler is a
  goroutine whose calls have deadlines, and time passes. A lost connection is
  noticed by yamux's keepalive; no agent is required to connect or to leave.
* `ReplayQueue`: weak fairness of each drain's and manual replay's statements, of an
  INSERT in flight and of the app's answer, since the read of the answer has no
  deadline and nothing else ends that wait while the session lives.
* `Edge`: weak fairness of each running request handler, of the agent's answer,
  of each connection handler and of each started drain.
* `SnapshotCache`: PostgreSQL executes what waits for nothing and breaks
  deadlocks. Deadlines are possible but not counted on.
* `Accounts`: PostgreSQL executes what waits for nothing; failures are not counted on.
* `Agents`: weak fairness of the agents' loops, the edge's handlers, of noticing a
  lost connection (yamux's keepalive), and of runServe; the server's process is
  started again whenever it ended (a deployment restarts it). Strong fairness of `Lock`,
  because PostgreSQL grants the advisory lock in the order of asking. No trouble is
  required to happen.
* `LiveStream`: weak fairness of both handlers, of the copying goroutines, and of peers
  that are still there reading what arrives: no deadline frees a relay whose peer stays
  and does not read. No peer is required to send, to answer or to close, nor the client
  to send the rest of its request.
* `IPLimiter`: none.

### Disagreements the runs show

* `ReplayQueue_stuck`: nothing brings an event back from `replaying` when the
  process ends in the middle of a replay. The deadline of a manual replay does not end
  the read of its answer; but once it has passed, or the caller has gone, and the stream
  fails, RequeueEvent fails as well, for it is given the same context, and its error is
  ignored.
* `Edge_swallowed`: a request whose session breaks after `Registry.Get` is
  answered by net/http with an empty 200, and is not buffered.

Seen while modelling, without a run of their own:

* The disconnect of a replaced connection clears the presence key its successor
  wrote; until the next heartbeat, requests take the offline path.
  `OnlyStaleClearHides` says that nothing else does this (a connection that was refused,
  or that died with the process, does not) and `HiddenComesBack` that it heals.
* The drain of a replaced connection and that of its successor may overlap. The
  README's "exact order they were received" (`README.md:56-57`) holds within one drain
  (`HeadOfLine`, proved), not across two.
* A webhook whose handler saw the tunnel offline and whose INSERT comes just after the
  drain's listing waits for the next connection, although the agent is connected
  (`internal/edge/router.go:134`; `README.md:129-130`). `StoredBeforeDrain` says what
  holds: what was stored before a connection was put, its drain lists.
* `liveurl http` without `--subdomain` is given another random subdomain at each
  reconnect (`internal/agent/agent.go:69`), while `cmd/liveurl/http.go:22-24` says that
  it resumes the same one.
* The backoff is reset after any successful handshake, however short the session
  (`internal/agent/agent.go:47` has "a healthy session for a while"). Two agents on one
  subdomain therefore replace each other at the minimal backoff, for ever.
* A body that neither has a length nor is chunked ends where its connection does. If the
  app breaks off in the middle of one, what came is stored as a snapshot; nothing in
  HTTP/1.1 tells it from a whole one. `StoredIsWhole` exempts that case.
* When a chunked body breaks off in the middle, forwardLive returns its error after
  the header, ServeHTTP returns, and net/http ends the client's chunked body normally.
* r.Write copies the client's body, and req.Write the stream's, without a deadline
  (`internal/edge/proxy.go:39`, `internal/agent/stream.go:40`; `cmd/liveurld/main.go:154`
  sets no ReadTimeout). A client that stalls in the middle of its request keeps forwardLive
  there, even after the session has broken or the app has answered in full. `RelayEnds`
  exempts that client (`Stalled`) and no other.
* Neither forwardLive nor handleStream has a deadline: a handler that waits for a
  silent app stays there when its client has left, and the agent's stays when its
  session is gone (`internal/agent/stream.go:47`). `RelayEnds` says when they do end.
* If the signal comes before runServe reaches its select, the tunnel listener's nil may
  be chosen from `errc`, and the process ends without the grace period
  (`cmd/liveurld/main.go:187`). `Select` has both outcomes.
* The accept loop goes on after any error of Accept without a pause
  (`internal/edge/tunnelserver.go:98`).
* A drain re-delivers an event of its list that a manual replay or another drain
  delivered meanwhile: delivery is at least once, as `WebhookPromise` states.
* A log-in that verified a password before it was reset mints its token after:
  tokens do not depend on the password, and nothing revokes them.
* Overlapping puts may leave the snapshot cache above `MaxSnapshotBytes`
  (`internal/store/snapshots.go:14`); the next put that no commit disturbs repairs it.
* `RefillAssumption` holds for the default limits, but the `LIVEURL_RATE_*`
  variables are not checked against the idle time. A slower refill would let a
  client regain its burst by waiting for the sweep.

## Proofs

All theorems are for any sets of connections, accounts, subdomains, requests and
keys, any number of events and any parameters that satisfy the named `ASSUME`s,
which are their only assumptions. Each module's type invariant comes first.

* `TunnelSessionsProofs`. `LiveIsRegistered` and `RegisteredIsServed` are made
  inductive together: at most one put session is open per subdomain because `Put`
  closes the one it replaces, and only that session's handler removes the entry.
  `RegisteredIsOwned` needs `ClaimHeld`: from the success of the claim to the end,
  the owner of the subdomain is the connection's account. It is kept because no
  statement changes an owner (`OwnerIsFinal`). `RegistryInv` joins the four. `OnlyStaleClearHides` needs
  `TickerKeepsKey`: while a handler serves and no Presence.Clear of another connection of
  its account has removed the key since it was written, the key outlives the ticker; this
  uses Period < TTL, and `ClaimHeld` for the account.
* `ReplayProofs`. The invariant says what a worker may conclude from where it
  is (`WorkerKnows`: past the answer "ok" the event was acknowledged; `DrainKnows`),
  that what a drain has passed was acknowledged (`PastIsAcked`) and what it has yet to
  take is younger (`ByAge`), that what is stored was accepted (`StoredWasAccepted`),
  and that the counter never runs ahead of the answers (`AttemptsAreAnswers`, with
  `Uncounted` for the answers that some worker has yet to read or to count). From it
  follow `DeliveredWasAcked`, `HeadOfLine` and `DeadWasTried`. `ReplayImplements`:
  under that invariant every step is a step of `WebhookPromise` or a stutter. A new
  row needs `Fresh`: an id not drawn yet has no row and was not accepted.
* `EdgeProofs`. `EdgeImplementsSessions`: every step of the composition is a step of
  `TunnelSessions` or leaves it alone, so the theorems above hold in `Edge`. Then
  `ForwardedToOwner` follows from `RegisteredIsOwned` when the session is read and
  from `OwnerIsFinal` afterwards, and `AcceptedIsStored` and `NotBothWays` from
  `WebhookInv`, which says where a handler is once its request is handled or kept.
* `IPLimiterProofs`. `IsTokenBucket` needs `RefilledByUse`: an entry that may be
  swept would be full, so forgetting it is not observable; this is where
  `RefillAssumption` is used. `IdleIsForgotten` needs `SweptByThen`: what the
  last sweep left had been idle for no longer than the idle time.

* `AccountsProofs`. `AccountInv` joins the four properties, whose proofs need each
  other, with what they rest on: at most one open sign-up holds an email
  (`OneTransaction`), an email without an account has no password or token
  (`NoRowNothing`), the creator of an account has committed (`CreatorIsDone`), and a
  log-in past its check holds a password its account has had (`PasswordsKnown`).
  `SecretsOK` types what the calls are given.
* `AgentsProofs`. `MigrationsApplyOnce`: who applies a migration finds the database
  exactly at the one before, because only the holder of the advisory lock is in Migrate
  (`Excluded`), what was applied has no gap (`NoGap`), and what the loop has passed
  stays applied (`Seen`). It holds for any number of processes, versions and failures,
  and, since no step of an agent touches a process, beside any number of agents.
  `AgentsTypeCorrect` includes that the doubled backoff keeps its bounds.
* `SnapshotCacheProofs`. `QuietPutsFit`: while no other put commits, what a put sees
  changes by its own DELETEs only, so `total` stays the sum of what it sees (`Totals`),
  and the loop ends under the cap or with nothing left. `EvictionIsOldestFirst`: no two
  captures have the same `captured_at` (`Stamps`), and under the same condition what a
  put has deleted is older than all it leaves (`Oldest`). `CacheTypeCorrect` rests on
  the same facts, for `total` falls by sizes it contains. That the sum over a finite
  set falls by what is taken out is proved first; its inductions take a smallest
  counterexample (`SubsetInduction`, `NatSetInduction`).
* `LiveStreamProofs`. Every portion has its place, its number; a head has place 0, the
  end of a body the place after its last portion. The invariant says
  - how far the handlers and the relays are together (`Stages`), and what has been
    closed or discarded (`Ends`); what the edge can be told is the app's answer only once
    the request is passed on (`Heard`), and a 502 before;
  - of each hop that will still be read, that its items continue where what lies before
    them ends, up to what the sender has sent, on the way to the client (`Down`) and to
    the app (`Up`). A hop that nobody will read may hold anything: which ones those are
    (`aeLive`, `laLive`) is the difficult part;
  - of an upgrade, how many items are anywhere between the two sides. If they are not
    all that was sent, that side's peer has closed, or something was lost the other
    way first, and a copying goroutine that has ended had a reason (`Losses`).

  `SnapshotsAreWhole` follows from `Captured` and `Told` where storeSnapshot reads the
  end of the body, and `UpgradesDeliver` from `Losses` where all is over: the two
  directions cannot each have lost something because of the other. Neither the number
  of portions, nor the room on the hops, nor maxTeeBody is bounded; `StreamAssumption`
  only has the marks of heads and ends differ from each other and from portions.

So every invariant, every action property and the refinements that a run checks are
proved. Model-checked only is liveness (`HiddenComesBack`, `UnservedGoesOffline`,
`ListedIsDelivered`, `RequestIsAnswered`, `StoredBeforeDrain`, `PutEnds`, `CallEnds`,
`AgentsSettle`, `RelayEnds`) and the violations. Liveness under fairness and `ENABLED`
are out of the prover's reach.

## Not modelled

* The dashboard (`internal/dashboard/`): JavaScript in a browser, which only calls the
  control API. Its race, answers that arrive after another tunnel was selected, is
  listed as a hazard.
* CLI, configuration files, packaging and examples keep no state that another actor
  can meet.
* JSON encoding of the handshake, header rules and the banner of snapshots, and the rules
  of IsWebhook are pure functions with unit tests.
* The requests that Shutdown waits for during the grace period are not followed; those
  it does not wait for end as when the session breaks.

## Plan

Done, in this order: `TunnelSessions`, `ReplayQueue` with `WebhookPromise`, `Edge`,
`IPLimiter` with `TokenBucket`, `SnapshotCache`, `Accounts`, `ServerProcess` with `Agents`,
`LiveStream`, and the proofs above.

What is left:

1. `Edge` composed with `ReplayQueue` in place of its abstract drains, so that one
   webhook is followed from the request to its acknowledgement.
2. Proofs of the safety part of what only liveness runs show: that a put, a call and a
   relay are never at a place where the guards of all their next steps are false.
3. The dashboard's selection of a tunnel, if it comes to change state at the server.
