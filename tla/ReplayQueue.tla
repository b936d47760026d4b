---------------------------- MODULE ReplayQueue ----------------------------
(***************************************************************************)
(* The webhook queue of one tunnel: the rows of webhook_events, the drain  *)
(* that each agent connection starts (replay.Drain), the manual replay of  *)
(* the control API and ReplayEvent, which both of them run.                *)
(*                                                                         *)
(* An event is named by its place in ORDER BY received_at, id.  A step is  *)
(* one SQL statement (each runs in its own transaction) or one operation   *)
(* on the agent's stream.  A context that ends or a database that fails    *)
(* makes a statement fail; what it writes may be written all the same.     *)
(***************************************************************************)
EXTENDS Integers, FiniteSets

CONSTANTS
  Conns,        \* agent connections; each runs one drain
  Manuals,      \* calls of POST /events/{id}/replay
  None,         \* no connection
  MaxEvents,    \* bound: events received
  MaxAttempts,  \* maxReplayAttempts
  DBFaults,     \* whether a statement on a background context may fail
  Crashes,      \* whether the edge process may die
  AppFails,     \* whether the local app may answer with a status >= 500
  StreamFails   \* whether a stream may fail on a session that stays open

Ids == 1..MaxEvents
Workers == Conns \cup Manuals

ASSUME WorkerAssumption ==
  None \notin Workers /\ Conns \cap Manuals = {} /\ IsFiniteSet(Workers)
ASSUME BoundAssumption ==
  /\ MaxEvents \in Nat /\ MaxAttempts \in Nat \ {0}
  /\ {DBFaults, Crashes, AppFails, StreamFails} \subseteq BOOLEAN

VARIABLES
  open,      \* is the yamux session of a connection open
  current,   \* the connection the Registry holds
  state,     \* webhook_events.state, "absent" when there is no such row
  attempts,  \* webhook_events.attempts
  received,  \* how many events were received so far
  pc,        \* where each worker is
  ev,        \* the event a worker replays, 0 before its first one
  via,       \* the session a worker replays through
  todo,      \* the events a drain listed and has not reached
  reply,     \* an answer on a worker's stream that it has not read
  accepted,  \* history: events whose INSERT committed, all that were answered 202
  answers,   \* history: how often the local app answered a replay of an event
  acked,     \* history: events the app answered with a status below 500
  listed     \* history: the events QueuedEvents returned to a drain

net == <<open, current>>
rows == <<state, attempts, received>>
work == <<pc, ev, via, todo, reply, listed>>
history == <<accepted, answers, acked>>
vars == <<net, rows, work, history>>

RowStates == {"absent", "inserting", "queued", "replaying", "delivered", "dead"}
\* Places inside ReplayEvent.
Replaying == {"open", "sent", "requeue", "deliver", "count", "requeued", "buried"}
Places == {"idle", "list", "next", "reset", "lookup", "mark", "done"} \cup Replaying

TypeOK ==
  /\ open \in [Conns -> BOOLEAN]
  /\ current \in Conns \cup {None}
  /\ state \in [Ids -> RowStates]
  /\ attempts \in [Ids -> Nat]
  /\ received \in 0..MaxEvents
  /\ pc \in [Workers -> Places]
  /\ ev \in [Workers -> Ids \cup {0}]
  /\ via \in [Workers -> Conns \cup {None}]
  /\ todo \in [Conns -> SUBSET Ids]
  /\ reply \in [Workers -> {"none", "ok", "5xx"}]
  /\ accepted \in SUBSET Ids
  /\ answers \in [Ids -> Nat]
  /\ acked \in SUBSET Ids
  /\ listed \in [Conns -> SUBSET Ids]

Init ==
  /\ open = [c \in Conns |-> FALSE]
  /\ current = None
  /\ state = [i \in Ids |-> "absent"]
  /\ attempts = [i \in Ids |-> 0]
  /\ received = 0
  /\ pc = [w \in Workers |-> "idle"]
  /\ ev = [w \in Workers |-> 0]
  /\ via = [w \in Workers |-> IF w \in Conns THEN w ELSE None]
  /\ todo = [c \in Conns |-> {}]
  /\ reply = [w \in Workers |-> "none"]
  /\ accepted = {}
  /\ answers = [i \in Ids |-> 0]
  /\ acked = {}
  /\ listed = [c \in Conns |-> {}]

Goto(w, from, to) == pc[w] = from /\ pc' = [pc EXCEPT ![w] = to]

Stored(i) == state[i] \notin {"absent", "inserting"}

\* UPDATE ... SET state=..., attempts=... WHERE id=...: no row, no change.
Update(i, st, n) ==
  /\ state' = [state EXCEPT ![i] = IF Stored(i) THEN st ELSE @]
  /\ attempts' = [attempts EXCEPT ![i] = IF Stored(i) THEN n ELSE @]
  /\ UNCHANGED received

\* A drain runs on context.Background(); a manual replay on its request's
\* context with a 15 s limit, which may end before any statement.
MayFail(w) == DBFaults \/ w \in Manuals

\* A statement of a worker fails: an error is returned and its caller stops.
Fail(w, from) == MayFail(w) /\ Goto(w, from, "done")

\* A worker writes its event's row; it may learn of a failure either way.
Write(w, from, to, st, n) ==
  \/ Goto(w, from, to) /\ Update(ev[w], st, n)
  \/ Fail(w, from) /\ (Update(ev[w], st, n) \/ UNCHANGED rows)

-----------------------------------------------------------------------------
(* The queue's writers outside replay.                                     *)

\* EnqueueEvent begins: received_at and id are drawn.
Receive ==
  /\ received < MaxEvents
  /\ received' = received + 1
  /\ state' = [state EXCEPT ![received + 1] = "inserting"]
  /\ UNCHANGED <<net, attempts, work, history>>

\* EnqueueEvent's INSERT commits, whether or not its request is still there to
\* be answered 202, or it fails.
Commit(i) ==
  /\ state[i] = "inserting"
  /\ \/ state' = [state EXCEPT ![i] = "queued"] /\ accepted' = accepted \cup {i}
     \/ state' = [state EXCEPT ![i] = "absent"] /\ UNCHANGED accepted
  /\ UNCHANGED <<net, attempts, received, work, answers, acked>>

\* ClearEvents deletes every row of the tunnel.
ClearEvents ==
  /\ \E i \in Ids : Stored(i)
  /\ state' = [i \in Ids |-> IF Stored(i) THEN "absent" ELSE state[i]]
  /\ UNCHANGED <<net, attempts, received, work, history>>

-----------------------------------------------------------------------------
(* Drain.                                                                  *)

\* QueuedEvents, read once; Drain also returns when the listing fails.
List(c) ==
  /\ \/ /\ Goto(c, "list", "next")
        /\ listed' = [listed EXCEPT ![c] = {i \in Ids : state[i] = "queued"}]
        /\ todo' = [todo EXCEPT ![c] = {i \in Ids : state[i] = "queued"}]
     \/ Fail(c, "list") /\ UNCHANGED <<listed, todo>>
  /\ UNCHANGED <<net, rows, ev, via, reply, history>>

\* Mutant: ORDER BY received_at DESC, as the dashboard lists events.
IsNewest(i, S) == i \in S /\ \A j \in S : j <= i

\* ORDER BY received_at, id: whether i comes first in the list S.
IsOldest(i, S) == i \in S /\ \A j \in S : i <= j

\* The loop takes the oldest event it has left, or the drain is over.
Take(c) ==
  /\ \/ /\ todo[c] = {}
        /\ Goto(c, "next", "done")
        /\ UNCHANGED <<ev, todo>>
     \/ \E i \in Ids : /\ IsOldest(i, todo[c])
                       /\ Goto(c, "next", "mark")
                       /\ ev' = [ev EXCEPT ![c] = i]
                       /\ todo' = [todo EXCEPT ![c] = @ \ {i}]
  /\ UNCHANGED <<net, rows, via, reply, listed, history>>

-----------------------------------------------------------------------------
(* The manual replay of the control API.                                   *)

\* EventByID finds the event, TunnelByID its owner.
Request(m, i) ==
  /\ Stored(i)
  /\ Goto(m, "idle", "reset")
  /\ ev' = [ev EXCEPT ![m] = i]
  /\ UNCHANGED <<net, rows, via, todo, reply, listed, history>>

\* RequeueEvent before the replay, whatever state the event is in.
Reset(m) ==
  /\ Write(m, "reset", "lookup", "queued", 0)
  /\ UNCHANGED <<net, ev, via, todo, reply, listed, history>>

\* Registry.Get; without a session the event is left for the next drain.
LookupSession(m) ==
  /\ Goto(m, "lookup", IF current = None THEN "done" ELSE "mark")
  /\ via' = [via EXCEPT ![m] = current]
  /\ UNCHANGED <<net, rows, ev, todo, reply, listed, history>>

-----------------------------------------------------------------------------
(* ReplayEvent, run by a drain or a manual replay w.                       *)

MarkReplaying(w) ==
  /\ Write(w, "mark", "open", "replaying", attempts[ev[w]])
  /\ UNCHANGED <<net, ev, via, todo, reply, listed, history>>

\* A stream fails with its session, or by itself.
Broken(w) == ~open[via[w]] \/ StreamFails

\* Mutant: fire and forget.
SendBlindly(w) ==
  /\ \/ Goto(w, "open", "deliver") /\ open[via[w]]
     \/ Goto(w, "open", "requeue") /\ Broken(w)
  /\ UNCHANGED <<net, rows, ev, via, todo, reply, listed, history>>

\* OpenStream and req.Write.
SendRequest(w) ==
  /\ \/ Goto(w, "open", "sent") /\ open[via[w]]
     \/ Goto(w, "open", "requeue") /\ Broken(w)
  /\ UNCHANGED <<net, rows, ev, via, todo, reply, listed, history>>

\* The agent hands the request to the local app, which answers it (an agent
\* that cannot reach the app answers 502 in its place).
AppAnswers(w) ==
  /\ pc[w] = "sent" /\ reply[w] = "none" /\ open[via[w]]
  /\ answers' = [answers EXCEPT ![ev[w]] = @ + 1]
  /\ \/ reply' = [reply EXCEPT ![w] = "ok"] /\ acked' = acked \cup {ev[w]}
     \/ AppFails /\ reply' = [reply EXCEPT ![w] = "5xx"] /\ UNCHANGED acked
  /\ UNCHANGED <<net, rows, pc, ev, via, todo, listed, accepted>>

\* Mutant: the status of the answer is not looked at.
ReadAnyStatus(w) ==
  /\ \/ reply[w] # "none" /\ Goto(w, "sent", "deliver")
     \/ Goto(w, "sent", "requeue") /\ Broken(w)
  /\ reply' = [reply EXCEPT ![w] = "none"]
  /\ UNCHANGED <<net, rows, ev, via, todo, listed, history>>

\* Mutant: a transport error counts as an attempt.
ReadErrorCounts(w) ==
  /\ \/ reply[w] = "ok" /\ Goto(w, "sent", "deliver")
     \/ reply[w] = "5xx" /\ Goto(w, "sent", "count")
     \/ Goto(w, "sent", "count") /\ Broken(w)
  /\ reply' = [reply EXCEPT ![w] = "none"]
  /\ UNCHANGED <<net, rows, ev, via, todo, listed, history>>

\* http.ReadResponse: the answer, or an error once the session has closed or
\* the agent has closed the stream (handleStream's deferred Close).
ReadResponse(w) ==
  /\ \/ reply[w] = "ok" /\ Goto(w, "sent", "deliver")
     \/ reply[w] = "5xx" /\ Goto(w, "sent", "count")
     \/ Goto(w, "sent", "requeue") /\ Broken(w)
  /\ reply' = [reply EXCEPT ![w] = "none"]
  /\ UNCHANGED <<net, rows, ev, via, todo, listed, history>>

\* RequeueEvent after a transport error; its own error is ignored.
Requeue(w) ==
  /\ Write(w, "requeue", "done", "queued", 0)
  /\ UNCHANGED <<net, ev, via, todo, reply, listed, history>>

\* Mutant: a drain stops after its first delivery.
DeliverOne(w) ==
  /\ Write(w, "deliver", "done", "delivered", attempts[ev[w]] + 1)
  /\ UNCHANGED <<net, ev, via, todo, reply, listed, history>>

\* MarkDelivered; a drain goes on with its next event.
MarkDelivered(w) ==
  /\ Write(w, "deliver", IF w \in Conns THEN "next" ELSE "done",
           "delivered", attempts[ev[w]] + 1)
  /\ UNCHANGED <<net, ev, via, todo, reply, listed, history>>

\* MarkFailed's first statement counts the attempt and returns the count; the
\* next state is decided on it.  Without a row it is an error.
CountAttempt(w) ==
  /\ pc[w] = "count"
  /\ \/ /\ Stored(ev[w])
        /\ Write(w, "count",
                 IF attempts[ev[w]] + 1 >= MaxAttempts THEN "buried" ELSE "requeued",
                 state[ev[w]], attempts[ev[w]] + 1)
     \/ ~Stored(ev[w]) /\ Goto(w, "count", "done") /\ UNCHANGED rows
  /\ UNCHANGED <<net, ev, via, todo, reply, listed, history>>

\* Mutant: a failed event is given a state the schema does not know.
SettleUnknown(w) ==
  /\ \/ Write(w, "requeued", "done", "failed", attempts[ev[w]])
     \/ Write(w, "buried", "done", "dead", attempts[ev[w]])
  /\ UNCHANGED <<net, ev, via, todo, reply, listed, history>>

\* MarkFailed's second statement.  The status is >= 500, so a drain stops.
SettleFailed(w) ==
  /\ \/ Write(w, "requeued", "done", "queued", attempts[ev[w]])
     \/ Write(w, "buried", "done", "dead", attempts[ev[w]])
  /\ UNCHANGED <<net, ev, via, todo, reply, listed, history>>

ReplayEvent(w) ==
  \/ MarkReplaying(w) \/ SendRequest(w) \/ ReadResponse(w) \/ Requeue(w)
  \/ MarkDelivered(w) \/ CountAttempt(w) \/ SettleFailed(w)

Drain(c) == List(c) \/ Take(c) \/ ReplayEvent(c)

Manual(m) == Reset(m) \/ LookupSession(m) \/ ReplayEvent(m)

-----------------------------------------------------------------------------
(* Sessions, as far as the queue can tell (TunnelSessions has the rest).   *)

\* Registry.Put and `go OnConnect(sess)`.
Connect(c) ==
  /\ Goto(c, "idle", "list")
  /\ open' = [d \in Conns |-> d = c \/ (open[d] /\ d # current)]
  /\ current' = c
  /\ UNCHANGED <<rows, ev, via, todo, reply, listed, history>>

\* The session breaks ...
Drop(c) ==
  /\ open[c]
  /\ open' = [open EXCEPT ![c] = FALSE]
  /\ UNCHANGED <<current, rows, work, history>>

\* ... and its handler unregisters it.
Unregister ==
  /\ current # None /\ ~open[current]
  /\ current' = None
  /\ UNCHANGED <<open, rows, work, history>>

\* The edge dies and restarts: workers and sessions are gone, rows are not.
Crash ==
  /\ Crashes
  /\ pc' = [w \in Workers |-> IF pc[w] = "idle" THEN "idle" ELSE "done"]
  /\ open' = [c \in Conns |-> FALSE]
  /\ current' = None
  /\ UNCHANGED <<rows, ev, via, todo, reply, listed, history>>

Writers == Receive \/ (\E i \in Ids : Commit(i)) \/ ClearEvents

Replays ==
  \/ \E c \in Conns : Drain(c)
  \/ \E m \in Manuals : Manual(m) \/ (\E i \in Ids : Request(m, i))
  \/ \E w \in Workers : AppAnswers(w)

Sessions == (\E c \in Conns : Connect(c) \/ Drop(c)) \/ Unregister \/ Crash

Next == Writers \/ Replays \/ Sessions

Spec == Init /\ [][Next]_vars

\* A goroutine that can run does; the local app answers what reaches it (the
\* read of the response has no deadline, so nothing else ends that wait).
Fairness ==
  /\ \A c \in Conns : WF_vars(Drain(c))
  /\ \A m \in Manuals : WF_vars(Manual(m))
  /\ \A w \in Workers : WF_vars(AppAnswers(w))
  /\ \A i \in Ids : WF_vars(Commit(i))

FairSpec == Spec /\ Fairness

-----------------------------------------------------------------------------
(* Properties.                                                             *)

\* "delivered" tells the truth: whatever drains and manual replays race on an
\* event, its row says delivered only if the local app answered it with a
\* status below 500 (ReplayEvent, MarkDelivered).
DeliveredWasAcked == \A i \in Ids : state[i] = "delivered" => i \in acked

\* An event is given up (MarkFailed) only after the local app has answered it
\* maxReplayAttempts times; transport errors never bury it.
DeadWasTried == \A i \in Ids : state[i] = "dead" => answers[i] >= MaxAttempts

\* A drain goes by age and stops at its first failure: it takes an event up only
\* after the local app acknowledged every older event the drain had listed.
HeadOfLine ==
  \A c \in Conns : \A i \in listed[c] \ todo[c] :
    \A j \in listed[c] : j < i => j \in acked

\* A drain gets through its list: while nothing fails, every event it listed
\* reaches the app, unless its session breaks first.
ListedIsDelivered ==
  \A c \in Conns : \A i \in Ids :
    i \in listed[c] ~> i \in acked \/ ~open[c]

\* "queued -> replaying -> delivered (or dead)": an event is replaying only
\* while some worker replays it.
ReplayingIsAttended ==
  \A i \in Ids : state[i] = "replaying" =>
    \E w \in Workers : ev[w] = i /\ pc[w] \in Replaying

=============================================================================
