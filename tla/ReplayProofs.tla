---------------------------- MODULE ReplayProofs ----------------------------
(***************************************************************************)
(* Proofs about the webhook queue, for any number of events, connections   *)
(* and manual replays and any retry limit.  What the rows say follows from *)
(* what each worker knows at its place (WorkerKnows), and that every step  *)
(* is one of the promise (WebhookPromise) from what the rows say.          *)
(***************************************************************************)
EXTENDS ReplayRefinement, FiniteSetTheorems, TLAPS

\* A worker at one of these places has an event in hand.
Busy == {"reset", "lookup", "mark"} \cup Replaying

EventInHand == \A w \in Workers : pc[w] \in Busy => ev[w] \in Ids

\* What a worker can rely on: a replay has a session, an unread answer is on
\* the stream it waits on, and a worker about to write "delivered" has read an
\* acknowledgement.
WorkerKnows ==
  \A w \in Workers :
    /\ pc[w] \in Replaying \cup {"mark"} => via[w] \in Conns
    /\ w \in Conns => via[w] = w
    /\ reply[w] # "none" => pc[w] \in {"sent", "done"}
    /\ reply[w] = "ok" \/ pc[w] = "deliver" => ev[w] \in acked

(* Whatever drains, manual replays, clearing, crashes and failing statements
   do, rows, lists and workers keep their types, and a worker that replays has
   an event in hand (replay.go). *)
THEOREM TypeCorrect == Spec => [](TypeOK /\ EventInHand)
<1> USE WorkerAssumption, BoundAssumption
    DEF WorkerAssumption, BoundAssumption
<1>1. Init => TypeOK /\ EventInHand
  BY DEF Init, TypeOK, EventInHand, Busy, Places, Replaying, RowStates, Ids, Workers
<1>2. TypeOK /\ EventInHand /\ [Next]_vars => TypeOK' /\ EventInHand'
  <2> SUFFICES ASSUME TypeOK, EventInHand, [Next]_vars PROVE TypeOK' /\ EventInHand'
    OBVIOUS
  <2> USE DEF TypeOK, EventInHand, Busy, Places, Replaying, RowStates, Workers, Goto, Update, Fail, Write,
              Stored, net, rows, work, history
  <2>1. CASE Writers
    <3>1. CASE Receive
      <4>1. received' \in 0..MaxEvents BY <3>1 DEF Receive
      <4>2. state' \in [Ids -> RowStates] BY <3>1 DEF Receive
      <4> QED BY <3>1, <4>1, <4>2 DEF Receive
    <3>2. ASSUME NEW i \in Ids, Commit(i) PROVE TypeOK' /\ EventInHand' BY <3>2 DEF Commit
    <3>3. CASE ClearEvents BY <3>3 DEF ClearEvents
    <3> QED BY <2>1, <3>1, <3>2, <3>3 DEF Writers
  <2>2. ASSUME NEW c \in Conns, List(c) \/ Take(c) PROVE TypeOK' /\ EventInHand'
    <3>1. CASE List(c) BY <3>1 DEF List
    <3>2. CASE Take(c)
      <4>1. todo' \in [Conns -> SUBSET Ids] BY <3>2 DEF Take
      <4>2. ev' \in [Workers -> Ids \cup {0}] BY <3>2 DEF Take
      <4>3. pc' \in [Workers -> Places] BY <3>2 DEF Take
      <4>4. UNCHANGED <<open, current, state, attempts, received, via, reply,
                        listed, accepted, answers, acked>>
        BY <3>2 DEF Take
      <4>5. EventInHand' BY <3>2 DEF Take
      <4> QED BY <4>1, <4>2, <4>3, <4>4, <4>5
    <3> QED BY <2>2, <3>1, <3>2
  <2>3. ASSUME NEW m \in Manuals, Reset(m) \/ LookupSession(m) PROVE TypeOK' /\ EventInHand'
    <3>1. CASE Reset(m) BY <3>1 DEF Reset
    <3>2. CASE LookupSession(m) BY <3>2 DEF LookupSession
    <3> QED BY <2>3, <3>1, <3>2
  <2>4. ASSUME NEW m \in Manuals, NEW i \in Ids, Request(m, i) PROVE TypeOK' /\ EventInHand'
    BY <2>4 DEF Request
  <2>5. ASSUME NEW w \in Workers, AppAnswers(w) PROVE TypeOK' /\ EventInHand'
    BY <2>5 DEF AppAnswers
  <2>6. ASSUME NEW w \in Workers, ReplayEvent(w) PROVE TypeOK' /\ EventInHand'
    <3>1. CASE MarkReplaying(w) BY <3>1 DEF MarkReplaying
    <3>2. CASE SendRequest(w) BY <3>2 DEF SendRequest
    <3>3. CASE ReadResponse(w) BY <3>3 DEF ReadResponse
    <3>4. CASE Requeue(w) BY <3>4 DEF Requeue
    <3>5. CASE MarkDelivered(w) BY <3>5 DEF MarkDelivered
    <3>6. CASE CountAttempt(w) BY <3>6 DEF CountAttempt
    <3>7. CASE SettleFailed(w) BY <3>7 DEF SettleFailed
    <3> QED BY <2>6, <3>1, <3>2, <3>3, <3>4, <3>5, <3>6, <3>7 DEF ReplayEvent
  <2>7. CASE Sessions
    <3>1. ASSUME NEW c \in Conns, Connect(c) PROVE TypeOK' /\ EventInHand' BY <3>1 DEF Connect
    <3>2. ASSUME NEW c \in Conns, Drop(c) PROVE TypeOK' /\ EventInHand' BY <3>2 DEF Drop
    <3>3. CASE Unregister BY <3>3 DEF Unregister
    <3>4. CASE Crash BY <3>4 DEF Crash
    <3> QED BY <2>7, <3>1, <3>2, <3>3, <3>4 DEF Sessions
  <2>8. CASE UNCHANGED vars BY <2>8 DEF vars
  <2> QED BY <2>1, <2>2, <2>3, <2>4, <2>5, <2>6, <2>7, <2>8
          DEF Next, Replays, Drain, Manual
<1> QED BY <1>1, <1>2, PTL DEF Spec

-----------------------------------------------------------------------------
(* What the rows and the drains say about the past.                        *)

\* A drain has accepted events left to replay, and is past its event only when
\* the app has acknowledged it.
DrainKnows ==
  \A c \in Conns :
    /\ todo[c] \subseteq accepted
    /\ pc[c] = "next" /\ ev[c] # 0 => ev[c] \in acked
    /\ pc[c] \in {"idle", "list"} => ev[c] = 0

\* What a drain has taken up and no longer has in hand was acknowledged.
PastIsAcked ==
  \A c \in Conns : \A i \in listed[c] \ (todo[c] \cup {ev[c]}) : i \in acked

StoredWasAccepted == \A i \in Ids : Stored(i) => i \in accepted

\* What a worker has in hand was stored, though its row may be gone by now.
OnlyAcceptedReplayed == \A w \in Workers : ev[w] # 0 => ev[w] \in accepted

QueueInv == /\ WorkerKnows /\ DrainKnows /\ StoredWasAccepted
            /\ DeliveredWasAcked /\ PastIsAcked /\ OnlyAcceptedReplayed

\* A webhook that is received or inserted, and clearing the events, keep it (Insert,
\* ClearEvents).
LEMMA WritersKeepQueueInv ==
  ASSUME TypeOK, EventInHand, QueueInv, Writers
  PROVE  QueueInv'
<1> USE BoundAssumption, WorkerAssumption
    DEF BoundAssumption, WorkerAssumption, TypeOK, QueueInv, RowStates, Workers,
        net, rows, work, history
<1>1. CASE Receive
  <2>1. WorkerKnows' BY <1>1 DEF Receive, Ids, WorkerKnows, Replaying
  <2>2. DrainKnows' BY <1>1 DEF Receive, Ids, DrainKnows, WorkerKnows, StoredWasAccepted, Stored, Replaying
  <2>3. StoredWasAccepted' BY <1>1 DEF Receive, Ids, StoredWasAccepted, Stored
  <2>4. DeliveredWasAcked' BY <1>1 DEF Receive, Ids, DeliveredWasAcked, WorkerKnows, Stored
  <2>5. PastIsAcked' BY <1>1 DEF Receive, Ids, PastIsAcked, DrainKnows
  <2>6. OnlyAcceptedReplayed' BY <1>1 DEF Receive, Ids, OnlyAcceptedReplayed, DrainKnows, StoredWasAccepted, Stored
  <2> QED BY <2>1, <2>2, <2>3, <2>4, <2>5, <2>6 DEF QueueInv
<1>2. ASSUME NEW i \in Ids, Commit(i) PROVE QueueInv'
  <2>1. WorkerKnows' BY <1>2 DEF Commit, WorkerKnows, Replaying
  <2>2. DrainKnows' BY <1>2 DEF Commit, DrainKnows, WorkerKnows, StoredWasAccepted, Stored, Replaying
  <2>3. StoredWasAccepted' BY <1>2 DEF Commit, StoredWasAccepted, Stored
  <2>4. DeliveredWasAcked' BY <1>2 DEF Commit, DeliveredWasAcked, WorkerKnows, Stored
  <2>5. PastIsAcked' BY <1>2 DEF Commit, PastIsAcked, DrainKnows
  <2>6. OnlyAcceptedReplayed' BY <1>2 DEF Commit, OnlyAcceptedReplayed, DrainKnows, StoredWasAccepted, Stored
  <2> QED BY <2>1, <2>2, <2>3, <2>4, <2>5, <2>6 DEF QueueInv
<1>3. CASE ClearEvents
  <2>1. WorkerKnows' BY <1>3 DEF ClearEvents, WorkerKnows, Replaying
  <2>2. DrainKnows' BY <1>3 DEF ClearEvents, DrainKnows, WorkerKnows, StoredWasAccepted, Stored, Replaying
  <2>3. StoredWasAccepted' BY <1>3 DEF ClearEvents, StoredWasAccepted, Stored
  <2>4. DeliveredWasAcked' BY <1>3 DEF ClearEvents, DeliveredWasAcked, WorkerKnows, Stored
  <2>5. PastIsAcked' BY <1>3 DEF ClearEvents, PastIsAcked, DrainKnows
  <2>6. OnlyAcceptedReplayed' BY <1>3 DEF ClearEvents, OnlyAcceptedReplayed, DrainKnows, StoredWasAccepted, Stored
  <2> QED BY <2>1, <2>2, <2>3, <2>4, <2>5, <2>6 DEF QueueInv
<1> QED BY <1>1, <1>2, <1>3 DEF Writers

\* A drain that lists or takes its next event keeps it (Drain).
LEMMA DrainKeepsQueueInv ==
  ASSUME TypeOK, EventInHand, QueueInv, NEW c \in Conns, List(c) \/ Take(c)
  PROVE  QueueInv'
<1> USE BoundAssumption, WorkerAssumption
    DEF BoundAssumption, WorkerAssumption, TypeOK, QueueInv, RowStates, Workers,
        net, rows, work, history, Goto, Fail
<1>1. CASE List(c)
  <2>1. WorkerKnows' BY <1>1 DEF List, WorkerKnows, Replaying
  <2>2. DrainKnows' BY <1>1 DEF List, DrainKnows, WorkerKnows, StoredWasAccepted, Stored, Replaying
  <2>3. StoredWasAccepted' BY <1>1 DEF List, StoredWasAccepted, Stored
  <2>4. DeliveredWasAcked' BY <1>1 DEF List, DeliveredWasAcked, WorkerKnows, Stored
  <2>5. PastIsAcked' BY <1>1 DEF List, PastIsAcked, DrainKnows
  <2>6. OnlyAcceptedReplayed' BY <1>1 DEF List, OnlyAcceptedReplayed, DrainKnows, StoredWasAccepted, Stored
  <2> QED BY <2>1, <2>2, <2>3, <2>4, <2>5, <2>6 DEF QueueInv
<1>2. ASSUME todo[c] = {}, Goto(c, "next", "done"), Take(c) PROVE QueueInv'
  <2>a. UNCHANGED <<net, rows, ev, todo, via, reply, listed, history>>
    BY <1>2 DEF Take, IsOldest
  <2>1. WorkerKnows' BY <1>2, <2>a DEF WorkerKnows, Replaying
  <2>2. DrainKnows' BY <1>2, <2>a DEF DrainKnows, WorkerKnows, StoredWasAccepted, Stored, Replaying
  <2>3. StoredWasAccepted' BY <1>2, <2>a DEF StoredWasAccepted, Stored
  <2>4. DeliveredWasAcked' BY <1>2, <2>a DEF DeliveredWasAcked, WorkerKnows, Stored
  <2>5. PastIsAcked' BY <1>2, <2>a DEF PastIsAcked, DrainKnows
  <2>6. OnlyAcceptedReplayed' BY <1>2, <2>a DEF OnlyAcceptedReplayed, DrainKnows, StoredWasAccepted, Stored
  <2> QED BY <2>1, <2>2, <2>3, <2>4, <2>5, <2>6 DEF QueueInv
<1>3. ASSUME NEW i \in Ids, IsOldest(i, todo[c]), Goto(c, "next", "mark"),
             ev' = [ev EXCEPT ![c] = i], todo' = [todo EXCEPT ![c] = @ \ {i}],
             UNCHANGED <<net, rows, via, reply, listed, history>>
      PROVE  QueueInv'
  <2>a. i \in todo[c] /\ c \in Workers /\ i # 0
    BY <1>3 DEF IsOldest, Ids
  <2>b. \A d \in Conns : todo'[d] = IF d = c THEN todo[c] \ {i} ELSE todo[d]
    BY <1>3
  <2>c. \A w \in Workers : ev'[w] = IF w = c THEN i ELSE ev[w]
    BY <1>3
  <2>1. WorkerKnows' BY <1>3, <2>a, <2>b, <2>c DEF WorkerKnows, Replaying
  <2>2. DrainKnows' BY <1>3, <2>a, <2>b, <2>c DEF DrainKnows, WorkerKnows, StoredWasAccepted, Stored, Replaying
  <2>3. StoredWasAccepted' BY <1>3, <2>a, <2>b, <2>c DEF StoredWasAccepted, Stored
  <2>4. DeliveredWasAcked' BY <1>3, <2>a, <2>b, <2>c DEF DeliveredWasAcked, WorkerKnows, Stored
  <2>5. PastIsAcked'
    <3> SUFFICES ASSUME NEW d \in Conns, NEW j \in listed[d],
                        j \notin todo'[d], j # ev'[d]
                 PROVE  j \in acked
      BY <1>3 DEF PastIsAcked
    <3>1. CASE d # c BY <3>1, <2>b, <2>c DEF PastIsAcked
    <3>2. CASE d = c
      <4>1. j \notin todo[c] BY <3>2, <2>b, <2>c, <2>a
      <4>2. CASE j = ev[c]
        <5>1. j \in Ids /\ j # 0 BY DEF Ids
        <5> QED BY <4>2, <5>1, <1>3 DEF DrainKnows, Goto
      <4>3. CASE j # ev[c] BY <3>2, <4>1, <4>3 DEF PastIsAcked
      <4> QED BY <4>2, <4>3
    <3> QED BY <3>1, <3>2
  <2>6. OnlyAcceptedReplayed'
    <3>1. i \in accepted BY <2>a DEF DrainKnows
    <3> QED BY <1>3, <2>c, <3>1 DEF OnlyAcceptedReplayed
  <2> QED BY <2>1, <2>2, <2>3, <2>4, <2>5, <2>6 DEF QueueInv
<1> QED BY <1>1, <1>2, <1>3 DEF Take

\* A manual replay keeps it up to its attempt (handleReplayEvent).
LEMMA ManualKeepsQueueInv ==
  ASSUME TypeOK, EventInHand, QueueInv, NEW m \in Manuals,
         Reset(m) \/ LookupSession(m) \/ (\E i \in Ids : Request(m, i))
  PROVE  QueueInv'
<1> USE BoundAssumption, WorkerAssumption
    DEF BoundAssumption, WorkerAssumption, TypeOK, QueueInv, RowStates, Workers,
        net, rows, work, history, Goto, Fail, Update, Write
<1>1. CASE Reset(m)
  <2>1. WorkerKnows' BY <1>1 DEF Reset, WorkerKnows, Replaying
  <2>2. DrainKnows' BY <1>1 DEF Reset, DrainKnows, WorkerKnows, StoredWasAccepted, Stored, Replaying
  <2>3. StoredWasAccepted' BY <1>1 DEF Reset, StoredWasAccepted, Stored
  <2>4. DeliveredWasAcked' BY <1>1 DEF Reset, DeliveredWasAcked, WorkerKnows, Stored
  <2>5. PastIsAcked' BY <1>1 DEF Reset, PastIsAcked, DrainKnows
  <2>6. OnlyAcceptedReplayed' BY <1>1 DEF Reset, OnlyAcceptedReplayed, DrainKnows, StoredWasAccepted, Stored
  <2> QED BY <2>1, <2>2, <2>3, <2>4, <2>5, <2>6 DEF QueueInv
<1>2. CASE LookupSession(m)
  <2>1. WorkerKnows' BY <1>2 DEF LookupSession, WorkerKnows, Replaying
  <2>2. DrainKnows' BY <1>2 DEF LookupSession, DrainKnows, WorkerKnows, StoredWasAccepted, Stored, Replaying
  <2>3. StoredWasAccepted' BY <1>2 DEF LookupSession, StoredWasAccepted, Stored
  <2>4. DeliveredWasAcked' BY <1>2 DEF LookupSession, DeliveredWasAcked, WorkerKnows, Stored
  <2>5. PastIsAcked' BY <1>2 DEF LookupSession, PastIsAcked, DrainKnows
  <2>6. OnlyAcceptedReplayed' BY <1>2 DEF LookupSession, OnlyAcceptedReplayed, DrainKnows, StoredWasAccepted, Stored
  <2> QED BY <2>1, <2>2, <2>3, <2>4, <2>5, <2>6 DEF QueueInv
<1>3. ASSUME NEW i \in Ids, Request(m, i) PROVE QueueInv'
  <2>1. WorkerKnows' BY <1>3 DEF Request, WorkerKnows, Replaying
  <2>2. DrainKnows' BY <1>3 DEF Request, DrainKnows, WorkerKnows, StoredWasAccepted, Stored, Replaying
  <2>3. StoredWasAccepted' BY <1>3 DEF Request, StoredWasAccepted, Stored
  <2>4. DeliveredWasAcked' BY <1>3 DEF Request, DeliveredWasAcked, WorkerKnows, Stored
  <2>5. PastIsAcked' BY <1>3 DEF Request, PastIsAcked, DrainKnows
  <2>6. OnlyAcceptedReplayed' BY <1>3 DEF Request, OnlyAcceptedReplayed, DrainKnows, StoredWasAccepted, Stored
  <2> QED BY <2>1, <2>2, <2>3, <2>4, <2>5, <2>6 DEF QueueInv
<1> QED BY <1>1, <1>2, <1>3

\* An attempt keeps it at each of its statements (replayEvent).
LEMMA ReplayKeepsQueueInv ==
  ASSUME TypeOK, EventInHand, QueueInv, NEW w \in Workers,
         ReplayEvent(w) \/ AppAnswers(w)
  PROVE  QueueInv'
<1> USE BoundAssumption, WorkerAssumption
    DEF BoundAssumption, WorkerAssumption, TypeOK, QueueInv, RowStates, Workers,
        net, rows, work, history, Goto, Fail, Update, Write, EventInHand, Busy, Replaying
<1>1. CASE MarkReplaying(w)
  <2>1. WorkerKnows' BY <1>1 DEF MarkReplaying, WorkerKnows, Replaying
  <2>2. DrainKnows' BY <1>1 DEF MarkReplaying, DrainKnows, WorkerKnows, StoredWasAccepted, Stored, Replaying
  <2>3. StoredWasAccepted' BY <1>1 DEF MarkReplaying, StoredWasAccepted, Stored
  <2>4. DeliveredWasAcked' BY <1>1 DEF MarkReplaying, DeliveredWasAcked, WorkerKnows, Stored
  <2>5. PastIsAcked' BY <1>1 DEF MarkReplaying, PastIsAcked, DrainKnows
  <2>6. OnlyAcceptedReplayed' BY <1>1 DEF MarkReplaying, OnlyAcceptedReplayed, DrainKnows, StoredWasAccepted, Stored
  <2> QED BY <2>1, <2>2, <2>3, <2>4, <2>5, <2>6 DEF QueueInv
<1>2. CASE SendRequest(w)
  <2>1. WorkerKnows' BY <1>2 DEF SendRequest, WorkerKnows, Replaying
  <2>2. DrainKnows' BY <1>2 DEF SendRequest, DrainKnows, WorkerKnows, StoredWasAccepted, Stored, Replaying
  <2>3. StoredWasAccepted' BY <1>2 DEF SendRequest, StoredWasAccepted, Stored
  <2>4. DeliveredWasAcked' BY <1>2 DEF SendRequest, DeliveredWasAcked, WorkerKnows, Stored
  <2>5. PastIsAcked' BY <1>2 DEF SendRequest, PastIsAcked, DrainKnows
  <2>6. OnlyAcceptedReplayed' BY <1>2 DEF SendRequest, OnlyAcceptedReplayed, DrainKnows, StoredWasAccepted, Stored
  <2> QED BY <2>1, <2>2, <2>3, <2>4, <2>5, <2>6 DEF QueueInv
<1>3. CASE ReadResponse(w)
  <2>1. WorkerKnows' BY <1>3 DEF ReadResponse, WorkerKnows, Replaying
  <2>2. DrainKnows' BY <1>3 DEF ReadResponse, DrainKnows, WorkerKnows, StoredWasAccepted, Stored, Replaying
  <2>3. StoredWasAccepted' BY <1>3 DEF ReadResponse, StoredWasAccepted, Stored
  <2>4. DeliveredWasAcked' BY <1>3 DEF ReadResponse, DeliveredWasAcked, WorkerKnows, Stored
  <2>5. PastIsAcked' BY <1>3 DEF ReadResponse, PastIsAcked, DrainKnows
  <2>6. OnlyAcceptedReplayed' BY <1>3 DEF ReadResponse, OnlyAcceptedReplayed, DrainKnows, StoredWasAccepted, Stored
  <2> QED BY <2>1, <2>2, <2>3, <2>4, <2>5, <2>6 DEF QueueInv
<1>4. CASE Requeue(w)
  <2>1. WorkerKnows' BY <1>4 DEF Requeue, WorkerKnows, Replaying
  <2>2. DrainKnows' BY <1>4 DEF Requeue, DrainKnows, WorkerKnows, StoredWasAccepted, Stored, Replaying
  <2>3. StoredWasAccepted' BY <1>4 DEF Requeue, StoredWasAccepted, Stored
  <2>4. DeliveredWasAcked' BY <1>4 DEF Requeue, DeliveredWasAcked, WorkerKnows, Stored
  <2>5. PastIsAcked' BY <1>4 DEF Requeue, PastIsAcked, DrainKnows
  <2>6. OnlyAcceptedReplayed' BY <1>4 DEF Requeue, OnlyAcceptedReplayed, DrainKnows, StoredWasAccepted, Stored
  <2> QED BY <2>1, <2>2, <2>3, <2>4, <2>5, <2>6 DEF QueueInv
<1>5. CASE MarkDelivered(w)
  <2>1. WorkerKnows' BY <1>5 DEF MarkDelivered, WorkerKnows, Replaying
  <2>2. DrainKnows' BY <1>5 DEF MarkDelivered, DrainKnows, WorkerKnows, StoredWasAccepted, Stored, Replaying
  <2>3. StoredWasAccepted' BY <1>5 DEF MarkDelivered, StoredWasAccepted, Stored
  <2>4. DeliveredWasAcked' BY <1>5 DEF MarkDelivered, DeliveredWasAcked, WorkerKnows, Stored
  <2>5. PastIsAcked' BY <1>5 DEF MarkDelivered, PastIsAcked, DrainKnows
  <2>6. OnlyAcceptedReplayed' BY <1>5 DEF MarkDelivered, OnlyAcceptedReplayed, DrainKnows, StoredWasAccepted, Stored
  <2> QED BY <2>1, <2>2, <2>3, <2>4, <2>5, <2>6 DEF QueueInv
<1>6. CASE CountAttempt(w)
  <2>1. WorkerKnows' BY <1>6 DEF CountAttempt, WorkerKnows, Replaying
  <2>2. DrainKnows' BY <1>6 DEF CountAttempt, DrainKnows, WorkerKnows, StoredWasAccepted, Stored, Replaying
  <2>3. StoredWasAccepted' BY <1>6 DEF CountAttempt, StoredWasAccepted, Stored
  <2>4. DeliveredWasAcked' BY <1>6 DEF CountAttempt, DeliveredWasAcked, WorkerKnows, Stored
  <2>5. PastIsAcked' BY <1>6 DEF CountAttempt, PastIsAcked, DrainKnows
  <2>6. OnlyAcceptedReplayed' BY <1>6 DEF CountAttempt, OnlyAcceptedReplayed, DrainKnows, StoredWasAccepted, Stored
  <2> QED BY <2>1, <2>2, <2>3, <2>4, <2>5, <2>6 DEF QueueInv
<1>7. CASE SettleFailed(w)
  <2>1. WorkerKnows' BY <1>7 DEF SettleFailed, WorkerKnows, Replaying
  <2>2. DrainKnows' BY <1>7 DEF SettleFailed, DrainKnows, WorkerKnows, StoredWasAccepted, Stored, Replaying
  <2>3. StoredWasAccepted' BY <1>7 DEF SettleFailed, StoredWasAccepted, Stored
  <2>4. DeliveredWasAcked' BY <1>7 DEF SettleFailed, DeliveredWasAcked, WorkerKnows, Stored
  <2>5. PastIsAcked' BY <1>7 DEF SettleFailed, PastIsAcked, DrainKnows
  <2>6. OnlyAcceptedReplayed' BY <1>7 DEF SettleFailed, OnlyAcceptedReplayed, DrainKnows, StoredWasAccepted, Stored
  <2> QED BY <2>1, <2>2, <2>3, <2>4, <2>5, <2>6 DEF QueueInv
<1>8. CASE AppAnswers(w)
  <2>1. WorkerKnows' BY <1>8 DEF AppAnswers, WorkerKnows, Replaying
  <2>2. DrainKnows' BY <1>8 DEF AppAnswers, DrainKnows, WorkerKnows, StoredWasAccepted, Stored, Replaying
  <2>3. StoredWasAccepted' BY <1>8 DEF AppAnswers, StoredWasAccepted, Stored
  <2>4. DeliveredWasAcked' BY <1>8 DEF AppAnswers, DeliveredWasAcked, WorkerKnows, Stored
  <2>5. PastIsAcked' BY <1>8 DEF AppAnswers, PastIsAcked, DrainKnows
  <2>6. OnlyAcceptedReplayed' BY <1>8 DEF AppAnswers, OnlyAcceptedReplayed, DrainKnows, StoredWasAccepted, Stored
  <2> QED BY <2>1, <2>2, <2>3, <2>4, <2>5, <2>6 DEF QueueInv
<1> QED BY <1>1, <1>2, <1>3, <1>4, <1>5, <1>6, <1>7, <1>8 DEF ReplayEvent

\* So it holds always, whatever fails and in any order.
LEMMA QueueSafe == Spec => []QueueInv
<1> USE DEF QueueInv, WorkerKnows, DrainKnows, StoredWasAccepted, DeliveredWasAcked,
            PastIsAcked, OnlyAcceptedReplayed, Workers, Replaying
<1>1. Init => QueueInv
  BY WorkerAssumption DEF WorkerAssumption, Init, Stored
<1>2. TypeOK /\ EventInHand /\ QueueInv /\ [Next]_vars => QueueInv'
  <2> SUFFICES ASSUME TypeOK, EventInHand, QueueInv, [Next]_vars PROVE QueueInv'
    OBVIOUS
  <2>1. CASE Writers BY <2>1, WritersKeepQueueInv
  <2>2. CASE Replays
    <3>1. ASSUME NEW c \in Conns, Drain(c) PROVE QueueInv'
      BY <3>1, DrainKeepsQueueInv, ReplayKeepsQueueInv DEF Drain
    <3>2. ASSUME NEW m \in Manuals, Manual(m) \/ (\E i \in Ids : Request(m, i))
          PROVE  QueueInv'
      BY <3>2, ManualKeepsQueueInv, ReplayKeepsQueueInv DEF Manual
    <3>3. ASSUME NEW w \in Workers, AppAnswers(w) PROVE QueueInv'
      BY <3>3, ReplayKeepsQueueInv
    <3> QED BY <2>2, <3>1, <3>2, <3>3 DEF Replays
  <2>3. CASE Sessions
    <3> USE DEF net, rows, work, history, Goto, TypeOK, Stored
    <3>1. ASSUME NEW c \in Conns, Connect(c) PROVE QueueInv' BY <3>1 DEF Connect
    <3>2. ASSUME NEW c \in Conns, Drop(c) PROVE QueueInv' BY <3>2 DEF Drop
    <3>3. CASE Unregister BY <3>3 DEF Unregister
    <3>4. CASE Crash BY <3>4 DEF Crash
    <3> QED BY <2>3, <3>1, <3>2, <3>3, <3>4 DEF Sessions
  <2>4. CASE UNCHANGED vars
    BY <2>4 DEF vars, net, rows, work, history, Stored
  <2> QED BY <2>1, <2>2, <2>3, <2>4 DEF Next
<1> QED BY <1>1, <1>2, TypeCorrect, PTL DEF Spec

\* A row says "delivered" only if the app acknowledged the event, however
\* drains, manual replays, crashes and failed statements interleave.
THEOREM DeliveredOnlyIfAcked == Spec => []DeliveredWasAcked
  BY QueueSafe, PTL DEF QueueInv

-----------------------------------------------------------------------------
(* The order of a drain.                                                   *)

\* What a drain has taken up is no younger than what it has in hand, and older
\* than what it has left.
ByAge ==
  \A c \in Conns : \A i \in listed[c] \ todo[c] :
    i <= ev[c] /\ \A j \in todo[c] : i < j

\* List starts a drain afresh and Take takes its oldest event (Drain); nothing
\* else moves a drain.
LEMMA DrainGoesByAge == Spec => []ByAge
<1> USE BoundAssumption, WorkerAssumption DEF BoundAssumption, WorkerAssumption
<1>1. Init => ByAge BY DEF Init, ByAge
<1>2. TypeOK /\ ByAge /\ [Next]_vars => ByAge'
  <2> SUFFICES ASSUME TypeOK, ByAge, [Next]_vars PROVE ByAge'
    OBVIOUS
  <2>1. CASE /\ UNCHANGED <<listed, todo>>
             /\ \A c \in Conns : ev'[c] = ev[c]
    BY <2>1 DEF ByAge
  <2>2. ASSUME NEW c \in Conns, List(c) PROVE ByAge'
    BY <2>2 DEF List, ByAge, TypeOK
  <2>3. ASSUME NEW c \in Conns, Take(c) PROVE ByAge'
    <3>1. CASE UNCHANGED <<ev, todo>> BY <2>3, <3>1 DEF Take, ByAge
    <3>2. ASSUME NEW i \in Ids, IsOldest(i, todo[c]), ev' = [ev EXCEPT ![c] = i],
                 todo' = [todo EXCEPT ![c] = @ \ {i}], listed' = listed
          PROVE  ByAge'
      <4> SUFFICES ASSUME NEW d \in Conns, NEW k \in listed[d], k \notin todo'[d]
                   PROVE  k <= ev'[d] /\ \A j \in todo'[d] : k < j
        BY <3>2 DEF ByAge
      <4>1. CASE d # c BY <3>2, <4>1 DEF ByAge, TypeOK, Workers
      <4>2. CASE d = c
        <5>1. todo'[c] = todo[c] \ {i} /\ ev'[c] = i BY <3>2 DEF TypeOK, Workers
        <5>2. k \in Ids /\ todo[c] \subseteq Ids BY <4>2 DEF TypeOK
        <5>3. k = i \/ k \notin todo[c] BY <4>2, <5>1
        <5> QED BY <3>2, <4>2, <5>1, <5>2, <5>3 DEF ByAge, IsOldest, Ids
      <4> QED BY <4>1, <4>2
    <3> QED BY <2>3, <3>1, <3>2 DEF Take
  <2>4. ASSUME NEW m \in Manuals, NEW i \in Ids, Request(m, i)
        PROVE  UNCHANGED <<listed, todo>> /\ \A c \in Conns : ev'[c] = ev[c]
    BY <2>4 DEF Request, TypeOK, Workers
  <2>5. ASSUME NEW m \in Manuals, Reset(m) \/ LookupSession(m)
        PROVE  UNCHANGED <<listed, todo, ev>>
    BY <2>5 DEF Reset, LookupSession
  <2>6. ASSUME NEW w \in Workers, ReplayEvent(w) \/ AppAnswers(w)
        PROVE  UNCHANGED <<listed, todo, ev>>
    BY <2>6 DEF ReplayEvent, MarkReplaying, SendRequest, ReadResponse, Requeue,
                MarkDelivered, CountAttempt, SettleFailed, AppAnswers
  <2>7. Writers \/ Sessions \/ UNCHANGED vars => UNCHANGED <<listed, todo, ev>>
    BY DEF Writers, Receive, Commit, ClearEvents, Sessions, Connect, Drop, Unregister,
           Crash, vars, work
  <2> QED BY <2>1, <2>2, <2>3, <2>4, <2>5, <2>6, <2>7
          DEF Next, Replays, Drain, Manual, Workers
<1> QED BY <1>1, <1>2, TypeCorrect, PTL DEF Spec

\* A drain takes events up oldest first and stops at its first failure: it never
\* takes one up past an older one the app has not acknowledged.
THEOREM DrainIsHeadOfLine == Spec => []HeadOfLine
<1>1. TypeOK /\ PastIsAcked /\ ByAge => HeadOfLine
  <2> SUFFICES ASSUME TypeOK, PastIsAcked, ByAge, NEW c \in Conns,
                      NEW i \in listed[c] \ todo[c], NEW j \in listed[c], j < i
               PROVE  j \in acked
    BY DEF HeadOfLine
  <2>1. i \in Ids /\ j \in Ids /\ ev[c] \in Ids \cup {0}
    BY DEF TypeOK, Workers
  <2>2. i <= ev[c] /\ j \notin todo[c] BY <2>1, BoundAssumption DEF BoundAssumption, ByAge, Ids
  <2>3. j # ev[c] BY <2>1, <2>2, BoundAssumption DEF BoundAssumption, Ids
  <2> QED BY <2>2, <2>3 DEF PastIsAcked
<1> QED BY <1>1, TypeCorrect, QueueSafe, DrainGoesByAge, PTL DEF QueueInv

-----------------------------------------------------------------------------
(* The retry limit.  attempts counts answers of the local app, and the     *)
(* answers not counted yet are those some worker still has to count.       *)

Uncounted(i) ==
  {w \in Workers : /\ ev[w] = i
                   /\ \/ pc[w] \in {"deliver", "count"}
                      \/ pc[w] = "sent" /\ reply[w] # "none"}

AttemptsAreAnswers ==
  \A i \in Ids : attempts[i] + Cardinality(Uncounted(i)) <= answers[i]

BuriedWasTried == \A w \in Workers : pc[w] = "buried" => answers[ev[w]] >= MaxAttempts

RetryInv == AttemptsAreAnswers /\ BuriedWasTried /\ DeadWasTried

\* The answers not yet counted are finitely many, before and after a step.
LEMMA UncountedFinite ==
  ASSUME NEW i \in Ids
  PROVE  /\ IsFiniteSet(Uncounted(i)) /\ Cardinality(Uncounted(i)) \in Nat
         /\ IsFiniteSet(Uncounted(i)') /\ Cardinality(Uncounted(i)') \in Nat
<1>1. Uncounted(i) \in SUBSET Workers /\ Uncounted(i)' \in SUBSET Workers
  BY DEF Uncounted
<1> QED BY <1>1, WorkerAssumption, FS_Subset, FS_CardinalityType DEF WorkerAssumption

\* Steps that answer and count nothing.
LEMMA QuietKeepsRetryInv ==
  ASSUME TypeOK, EventInHand, RetryInv,
         \A i \in Ids : /\ Uncounted(i)' \subseteq Uncounted(i)
                        /\ attempts'[i] \in Nat /\ attempts'[i] <= attempts[i],
         answers' = answers,
         \A w \in Workers : pc'[w] = "buried" => pc[w] = "buried" /\ ev'[w] = ev[w],
         \A i \in Ids : state'[i] = "dead" =>
            \/ state[i] = "dead"
            \/ \E w \in Workers : pc[w] = "buried" /\ ev[w] = i
  PROVE  RetryInv'
<1> USE BoundAssumption DEF BoundAssumption, RetryInv
<1>1. AttemptsAreAnswers'
  <2> SUFFICES ASSUME NEW i \in Ids
               PROVE  attempts'[i] + Cardinality(Uncounted(i)') <= answers[i]
    BY DEF AttemptsAreAnswers
  <2>1. Cardinality(Uncounted(i)') <= Cardinality(Uncounted(i))
    BY UncountedFinite, FS_Subset
  <2> QED BY <2>1, UncountedFinite DEF AttemptsAreAnswers, TypeOK
<1>2. BuriedWasTried' BY DEF BuriedWasTried
<1>3. DeadWasTried' BY DEF BuriedWasTried, DeadWasTried
<1> QED BY <1>1, <1>2, <1>3

\* The app answers the request of worker w.
LEMMA AnswerKeepsRetryInv ==
  ASSUME TypeOK, EventInHand, RetryInv, NEW w \in Workers, AppAnswers(w)
  PROVE  RetryInv'
<1> USE BoundAssumption DEF BoundAssumption, RetryInv
<1>1. /\ ev[w] \in Ids /\ UNCHANGED <<attempts, state, pc, ev>>
      /\ answers' = [answers EXCEPT ![ev[w]] = @ + 1]
      /\ \A v \in Workers \ {w} : reply'[v] = reply[v]
  BY DEF AppAnswers, EventInHand, Busy, Replaying, TypeOK, net, rows
<1>2. AttemptsAreAnswers'
  <2> SUFFICES ASSUME NEW i \in Ids
               PROVE  attempts[i] + Cardinality(Uncounted(i)') <= answers'[i]
    BY <1>1 DEF AttemptsAreAnswers
  <2>1. CASE i = ev[w]
    <3>1. Uncounted(i)' \subseteq Uncounted(i) \cup {w}
      BY <1>1 DEF Uncounted
    <3>2. Cardinality(Uncounted(i)') <= Cardinality(Uncounted(i)) + 1
      <4>1. /\ IsFiniteSet(Uncounted(i) \cup {w})
            /\ Cardinality(Uncounted(i) \cup {w}) <= Cardinality(Uncounted(i)) + 1
        <5>1. IsFiniteSet(Uncounted(i)) /\ Cardinality(Uncounted(i)) \in Nat
          BY UncountedFinite
        <5>2. /\ IsFiniteSet(Uncounted(i) \cup {w})
              /\ Cardinality(Uncounted(i) \cup {w}) =
                   IF w \in Uncounted(i) THEN Cardinality(Uncounted(i))
                                         ELSE Cardinality(Uncounted(i)) + 1
          BY <5>1, FS_AddElement, Zenon
        <5> QED BY <5>1, <5>2
      <4>2. Cardinality(Uncounted(i)') <= Cardinality(Uncounted(i) \cup {w})
        BY <3>1, <4>1, FS_Subset
      <4>3. Cardinality(Uncounted(i) \cup {w}) \in Nat
        BY <4>1, FS_CardinalityType
      <4> QED BY <4>1, <4>2, <4>3, UncountedFinite
    <3> QED BY <1>1, <2>1, <3>2, UncountedFinite DEF AttemptsAreAnswers, TypeOK
  <2>2. CASE i # ev[w]
    <3>1. Uncounted(i)' = Uncounted(i) BY <1>1, <2>2 DEF Uncounted
    <3> QED BY <1>1, <2>2, <3>1, UncountedFinite DEF AttemptsAreAnswers, TypeOK
  <2> QED BY <2>1, <2>2
<1>3. \A i \in Ids : answers'[i] \in Nat /\ answers'[i] >= answers[i]
  BY <1>1 DEF TypeOK
<1>4. BuriedWasTried'
  BY <1>1, <1>3 DEF BuriedWasTried, EventInHand, Busy, Replaying, TypeOK
<1>5. DeadWasTried' BY <1>1, <1>3 DEF DeadWasTried, TypeOK
<1> QED BY <1>2, <1>4, <1>5

PlaceAfterCount(w) ==
  /\ pc' \in [Workers -> Places]
  /\ \A v \in Workers \ {w} : pc'[v] = pc[v]
  /\ pc'[w] \in {"next", "done", "requeued", "buried"}
  /\ pc'[w] = "buried" => attempts[ev[w]] + 1 >= MaxAttempts

\* Worker w counts the answer it holds, and goes on to another place.
LEMMA CountKeepsRetryInv ==
  ASSUME TypeOK, EventInHand, RetryInv, NEW w \in Workers, NEW n \in Nat,
         pc[w] \in {"deliver", "count"}, n <= attempts[ev[w]] + 1,
         attempts' = [attempts EXCEPT ![ev[w]] = n],
         UNCHANGED <<answers, ev, reply>>,
         PlaceAfterCount(w),
         \A i \in Ids : state'[i] = "dead" => state[i] = "dead"
  PROVE  RetryInv'
<1> USE BoundAssumption DEF BoundAssumption, RetryInv, PlaceAfterCount
<1>1. ev[w] \in Ids BY DEF EventInHand, Busy, Replaying
<1>2. w \in Uncounted(ev[w]) BY DEF Uncounted
<1>3. AttemptsAreAnswers'
  <2> SUFFICES ASSUME NEW i \in Ids
               PROVE  attempts'[i] + Cardinality(Uncounted(i)') <= answers[i]
    BY DEF AttemptsAreAnswers
  <2>1. CASE i = ev[w]
    <3>1. Uncounted(i)' \subseteq Uncounted(i) \ {w}
      BY DEF Uncounted, TypeOK
    <3>2. /\ IsFiniteSet(Uncounted(i) \ {w})
          /\ Cardinality(Uncounted(i) \ {w}) = Cardinality(Uncounted(i)) - 1
      BY <1>2, <2>1, UncountedFinite, FS_RemoveElement
    <3>3. Cardinality(Uncounted(i)') <= Cardinality(Uncounted(i)) - 1
      BY <3>1, <3>2, FS_Subset
    <3>4. attempts'[i] = n /\ n <= attempts[i] + 1
      BY <2>1 DEF TypeOK
    <3> QED BY <3>3, <3>4, UncountedFinite DEF AttemptsAreAnswers, TypeOK
  <2>2. CASE i # ev[w]
    <3>1. Uncounted(i)' = Uncounted(i) BY <2>2 DEF Uncounted, TypeOK
    <3> QED BY <2>2, <3>1 DEF AttemptsAreAnswers, TypeOK
  <2> QED BY <2>1, <2>2
<1>4. BuriedWasTried'
  <2>1. Cardinality(Uncounted(ev[w])) >= 1
    BY <1>1, <1>2, UncountedFinite, FS_EmptySet
  <2>2. answers[ev[w]] >= attempts[ev[w]] + 1
    BY <1>1, <2>1, UncountedFinite DEF AttemptsAreAnswers, TypeOK
  <2> QED BY <1>1, <2>2 DEF BuriedWasTried, TypeOK
<1>5. DeadWasTried' BY DEF DeadWasTried
<1> QED BY <1>3, <1>4, <1>5

\* What QuietKeepsRetryInv asks of a step.
Quiet ==
  /\ \A i \in Ids : /\ Uncounted(i)' \subseteq Uncounted(i)
                    /\ attempts'[i] \in Nat /\ attempts'[i] <= attempts[i]
  /\ answers' = answers
  /\ \A w \in Workers : pc'[w] = "buried" => pc[w] = "buried" /\ ev'[w] = ev[w]
  /\ \A i \in Ids : state'[i] = "dead" =>
        \/ state[i] = "dead"
        \/ \E w \in Workers : pc[w] = "buried" /\ ev[w] = i

\* Until a worker begins its attempt it counts nothing and answers nothing.
LEMMA CallersAreQuiet ==
  ASSUME TypeOK, EventInHand, WorkerKnows, NEW w \in Workers,
         \/ w \in Conns /\ (List(w) \/ Take(w))
         \/ Reset(w) \/ LookupSession(w) \/ (\E i \in Ids : Request(w, i))
  PROVE  Quiet
<1> USE DEF Quiet, Uncounted, TypeOK, WorkerKnows, EventInHand, Busy, Replaying, Workers,
            Goto, Fail, Update, Write, Stored, net, rows, work, history
<1>1. CASE w \in Conns /\ List(w) BY <1>1 DEF List
<1>2. CASE w \in Conns /\ Take(w) BY <1>2 DEF Take
<1>3. CASE Reset(w) BY <1>3 DEF Reset
<1>4. CASE LookupSession(w) BY <1>4 DEF LookupSession
<1>5. ASSUME NEW i \in Ids, Request(w, i) PROVE Quiet BY <1>5 DEF Request
<1> QED BY <1>1, <1>2, <1>3, <1>4, <1>5

\* The statements of an attempt that do not count leave the counter alone.
LEMMA ReplaysAreQuiet ==
  ASSUME TypeOK, EventInHand, WorkerKnows, NEW w \in Workers,
         \/ MarkReplaying(w) \/ SendRequest(w) \/ ReadResponse(w)
         \/ Requeue(w) \/ SettleFailed(w)
  PROVE  Quiet
<1> USE DEF Quiet, Uncounted, TypeOK, WorkerKnows, EventInHand, Busy, Replaying, Workers,
            Goto, Fail, Update, Write, Stored, net, rows, work, history
<1>1. CASE MarkReplaying(w) BY <1>1 DEF MarkReplaying
<1>2. CASE SendRequest(w) BY <1>2 DEF SendRequest
<1>3. CASE ReadResponse(w) BY <1>3 DEF ReadResponse
<1>4. CASE Requeue(w) BY <1>4 DEF Requeue
<1>5. CASE SettleFailed(w) BY <1>5 DEF SettleFailed
<1> QED BY <1>1, <1>2, <1>3, <1>4, <1>5

\* So does every step that is not a worker's.
LEMMA OthersAreQuiet ==
  ASSUME TypeOK, Writers \/ Sessions \/ UNCHANGED vars
  PROVE  Quiet
<1> USE DEF Quiet, Uncounted, TypeOK, Workers, Goto, Stored, net, rows, work, history
<1>1. CASE Receive BY <1>1, BoundAssumption DEF Receive, BoundAssumption, Ids
<1>2. ASSUME NEW i \in Ids, Commit(i) PROVE Quiet BY <1>2 DEF Commit
<1>3. CASE ClearEvents BY <1>3 DEF ClearEvents
<1>4. ASSUME NEW c \in Conns, Connect(c) PROVE Quiet BY <1>4 DEF Connect
<1>5. ASSUME NEW c \in Conns, Drop(c) PROVE Quiet BY <1>5 DEF Drop
<1>6. CASE Unregister BY <1>6 DEF Unregister
<1>7. CASE Crash BY <1>7 DEF Crash
<1>8. CASE UNCHANGED vars BY <1>8 DEF vars
<1> QED BY <1>1, <1>2, <1>3, <1>4, <1>5, <1>6, <1>7, <1>8 DEF Writers, Sessions

\* The statements that count do so for an answer that was not counted yet.
LEMMA CountersKeepRetryInv ==
  ASSUME TypeOK, EventInHand, WorkerKnows, RetryInv, NEW w \in Workers,
         MarkDelivered(w) \/ CountAttempt(w)
  PROVE  RetryInv'
<1> DEFINE a == attempts[ev[w]]
<1>1. pc[w] \in {"deliver", "count"} /\ ev[w] \in Ids /\ a \in Nat
  BY DEF MarkDelivered, CountAttempt, Write, Fail, Goto, EventInHand, Busy, Replaying, TypeOK
<1>2. UNCHANGED <<answers, ev, reply>>
  BY DEF MarkDelivered, CountAttempt, history
<1>3. a + 1 \in Nat /\ a + 1 <= a + 1 /\ a <= a + 1
  BY <1>1
<1>4. ASSUME attempts' = [attempts EXCEPT ![ev[w]] = a + 1] \/ attempts' = attempts,
             PlaceAfterCount(w), \A i \in Ids : state'[i] = "dead" => state[i] = "dead"
      PROVE  RetryInv'
  <2>1. CASE attempts' = [attempts EXCEPT ![ev[w]] = a + 1]
    BY <1>1, <1>2, <1>3, <1>4, <2>1, CountKeepsRetryInv
  <2>2. CASE attempts' = attempts
    <3>1. attempts' = [attempts EXCEPT ![ev[w]] = a] BY <2>2 DEF TypeOK
    <3> QED BY <1>1, <1>2, <1>3, <1>4, <3>1, CountKeepsRetryInv
  <2> QED BY <1>4, <2>1, <2>2
<1>5. CASE MarkDelivered(w)
  <2>1. PlaceAfterCount(w)
    BY <1>5 DEF MarkDelivered, Goto, Fail, Write, Places, PlaceAfterCount, Replaying, TypeOK
  <2>2. Update(ev[w], "delivered", a + 1) \/ UNCHANGED rows
    BY <1>5 DEF MarkDelivered, Write
  <2>3. attempts' = [attempts EXCEPT ![ev[w]] = a + 1] \/ attempts' = attempts
    BY <1>1, <2>2 DEF Update, rows, TypeOK
  <2>4. \A i \in Ids : state'[i] = "dead" => state[i] = "dead"
    BY <1>1, <2>2 DEF Update, rows, TypeOK
  <2> QED BY <1>4, <2>1, <2>3, <2>4
<1>6. CASE CountAttempt(w)
  <2>1. PlaceAfterCount(w)
    BY <1>1, <1>6, BoundAssumption
       DEF CountAttempt, Goto, Fail, Write, Places, PlaceAfterCount, Replaying, TypeOK, BoundAssumption
  <2>2. Update(ev[w], state[ev[w]], a + 1) \/ UNCHANGED rows
    BY <1>6 DEF CountAttempt, Write
  <2>3. attempts' = [attempts EXCEPT ![ev[w]] = a + 1] \/ attempts' = attempts
    BY <1>1, <2>2 DEF Update, rows, TypeOK
  <2>4. \A i \in Ids : state'[i] = "dead" => state[i] = "dead"
    BY <1>1, <2>2 DEF Update, rows, TypeOK
  <2> QED BY <1>4, <2>1, <2>3, <2>4
<1> QED BY <1>5, <1>6

\* So the counter never runs ahead of the answers (MarkFailed).
LEMMA RetrySafe == Spec => []RetryInv
<1>1. Init => RetryInv
  <2> SUFFICES ASSUME Init PROVE RetryInv
    OBVIOUS
  <2>1. \A i \in Ids : Uncounted(i) = {} BY DEF Init, Uncounted
  <2>2. \A i \in Ids : Cardinality(Uncounted(i)) = 0 BY <2>1, FS_EmptySet
  <2>3. AttemptsAreAnswers BY <2>2 DEF Init, AttemptsAreAnswers
  <2> QED BY <2>3 DEF Init, RetryInv, BuriedWasTried, DeadWasTried
<1>2. TypeOK /\ EventInHand /\ QueueInv /\ RetryInv /\ [Next]_vars => RetryInv'
  <2> SUFFICES ASSUME TypeOK, EventInHand, WorkerKnows, RetryInv, [Next]_vars
               PROVE  RetryInv'
    BY DEF QueueInv
  <2>0. Quiet => RetryInv' BY QuietKeepsRetryInv DEF Quiet
  <2>1. CASE Writers \/ Sessions \/ UNCHANGED vars
    BY <2>0, <2>1, OthersAreQuiet
  <2>2. ASSUME NEW w \in Workers, ReplayEvent(w) PROVE RetryInv'
    <3>1. CASE MarkDelivered(w) \/ CountAttempt(w)
      BY <3>1, CountersKeepRetryInv
    <3>2. CASE ~(MarkDelivered(w) \/ CountAttempt(w))
      <4>1. \/ MarkReplaying(w) \/ SendRequest(w) \/ ReadResponse(w)
            \/ Requeue(w) \/ SettleFailed(w)
        BY <2>2, <3>2 DEF ReplayEvent
      <4>2. Quiet BY <4>1, ReplaysAreQuiet
      <4> QED BY <2>0, <4>2
    <3> QED BY <3>1, <3>2
  <2>3. ASSUME NEW c \in Conns, Drain(c) PROVE RetryInv'
    BY <2>0, <2>2, <2>3, CallersAreQuiet DEF Drain, Workers
  <2>4. ASSUME NEW m \in Manuals, Manual(m) \/ (\E i \in Ids : Request(m, i))
        PROVE  RetryInv'
    BY <2>0, <2>2, <2>4, CallersAreQuiet DEF Manual, Workers
  <2>5. ASSUME NEW w \in Workers, AppAnswers(w) PROVE RetryInv'
    BY <2>5, AnswerKeepsRetryInv
  <2> QED BY <2>1, <2>3, <2>4, <2>5 DEF Next, Replays
<1> QED BY <1>1, <1>2, TypeCorrect, QueueSafe, PTL DEF Spec

\* The retry limit of MarkFailed, for any limit and any race of the workers
\* that count attempts: a dead event was answered at least that often.
THEOREM DeadOnlyIfTried == Spec => []DeadWasTried
  BY RetrySafe, PTL DEF RetryInv

-----------------------------------------------------------------------------
(* ReplayQueue implements WebhookPromise: every UPDATE settles an event or *)
(* does nothing the promise can see, and it settles only what the          *)
(* invariants above allow to be settled.                                   *)

\* Events are numbered as they come: a number not drawn yet has no row, and an
\* INSERT in flight has not been answered 202.
Fresh ==
  \A i \in Ids : /\ i > received => state[i] = "absent" /\ i \notin accepted
                 /\ state[i] = "inserting" => i \notin accepted

\* The only steps that touch what Fresh reads.
LEMMA UpdateKeepsFresh ==
  ASSUME TypeOK, Fresh, NEW i \in Ids, NEW st \in RowStates \ {"absent", "inserting"}, NEW n,
         Update(i, st, n), UNCHANGED accepted
  PROVE  Fresh'
BY DEF TypeOK, Fresh, Update, Stored, RowStates

\* An id that was not drawn yet stays unused (the sequence of the table).
LEMMA NumberingSafe == Spec => []Fresh
<1>1. Init => Fresh
  BY BoundAssumption DEF BoundAssumption, Init, Fresh, Ids
<1>2. TypeOK /\ EventInHand /\ Fresh /\ [Next]_vars => Fresh'
  <2> SUFFICES ASSUME TypeOK, EventInHand, Fresh, [Next]_vars PROVE Fresh'
    OBVIOUS
  <2> USE BoundAssumption DEF BoundAssumption, net, rows, work, history
  <2>1. CASE Writers
    <3> USE DEF TypeOK, Fresh, RowStates
    <3>1. CASE Receive BY <3>1 DEF Receive, Ids
    <3>2. ASSUME NEW i \in Ids, Commit(i) PROVE Fresh' BY <3>2 DEF Commit, Ids
    <3>3. CASE ClearEvents BY <3>3 DEF ClearEvents, Stored
    <3> QED BY <2>1, <3>1, <3>2, <3>3 DEF Writers
  <2>2. UNCHANGED <<state, received, accepted>> => Fresh'
    BY DEF Fresh
  <2>3. ASSUME NEW c \in Conns, List(c) \/ Take(c) PROVE Fresh'
    BY <2>2, <2>3 DEF List, Take, Fail, rows
  <2>4. ASSUME NEW m \in Manuals, Reset(m) PROVE Fresh'
    <3>1. ev[m] \in Ids \/ pc[m] # "reset"
      BY DEF EventInHand, Busy, Workers
    <3> QED BY <2>2, <2>4, <3>1, UpdateKeepsFresh DEF Reset, Goto, Fail, Write, RowStates
  <2>5. ASSUME NEW m \in Manuals, LookupSession(m) \/ \E i \in Ids : Request(m, i)
        PROVE  Fresh'
    BY <2>2, <2>5 DEF LookupSession, Request
  <2>6. ASSUME NEW w \in Workers, AppAnswers(w) PROVE Fresh'
    BY <2>2, <2>6 DEF AppAnswers
  <2>7. ASSUME NEW w \in Workers, ReplayEvent(w) PROVE Fresh'
    <3> USE DEF Goto, Fail, Write
    <3>1. pc[w] \in Replaying \cup {"mark"} => ev[w] \in Ids
      BY DEF EventInHand, Busy
    <3>2. CASE MarkReplaying(w)
      BY <2>2, <3>1, <3>2, UpdateKeepsFresh DEF MarkReplaying, RowStates
    <3>3. CASE SendRequest(w) \/ ReadResponse(w)
      BY <2>2, <3>3 DEF SendRequest, ReadResponse
    <3>4. CASE Requeue(w)
      BY <2>2, <3>1, <3>4, UpdateKeepsFresh DEF Requeue, RowStates, Replaying
    <3>5. CASE MarkDelivered(w)
      BY <2>2, <3>1, <3>5, UpdateKeepsFresh DEF MarkDelivered, RowStates, Replaying
    <3>6. CASE CountAttempt(w)
      <4>1. CASE UNCHANGED rows BY <2>2, <3>6, <4>1 DEF CountAttempt
      <4>2. CASE Stored(ev[w]) /\ Update(ev[w], state[ev[w]], attempts[ev[w]] + 1)
        <5>1. ev[w] \in Ids BY <3>1, <3>6 DEF CountAttempt, Replaying
        <5>2. state[ev[w]] \in RowStates \ {"absent", "inserting"}
          BY <4>2, <5>1 DEF Stored, TypeOK
        <5> QED BY <3>6, <4>2, <5>1, <5>2, UpdateKeepsFresh DEF CountAttempt
      <4> QED BY <3>6, <4>1, <4>2 DEF CountAttempt
    <3>7. CASE SettleFailed(w)
      BY <2>2, <3>1, <3>7, UpdateKeepsFresh DEF SettleFailed, RowStates, Replaying
    <3> QED BY <2>7, <3>2, <3>3, <3>4, <3>5, <3>6, <3>7 DEF ReplayEvent
  <2>8. CASE Sessions BY <2>2, <2>8 DEF Sessions, Connect, Drop, Unregister, Crash
  <2>9. CASE UNCHANGED vars BY <2>2, <2>9 DEF vars
  <2> QED BY <2>1, <2>3, <2>4, <2>5, <2>6, <2>7, <2>8, <2>9
          DEF Next, Replays, Drain, Manual, Workers
<1> QED BY <1>1, <1>2, TypeCorrect, PTL DEF Spec

-----------------------------------------------------------------------------

\* A step the promise cannot see.
Hidden == UNCHANGED <<statusOf, accepted, answers, acked>>

\* An UPDATE of the row of an event settles the event or is hidden.
LEMMA UpdateSettles ==
  ASSUME TypeOK, NEW i \in Ids, NEW st \in RowStates \ {"absent", "inserting"}, NEW n,
         Update(i, st, n), UNCHANGED <<accepted, answers, acked>>,
         st = "delivered" => i \in acked \/ state[i] = "delivered",
         st = "dead" => answers[i] >= MaxAttempts \/ state[i] = "dead"
  PROVE  Promise!Settle(i) \/ Hidden
<1> USE DEF statusOf, Stored, Update, TypeOK, RowStates
<1>1. CASE ~Stored(i)
  <2>1. state' = state BY <1>1
  <2> QED BY <2>1 DEF Hidden
<1>2. CASE Stored(i) /\ st = state[i]
  <2>1. state' = state BY <1>2
  <2> QED BY <2>1 DEF Hidden
<1>3. CASE Stored(i) /\ st # state[i]
  <2>1. statusOf[i] # "absent" BY <1>3
  <2>2. state' = [state EXCEPT ![i] = st] BY <1>3
  <2>3. CASE st \in {"queued", "replaying"}
    <3>1. statusOf' = [statusOf EXCEPT ![i] = "pending"] BY <2>2, <2>3
    <3> QED BY <2>1, <3>1 DEF Promise!Settle
  <2>4. CASE st = "delivered"
    <3>1. statusOf' = [statusOf EXCEPT ![i] = "delivered"] BY <2>2, <2>4
    <3> QED BY <1>3, <2>1, <2>4, <3>1 DEF Promise!Settle
  <2>5. CASE st = "dead"
    <3>1. statusOf' = [statusOf EXCEPT ![i] = "dead"] BY <2>2, <2>5
    <3> QED BY <1>3, <2>1, <2>5, <3>1 DEF Promise!Settle
  <2> QED BY <2>3, <2>4, <2>5
<1> QED BY <1>1, <1>2, <1>3

\* The writers: an INSERT that commits is an accepted webhook.
LEMMA WritersImplement ==
  ASSUME TypeOK, Fresh, Writers
  PROVE  Promise!Next \/ Hidden
<1> USE BoundAssumption DEF BoundAssumption, TypeOK, RowStates, statusOf, Stored,
        net, rows, work, history
<1>1. CASE Receive
  <2>1. received + 1 \in Ids /\ state[received + 1] = "absent"
    BY <1>1 DEF Receive, Ids, Fresh
  <2> QED BY <1>1, <2>1 DEF Receive, Hidden
<1>2. ASSUME NEW i \in Ids, Commit(i) PROVE Promise!Accept(i) \/ Hidden
  <2>1. CASE state' = [state EXCEPT ![i] = "absent"] /\ UNCHANGED accepted
    BY <1>2, <2>1 DEF Commit, Hidden
  <2>2. CASE state' = [state EXCEPT ![i] = "queued"] /\ accepted' = accepted \cup {i}
    <3>1. statusOf' = [statusOf EXCEPT ![i] = "pending"] BY <2>2
    <3>2. i \notin accepted BY <1>2 DEF Commit, Fresh
    <3> QED BY <1>2, <2>2, <3>1, <3>2 DEF Commit, Promise!Accept
  <2> QED BY <1>2, <2>1, <2>2 DEF Commit
<1>3. CASE ClearEvents
  <2>1. statusOf' = [i \in Ids |-> "absent"] BY <1>3 DEF ClearEvents, Stored
  <2> QED BY <1>3, <2>1 DEF ClearEvents, Promise!Next, Promise!Clear
<1> QED BY <1>1, <1>2, <1>3 DEF Writers, Promise!Next

\* ReplayEvent: the answers of the app are the promise's, each UPDATE settles.
LEMMA ReplayImplementsNext ==
  ASSUME TypeOK, EventInHand, QueueInv, RetryInv, NEW w \in Workers,
         ReplayEvent(w) \/ AppAnswers(w)
  PROVE  Promise!Next \/ Hidden
<1> USE DEF Goto, Fail, Write, net, rows, work, history
<1>0. pc[w] \in Replaying \cup {"mark"} => ev[w] \in Ids
  BY DEF EventInHand, Busy
<1>1. UNCHANGED <<state, accepted, answers, acked>> => Hidden
  BY DEF Hidden, statusOf, Stored
<1>2. \A i \in Ids : Promise!Settle(i) => Promise!Next
  BY DEF Promise!Next
<1>3. CASE MarkReplaying(w)
  BY <1>0, <1>1, <1>2, <1>3, UpdateSettles DEF MarkReplaying, RowStates
<1>4. CASE SendRequest(w) \/ ReadResponse(w)
  BY <1>1, <1>4 DEF SendRequest, ReadResponse
<1>5. CASE Requeue(w)
  BY <1>0, <1>1, <1>2, <1>5, UpdateSettles DEF Requeue, RowStates, Replaying
<1>6. CASE MarkDelivered(w)
  <2>1. pc[w] = "deliver" => ev[w] \in acked BY DEF QueueInv, WorkerKnows
  <2> QED BY <1>0, <1>1, <1>2, <1>6, <2>1, UpdateSettles
          DEF MarkDelivered, RowStates, Replaying
<1>7. CASE CountAttempt(w)
  <2>1. ev[w] \in Ids BY <1>0, <1>7 DEF CountAttempt, Replaying
  <2>2. CASE UNCHANGED rows BY <1>1, <1>7, <2>2 DEF CountAttempt
  <2>3. CASE Stored(ev[w]) /\ Update(ev[w], state[ev[w]], attempts[ev[w]] + 1)
    <3>1. state[ev[w]] \in RowStates \ {"absent", "inserting"}
      BY <2>1, <2>3 DEF Stored, TypeOK
    <3> QED BY <1>2, <1>7, <2>1, <2>3, <3>1, UpdateSettles DEF CountAttempt
  <2> QED BY <1>7, <2>2, <2>3 DEF CountAttempt
<1>8. CASE SettleFailed(w)
  <2>1. pc[w] = "buried" => answers[ev[w]] >= MaxAttempts
    BY DEF RetryInv, BuriedWasTried
  <2> QED BY <1>0, <1>1, <1>2, <1>8, <2>1, UpdateSettles
          DEF SettleFailed, RowStates, Replaying
<1>9. CASE AppAnswers(w)
  <2>1. ev[w] \in Ids BY <1>0, <1>9 DEF AppAnswers, Replaying
  <2>2. ev[w] \in accepted
    BY <2>1, BoundAssumption DEF QueueInv, OnlyAcceptedReplayed, Ids, BoundAssumption
  <2>3. statusOf' = statusOf BY <1>9 DEF AppAnswers, statusOf, Stored
  <2>4. Promise!Answer(ev[w]) BY <1>9, <2>2, <2>3 DEF AppAnswers, Promise!Answer
  <2> QED BY <2>1, <2>4 DEF Promise!Next
<1> QED BY <1>3, <1>4, <1>5, <1>6, <1>7, <1>8, <1>9 DEF ReplayEvent

\* The queue of a tunnel, with all its drains, manual replays, crashes and
\* failed statements, is an at-least-once queue of accepted webhooks.
THEOREM ReplayImplements == Spec => KeepsPromise
<1>1. Init => Promise!Init
  BY DEF Init, Promise!Init, statusOf
<1>2. TypeOK /\ EventInHand /\ QueueInv /\ RetryInv /\ Fresh /\ [Next]_vars
        => [Promise!Next]_(Promise!promise)
  <2> SUFFICES ASSUME TypeOK, EventInHand, QueueInv, RetryInv, Fresh, [Next]_vars
               PROVE  Promise!Next \/ Hidden
    BY DEF Hidden, Promise!promise
  <2>1. UNCHANGED <<state, accepted, answers, acked>> => Hidden
    BY DEF Hidden, statusOf, Stored
  <2>2. CASE Writers BY <2>2, WritersImplement
  <2>3. ASSUME NEW c \in Conns, Drain(c) PROVE Promise!Next \/ Hidden
    <3>1. CASE List(c) \/ Take(c)
      BY <2>1, <3>1 DEF List, Take, Fail, rows, history
    <3> QED BY <2>3, <3>1, ReplayImplementsNext DEF Drain, Workers
  <2>4. ASSUME NEW m \in Manuals, Manual(m) PROVE Promise!Next \/ Hidden
    <3>1. CASE Reset(m)
      <4>1. ev[m] \in Ids BY <3>1 DEF Reset, Goto, Fail, Write, EventInHand, Busy, Workers
      <4>2. \A i \in Ids : Promise!Settle(i) => Promise!Next BY DEF Promise!Next
      <4> QED BY <2>1, <3>1, <4>1, <4>2, UpdateSettles
              DEF Reset, Fail, Write, rows, history, RowStates
    <3>2. CASE LookupSession(m) BY <2>1, <3>2 DEF LookupSession, rows, history
    <3> QED BY <2>4, <3>1, <3>2, ReplayImplementsNext DEF Manual, Workers
  <2>5. ASSUME NEW m \in Manuals, NEW i \in Ids, Request(m, i) PROVE Hidden
    BY <2>1, <2>5 DEF Request, rows, history
  <2>6. ASSUME NEW w \in Workers, AppAnswers(w) PROVE Promise!Next \/ Hidden
    BY <2>6, ReplayImplementsNext
  <2>7. CASE Sessions
    BY <2>1, <2>7 DEF Sessions, Connect, Drop, Unregister, Crash, rows, history
  <2>8. CASE UNCHANGED vars BY <2>1, <2>8 DEF vars, rows, history
  <2> QED BY <2>2, <2>3, <2>4, <2>5, <2>6, <2>7, <2>8 DEF Next, Replays
<1> QED BY <1>1, <1>2, TypeCorrect, QueueSafe, RetrySafe, NumberingSafe, PTL
        DEF Spec, KeepsPromise, Promise!Spec
=============================================================================
