-------------------------- MODULE ReplayRefinement --------------------------
(* ReplayQueue implements WebhookPromise: an event row that is queued or   *)
(* replaying is a pending webhook, and an INSERT in flight is not there.   *)
EXTENDS ReplayQueue

statusOf ==
  [i \in Ids |-> IF state[i] \in {"queued", "replaying"} THEN "pending"
                 ELSE IF Stored(i) THEN state[i] ELSE "absent"]

Promise == INSTANCE WebhookPromise WITH status <- statusOf

\* Every step of the queue's writers, drains, manual replays and crashes keeps
\* the promise: each maps to a step of WebhookPromise or leaves it unchanged.
KeepsPromise == Promise!Spec
=============================================================================
