--------------------------- MODULE WebhookPromise ---------------------------
(***************************************************************************)
(* What the webhook queue of a tunnel promises, whatever happens inside:   *)
(* an accepted webhook stays pending until it is settled; it is settled as *)
(* delivered only after the local app acknowledged it, given up only after *)
(* the app answered it MaxAttempts times, and removed only by the owner,   *)
(* who removes everything.  Delivery is at least once: the app may see a   *)
(* webhook again, a settled one included.                                  *)
(***************************************************************************)
EXTENDS Naturals

CONSTANTS Ids, MaxAttempts

VARIABLES
  status,    \* of each webhook
  accepted,  \* webhooks the edge took, those answered 202 among them
  answers,   \* how often the app answered each webhook
  acked      \* webhooks the app answered with a status below 500

promise == <<status, accepted, answers, acked>>

Init ==
  /\ status = [i \in Ids |-> "absent"]
  /\ accepted = {}
  /\ answers = [i \in Ids |-> 0]
  /\ acked = {}

Accept(i) ==
  /\ i \notin accepted
  /\ accepted' = accepted \cup {i}
  /\ status' = [status EXCEPT ![i] = "pending"]
  /\ UNCHANGED <<answers, acked>>

Answer(i) ==
  /\ i \in accepted
  /\ answers' = [answers EXCEPT ![i] = @ + 1]
  /\ acked' \in {acked, acked \cup {i}}
  /\ UNCHANGED <<status, accepted>>

Settle(i) ==
  /\ status[i] # "absent"
  /\ \/ i \in acked /\ status' = [status EXCEPT ![i] = "delivered"]
     \/ answers[i] >= MaxAttempts /\ status' = [status EXCEPT ![i] = "dead"]
     \/ status' = [status EXCEPT ![i] = "pending"]
  /\ UNCHANGED <<accepted, answers, acked>>

Clear ==
  /\ status' = [i \in Ids |-> "absent"]
  /\ UNCHANGED <<accepted, answers, acked>>

Next == Clear \/ \E i \in Ids : Accept(i) \/ Answer(i) \/ Settle(i)

Spec == Init /\ [][Next]_promise
=============================================================================
