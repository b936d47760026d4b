---------------------------- MODULE TokenBucket ----------------------------
(***************************************************************************)
(* What a rate limiter promises: each key has a bucket of its own that     *)
(* fills at a constant rate up to its burst and never forgets what was     *)
(* taken from it.                                                          *)
(***************************************************************************)
EXTENDS Naturals

CONSTANTS Keys, Rate, Burst, Cost

VARIABLES
  level,    \* what is in the bucket of each key
  verdict   \* the last request decided: its key and whether it was allowed

Least(m, n) == IF m <= n THEN m ELSE n

Init ==
  /\ level = [k \in Keys |-> Burst]
  /\ verdict = <<>>

Fill ==
  /\ level' = [k \in Keys |-> Least(Burst, level[k] + Rate)]
  /\ UNCHANGED verdict

Decide(k) ==
  \/ /\ level[k] >= Cost
     /\ level' = [level EXCEPT ![k] = @ - Cost]
     /\ verdict' = <<k, TRUE>>
  \/ /\ level[k] < Cost
     /\ verdict' = <<k, FALSE>>
     /\ UNCHANGED level

Next == Fill \/ \E k \in Keys : Decide(k)

Spec == Init /\ [][Next]_<<level, verdict>>
=============================================================================
