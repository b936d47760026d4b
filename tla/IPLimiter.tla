----------------------------- MODULE IPLimiter -----------------------------
(***************************************************************************)
(* The rate limiter of the public listeners, the tunnel listener and the   *)
(* sign-up and log-in calls: a lazily refilled bucket per key, in a map    *)
(* from which idle entries are swept so that it does not grow for ever.    *)
(* Allow holds the mutex throughout, so a call is one step.                *)
(*                                                                         *)
(* Time is in ticks and tokens in units such that Rate (rps) is a whole    *)
(* number of units a tick and a request takes Cost units.                  *)
(***************************************************************************)
EXTENDS Integers

CONSTANTS
  Keys,      \* an address, or an address and a subdomain
  Rate,      \* rps: units a bucket gains in a tick
  Burst,     \* burst: units a bucket holds
  Cost,      \* units a request takes
  IdleTTL,   \* idleTTL, in ticks
  MaxTime    \* bound: ticks

ASSUME ParametersAssumption ==
  {Rate, Burst, Cost, MaxTime} \subseteq Nat /\ IdleTTL \in Nat \ {0}

\* A bucket is full again by the time its entry may be swept: 300 s at 20/s,
\* 10/s and 10/min for bursts of 40, 30 and 3, and the default of 5/min for 5.
ASSUME RefillAssumption == Burst <= IdleTTL * Rate

VARIABLES
  now,        \* time.Now()
  entries,    \* the keys the map holds
  tokens,     \* rate.Limiter's tokens, as of its last refill
  filled,     \* rate.Limiter's last refill
  lastSeen,   \* limiterEntry.lastSeen
  lastSweep,  \* lastSweep
  verdict     \* the last answer of Allow and its key

vars == <<now, entries, tokens, filled, lastSeen, lastSweep, verdict>>

TypeOK ==
  /\ now \in 0..MaxTime
  /\ entries \in SUBSET Keys
  /\ tokens \in [Keys -> 0..Burst]
  /\ filled \in [Keys -> 0..now]
  /\ lastSeen \in [Keys -> 0..now]
  /\ lastSweep \in -IdleTTL..now
  /\ verdict \in {<<>>} \cup (Keys \X BOOLEAN)

\* lastSweep's zero value is further back than idleTTL.  The fields of a key
\* that is not in the map mean nothing.
Init ==
  /\ now = 0
  /\ entries = {}
  /\ tokens = [k \in Keys |-> 0]
  /\ filled = [k \in Keys |-> 0]
  /\ lastSeen = [k \in Keys |-> 0]
  /\ lastSweep = -IdleTTL
  /\ verdict = <<>>

Least(m, n) == IF m <= n THEN m ELSE n

\* Mutant: the bucket has no bound.
LevelUncapped(k) == tokens[k] + (now - filled[k]) * Rate

\* rate.Limiter's advance: what has flowed in since the last refill.
Level(k) == Least(Burst, tokens[k] + (now - filled[k]) * Rate)

\* Mutant: the sweep waits for twice as long.
SweepLate == now - lastSweep > 2 * IdleTTL

\* sweepLocked does something at most once per idleTTL ...
SweepDue == now - lastSweep >= IdleTTL

\* Mutant: the sweep drops the whole map.
NoSurvivors == IF SweepDue THEN {} ELSE entries

\* ... and then deletes what has been idle for longer.
Survivors ==
  IF SweepDue THEN {k \in entries : now - lastSeen[k] <= IdleTTL} ELSE entries

\* Allow: the sweep, the entry (a new one starts full), rate.Limiter.Allow.
\* A refusal leaves the limiter as it is.
Allow(k) ==
  LET level == IF k \in Survivors THEN Level(k) ELSE Burst IN
  /\ entries' = Survivors \cup {k}
  /\ lastSweep' = IF SweepDue THEN now ELSE lastSweep
  /\ lastSeen' = [lastSeen EXCEPT ![k] = now]
  /\ IF level >= Cost
     THEN /\ tokens' = [tokens EXCEPT ![k] = level - Cost]
          /\ filled' = [filled EXCEPT ![k] = now]
          /\ verdict' = <<k, TRUE>>
     ELSE /\ tokens' = [tokens EXCEPT ![k] = IF k \in Survivors THEN @ ELSE Burst]
          /\ filled' = [filled EXCEPT ![k] = IF k \in Survivors THEN @ ELSE now]
          /\ verdict' = <<k, FALSE>>
  /\ UNCHANGED now

Tick ==
  /\ now < MaxTime
  /\ now' = now + 1
  /\ UNCHANGED <<entries, tokens, filled, lastSeen, lastSweep, verdict>>

Next == Tick \/ \E k \in Keys : Allow(k)

Spec == Init /\ [][Next]_vars

-----------------------------------------------------------------------------
(* Properties.                                                             *)

\* A key that is not in the map has a full bucket.
levelOf == [k \in Keys |-> IF k \in entries THEN Level(k) ELSE Burst]

Bucket == INSTANCE TokenBucket WITH level <- levelOf

\* Forgetting idle entries is unobservable: Allow answers as a bucket per key
\* that fills all the time and is never dropped, whatever keys come when.
IsTokenBucket == Bucket!Spec

\* The map does not keep idle keys: whenever Allow returns, no entry was last
\* used two idle times ago or longer, so the map is bounded by recent traffic.
IdleIsForgotten ==
  [][\A k \in Keys : Allow(k) =>
       \A j \in entries' : now - lastSeen'[j] < 2 * IdleTTL]_vars
=============================================================================
