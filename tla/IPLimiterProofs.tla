-------------------------- MODULE IPLimiterProofs --------------------------
(***************************************************************************)
(* The rate limiter is a token bucket per key, for every rate, burst and   *)
(* idle time for which a bucket refills before it may be forgotten.        *)
(***************************************************************************)
EXTENDS IPLimiter, TLAPS

\* A limiter is refilled at the latest when its entry is used.
RefilledByUse == \A k \in entries : filled[k] <= lastSeen[k]

\* What the last sweep left was not idle for longer than idleTTL then.
SweptByThen == \A k \in entries : lastSweep - lastSeen[k] <= IdleTTL

LimiterInv == RefilledByUse /\ SweptByThen

\* A bucket only gains in time, and holds Burst at most.
LEMMA LevelRange ==
  ASSUME TypeOK, NEW k \in Keys
  PROVE  Level(k) \in 0..Burst
<1>1. tokens[k] \in 0..Burst /\ now - filled[k] \in Nat BY DEF TypeOK
<1>2. (now - filled[k]) * Rate \in Nat
  BY <1>1, ParametersAssumption DEF ParametersAssumption
<1> QED BY <1>1, <1>2, ParametersAssumption DEF ParametersAssumption, Level, Least

(* Whatever Allow and its sweeps do, levels stay within the burst, and no
   bucket is filled after the present time (ratelimit.go). *)
THEOREM TypeCorrect == Spec => []TypeOK
<1> USE ParametersAssumption DEF ParametersAssumption
<1>1. Init => TypeOK BY DEF Init, TypeOK
<1>2. TypeOK /\ [Next]_vars => TypeOK'
  <2> SUFFICES ASSUME TypeOK, [Next]_vars PROVE TypeOK'
    OBVIOUS
  <2>1. CASE Tick BY <2>1 DEF Tick, TypeOK
  <2>2. ASSUME NEW k \in Keys, Allow(k) PROVE TypeOK'
    <3> DEFINE level == IF k \in Survivors THEN Level(k) ELSE Burst
    <3>1. level \in 0..Burst BY LevelRange
    <3>2. tokens' \in [Keys -> 0..Burst]
      <4>1. CASE level >= Cost
        <5>1. level - Cost \in 0..Burst BY <3>1, <4>1
        <5> QED BY <2>2, <4>1, <5>1 DEF Allow, TypeOK
      <4>2. CASE ~(level >= Cost)
        <5>1. tokens' = [tokens EXCEPT ![k] = IF k \in Survivors THEN @ ELSE Burst]
          BY <2>2, <4>2 DEF Allow
        <5>2. tokens \in [Keys -> 0..Burst] BY DEF TypeOK
        <5> QED BY <5>1, <5>2
      <4> QED BY <4>1, <4>2
    <3>3. filled' \in [Keys -> 0..now']
      <4>1. \/ filled' = [filled EXCEPT ![k] = now]
            \/ filled' = [filled EXCEPT ![k] = IF k \in Survivors THEN @ ELSE now]
        BY <2>2 DEF Allow
      <4>2. filled \in [Keys -> 0..now] /\ now \in Nat /\ now' = now
        BY <2>2 DEF Allow, TypeOK
      <4> QED BY <4>1, <4>2
    <3>4. verdict' \in {<<>>} \cup (Keys \X BOOLEAN)
      <4>1. verdict' = <<k, TRUE>> \/ verdict' = <<k, FALSE>> BY <2>2 DEF Allow
      <4>2. <<k, TRUE>> \in Keys \X BOOLEAN /\ <<k, FALSE>> \in Keys \X BOOLEAN
        BY Zenon
      <4> QED BY <4>1, <4>2, Zenon
    <3>5. lastSeen' \in [Keys -> 0..now'] /\ now' = now BY <2>2 DEF Allow, TypeOK
    <3>6. lastSweep' \in -IdleTTL..now' BY <2>2 DEF Allow, TypeOK
    <3>7. entries' \in SUBSET Keys BY <2>2 DEF Allow, Survivors, TypeOK
    <3> QED BY <3>2, <3>3, <3>4, <3>5, <3>6, <3>7 DEF TypeOK
  <2>3. CASE UNCHANGED vars BY <2>3 DEF vars, TypeOK
  <2> QED BY <2>1, <2>2, <2>3 DEF Next
<1> QED BY <1>1, <1>2, PTL DEF Spec

\* Both parts hold always (allow, evictLoop).
LEMMA LimiterSafe == Spec => []LimiterInv
<1> USE ParametersAssumption DEF ParametersAssumption, LimiterInv, RefilledByUse, SweptByThen
<1>1. Init => LimiterInv BY DEF Init
<1>2. TypeOK /\ LimiterInv /\ [Next]_vars => LimiterInv'
  <2> SUFFICES ASSUME TypeOK, LimiterInv, [Next]_vars PROVE LimiterInv'
    OBVIOUS
  <2>1. CASE Tick BY <2>1 DEF Tick
  <2>2. ASSUME NEW k \in Keys, Allow(k) PROVE LimiterInv'
    <3>1. RefilledByUse'
      <4>1. /\ entries' = Survivors \cup {k} /\ Survivors \subseteq entries
            /\ lastSeen' = [lastSeen EXCEPT ![k] = now]
            /\ \/ filled' = [filled EXCEPT ![k] = now]
               \/ filled' = [filled EXCEPT ![k] = IF k \in Survivors THEN @ ELSE now]
        BY <2>2 DEF Allow, Survivors
      <4>2. /\ filled \in [Keys -> 0..now] /\ lastSeen \in [Keys -> 0..now]
            /\ now \in Nat /\ entries \subseteq Keys
        BY DEF TypeOK
      <4>3. \A j \in entries' \ {k} : filled'[j] <= lastSeen'[j] BY <4>1, <4>2
      <4>4. filled'[k] \in 0..now /\ lastSeen'[k] = now BY <4>1, <4>2
      <4> QED BY <4>3, <4>4
    <3>2. SweptByThen' BY <2>2 DEF Allow, TypeOK, Survivors, SweepDue
    <3> QED BY <3>1, <3>2
  <2>3. CASE UNCHANGED vars BY <2>3 DEF vars
  <2> QED BY <2>1, <2>2, <2>3 DEF Next
<1> QED BY <1>1, <1>2, TypeCorrect, PTL DEF Spec

\* The map is bounded by recent traffic: the throttled sweep still forgets a
\* key within two idle times of its last use, at the next call of Allow.
THEOREM IdleKeysAreForgotten == Spec => IdleIsForgotten
<1>1. ASSUME TypeOK, LimiterInv, NEW k \in Keys, Allow(k), NEW j \in entries'
      PROVE  now - lastSeen'[j] < 2 * IdleTTL
  <2> USE ParametersAssumption DEF ParametersAssumption, TypeOK
  <2>1. CASE j = k BY <1>1, <2>1 DEF Allow
  <2>2. CASE j # k
    <3>1. j \in Survivors /\ j \in Keys /\ lastSeen'[j] = lastSeen[j]
      BY <1>1, <2>2 DEF Allow, Survivors
    <3>2. CASE SweepDue
      <4>1. Survivors = {i \in entries : now - lastSeen[i] <= IdleTTL}
        BY <3>2 DEF Survivors
      <4>2. now - lastSeen[j] <= IdleTTL BY <3>1, <4>1
      <4>3. now \in Nat /\ lastSeen[j] \in Nat BY <1>1, <3>1
      <4> QED BY <3>1, <4>2, <4>3
    <3>3. CASE ~SweepDue
      BY <1>1, <3>1, <3>3 DEF Survivors, SweepDue, LimiterInv, SweptByThen
    <3> QED BY <3>2, <3>3
  <2> QED BY <2>1, <2>2
<1>2. TypeOK /\ LimiterInv =>
        [\A k \in Keys : Allow(k) => \A j \in entries' : now - lastSeen'[j] < 2 * IdleTTL]_vars
  BY <1>1
<1> QED BY <1>2, TypeCorrect, LimiterSafe, PTL DEF Spec, IdleIsForgotten

-----------------------------------------------------------------------------
(* The refinement.                                                         *)

\* An entry that may be swept has a full bucket: this is where the idle time
\* must be long enough.
LEMMA IdleIsFull ==
  ASSUME TypeOK, LimiterInv, NEW k \in entries, now - lastSeen[k] > IdleTTL
  PROVE  Level(k) = Burst
<1> USE ParametersAssumption DEF ParametersAssumption
<1> DEFINE idle == now - filled[k]
<1>1. k \in Keys /\ idle \in Nat /\ idle >= IdleTTL
  BY DEF TypeOK, LimiterInv, RefilledByUse
<1>2. \A m, n, r \in Nat : m >= n => m * r >= n * r
  OBVIOUS
<1>3. idle * Rate >= IdleTTL * Rate BY <1>1, <1>2
<1>4. tokens[k] + idle * Rate >= Burst
  <2>1. idle * Rate \in Nat /\ IdleTTL * Rate \in Nat BY <1>1
  <2>2. tokens[k] \in Nat BY <1>1 DEF TypeOK
  <2> HIDE DEF idle
  <2> QED BY <1>3, <2>1, <2>2, RefillAssumption DEF RefillAssumption
<1> QED BY <1>1, <1>4 DEF Level, Least, TypeOK

\* The passing of time is the filling of the ideal buckets.
LEMMA TickFills ==
  ASSUME TypeOK, Tick
  PROVE  Bucket!Fill
<1> USE ParametersAssumption DEF ParametersAssumption
<1>1. UNCHANGED <<entries, tokens, filled, verdict>> /\ now' = now + 1
  BY DEF Tick
<1>2. ASSUME NEW k \in Keys PROVE Level(k)' = Least(Burst, Level(k) + Rate)
  <2> DEFINE idle == now - filled[k]
  <2>1. idle \in Nat /\ tokens[k] \in Nat BY DEF TypeOK
  <2>2. (now' - filled'[k]) = idle + 1
    <3>1. now \in Nat /\ filled[k] \in Nat BY DEF TypeOK
    <3> QED BY <1>1, <3>1
  <2>3. (idle + 1) * Rate = idle * Rate + Rate /\ idle * Rate \in Nat BY <2>1
  <2>4. Level(k)' = Least(Burst, tokens[k] + (idle * Rate + Rate))
    BY <1>1, <2>2, <2>3 DEF Level, Least
  <2>5. Level(k) = Least(Burst, tokens[k] + idle * Rate) BY DEF Level, Least
  <2> HIDE DEF idle
  <2> QED BY <2>1, <2>3, <2>4, <2>5 DEF Least
<1>3. Least(Burst, Burst + Rate) = Burst BY DEF Least
<1>4. levelOf' = [k \in Keys |-> Least(Burst, levelOf[k] + Rate)]
  BY <1>1, <1>2, <1>3 DEF levelOf
<1> QED BY <1>1, <1>4 DEF Bucket!Fill, Bucket!Least, Least

\* The level Allow works with is the bucket's, swept or not.
LEMMA AllowDecides ==
  ASSUME TypeOK, LimiterInv, NEW k \in Keys, Allow(k)
  PROVE  Bucket!Decide(k)
<1> USE ParametersAssumption DEF ParametersAssumption
<1> DEFINE level == IF k \in Survivors THEN Level(k) ELSE Burst
<1>1. \A j \in entries \ Survivors : Level(j) = Burst
  <2>1. \A j \in entries : now \in Int /\ lastSeen[j] \in Int BY DEF TypeOK
  <2> QED BY <2>1, IdleIsFull DEF Survivors
<1>2. level = levelOf[k] /\ level \in 0..Burst
  BY <1>1, LevelRange DEF levelOf, Survivors
<1>3. now' = now /\ entries' = Survivors \cup {k} BY DEF Allow
<1>4. ASSUME NEW j \in Keys, j # k PROVE levelOf'[j] = levelOf[j]
  <2>1. tokens'[j] = tokens[j] /\ filled'[j] = filled[j] BY <1>4 DEF Allow, TypeOK
  <2>2. Level(j)' = Level(j) BY <1>3, <2>1 DEF Level, Least
  <2> QED BY <1>1, <1>3, <1>4, <2>2 DEF levelOf, Survivors
<1>5. levelOf'[k] = Level(k)' BY <1>3 DEF levelOf
<1>6. CASE level >= Cost
  <2>1. tokens'[k] = level - Cost /\ filled'[k] = now BY <1>6 DEF Allow, TypeOK
  <2>2. Level(k)' = level - Cost BY <1>2, <1>3, <1>6, <2>1 DEF Level, Least, TypeOK
  <2>3. levelOf' = [levelOf EXCEPT ![k] = level - Cost] BY <1>4, <1>5, <2>2 DEF levelOf
  <2>4. verdict' = <<k, TRUE>> BY <1>6 DEF Allow
  <2> HIDE DEF level
  <2> QED BY <1>2, <1>6, <2>3, <2>4 DEF Bucket!Decide
<1>7. CASE ~(level >= Cost)
  <2>1. Level(k)' = level
    <3>1. CASE k \in Survivors BY <1>3, <1>7, <3>1 DEF Allow, Level, Least, TypeOK
    <3>2. CASE k \notin Survivors BY <1>3, <1>7, <3>2 DEF Allow, Level, Least, TypeOK
    <3> QED BY <3>1, <3>2
  <2>2. levelOf' = levelOf BY <1>2, <1>4, <1>5, <2>1 DEF levelOf
  <2>3. verdict' = <<k, FALSE>> BY <1>7 DEF Allow
  <2>4. level < Cost BY <1>2, <1>7
  <2> HIDE DEF level
  <2> QED BY <1>2, <2>2, <2>3, <2>4 DEF Bucket!Decide
<1> QED BY <1>6, <1>7

\* Whatever keys come when, sweeping idle entries is unobservable: each key
\* has a token bucket of its own.
THEOREM LimiterIsTokenBucket == Spec => IsTokenBucket
<1>1. Init => Bucket!Init BY DEF Init, Bucket!Init, levelOf
<1>2. TypeOK /\ LimiterInv /\ [Next]_vars => [Bucket!Next]_<<levelOf, verdict>>
  <2>1. ASSUME UNCHANGED vars PROVE UNCHANGED <<levelOf, verdict>>
    BY <2>1 DEF vars, levelOf, Level, Least
  <2> QED BY <2>1, TickFills, AllowDecides DEF Next, Bucket!Next
<1> QED BY <1>1, <1>2, TypeCorrect, LimiterSafe, PTL DEF Spec, IsTokenBucket, Bucket!Spec
=============================================================================
