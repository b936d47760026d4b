---------------------------- MODULE AgentsProofs ----------------------------
(***************************************************************************)
(* Proofs about Store.Migrate and the agents, for any number of processes, *)
(* migrations, agents, connections and failures.  Who applies a migration  *)
(* finds the database exactly at the one before, because only the holder   *)
(* of the advisory lock is in Migrate (Excluded), because what was applied *)
(* has no gap (NoGap), and because of what each process has seen (Seen).   *)
(***************************************************************************)
EXTENDS Agents, TLAPS

\* Nobody but the holder of the lock is in Migrate.
Excluded == \A p \in Procs : at[p] \in Migrating => lock = p

NoGap == \A f \in applied : \A g \in 1..f : g \in applied

\* What the loop of Migrate has passed is applied, and nothing can undo it.
Seen ==
  \A p \in Procs :
    /\ at[p] \in {"open", "lock"} => file[p] = 1
    /\ at[p] \in {"check", "apply"} =>
         /\ file[p] <= has[p] + 1
         /\ \A g \in 1..(file[p] - 1) : g \in applied
    /\ at[p] = "apply" => file[p] <= has[p] /\ file[p] \notin applied
    /\ at[p] \in Migrated \cup {"unlock"} => \A g \in 1..has[p] : g \in applied

MigrateInv == ProcTypeOK /\ Excluded /\ NoGap /\ Seen

\* An empty database has a gapless prefix of the migrations: none.
LEMMA InitMigrateInv == ProcInit => MigrateInv
BY ProcAssumption DEF ProcAssumption, ProcInit, MigrateInv, ProcTypeOK, Excluded,
   NoGap, Seen, Stages, Migrating, Migrated

\* Migrate keeps it: only its holder applies, one after the other.
LEMMA MigrateKeepsInv ==
  ASSUME MigrateInv, NEW p \in Procs, Migrate(p)
  PROVE  MigrateInv'
<1> USE ProcAssumption DEF ProcAssumption, MigrateInv, ProcTypeOK, Excluded, NoGap,
      Seen, Stages, Migrating, Migrated, Stage, Failure, Trouble
<1>1. CASE Open(p) BY <1>1 DEF Open
<1>2. CASE Lock(p) BY <1>2 DEF Lock
<1>3. CASE LockFails(p) BY <1>3 DEF LockFails
<1>4. CASE Check(p) BY <1>4 DEF Check
<1>5. CASE Apply(p)
  <2>1. file[p] \in 1..Files /\ \A g \in 1..(file[p] - 1) : g \in applied
    BY <1>5 DEF Apply
  <2>2. applied' \in {applied, applied \cup {file[p]}} BY <1>5 DEF Apply
  <2>3. NoGap' BY <2>1, <2>2
  <2>4. applied' \in SUBSET (1..Files) BY <2>1, <2>2
  <2>5. ProcTypeOK' BY <1>5, <2>1, <2>4 DEF Apply
  <2>6. Excluded' BY <1>5 DEF Apply
  <2>7. ASSUME NEW q \in Procs, q # p PROVE at'[q] = at[q] /\ at[q] # "apply"
    BY <1>5, <2>7 DEF Apply
  <2>8. Seen' BY <1>5, <2>7 DEF Apply
  <2> QED BY <2>3, <2>5, <2>6, <2>8
<1>6. CASE Unlock(p) BY <1>6 DEF Unlock
<1> QED BY <1>1, <1>2, <1>3, <1>4, <1>5, <1>6 DEF Migrate

\* Every step of a process keeps it, the end of a process included.
LEMMA StepKeepsInv == MigrateInv /\ [ProcNext]_procVars => MigrateInv'
<1> SUFFICES ASSUME MigrateInv, [ProcNext]_procVars PROVE MigrateInv'
  OBVIOUS
<1>1. ASSUME NEW p \in Procs, ProcStep(p) PROVE MigrateInv'
  <2>1. CASE Migrate(p) BY <2>1, MigrateKeepsInv
  <2> USE ProcAssumption DEF ProcAssumption, MigrateInv, ProcTypeOK, Excluded, NoGap,
        Seen, Stages, Migrating, Migrated, Stage, Failure, Trouble
  <2>2. CASE Start(p) BY <2>2 DEF Start
  <2>3. CASE Ping(p) BY <2>3 DEF Ping
  <2>4. CASE Select(p) BY <2>4 DEF Select
  <2>5. CASE Finish(p) BY <2>5 DEF Finish
  <2>6. CASE ListenerFails(p) BY <2>6 DEF ListenerFails
  <2>7. CASE Signal(p) BY <2>7 DEF Signal
  <2>8. CASE Crash(p) BY <2>8 DEF Crash
  <2> QED BY <1>1, <2>1, <2>2, <2>3, <2>4, <2>5, <2>6, <2>7, <2>8 DEF ProcStep, RunServe
<1>2. CASE UNCHANGED procVars
  BY <1>2 DEF procVars, MigrateInv, ProcTypeOK, Excluded, NoGap, Seen
<1> QED BY <1>1, <1>2 DEF ProcNext

\* Where a loop is says what was applied.
LEMMA InvImpliesMigratesOnce == MigrateInv => MigratesOnce
<1> SUFFICES ASSUME MigrateInv, NEW p \in Procs
             PROVE  /\ at[p] = "apply" => applied = 1..(file[p] - 1)
                    /\ at[p] \in Migrated => 1..has[p] \subseteq applied
  BY DEF MigratesOnce
<1> USE DEF MigrateInv, ProcTypeOK, NoGap, Seen
<1>1. ASSUME at[p] = "apply" PROVE applied = 1..(file[p] - 1)
  <2>1. \A g \in 1..(file[p] - 1) : g \in applied BY <1>1
  <2>2. ASSUME NEW f \in applied PROVE f \in 1..(file[p] - 1)
    <3>1. f \in Nat /\ f >= 1 /\ file[p] \in Nat /\ file[p] >= 1
      BY ProcAssumption DEF ProcAssumption
    <3>2. file[p] \notin 1..f BY <1>1
    <3> QED BY <3>1, <3>2
  <2> QED BY <2>1, <2>2
<1>2. at[p] \in Migrated => 1..has[p] \subseteq applied
  OBVIOUS
<1> QED BY <1>1, <1>2

\* The values of a server process keep their types.
THEOREM ProcTypeCorrect == ProcSpec => []ProcTypeOK
<1>1. MigrateInv => ProcTypeOK BY DEF MigrateInv
<1> QED BY <1>1, InitMigrateInv, StepKeepsInv, PTL DEF ProcSpec

\* Processes of any versions that start together, are signalled or killed at
\* any place and restart apply each migration once and in order, and serve only
\* with the schema they were built for (Store.Migrate).
THEOREM MigrationsApplyOnce == ProcSpec => []MigratesOnce
BY InitMigrateInv, StepKeepsInv, InvImpliesMigratesOnce, PTL DEF ProcSpec

-----------------------------------------------------------------------------
(* The agents beside the processes.                                        *)

\* No step of an agent or of a connection's handler touches a process.
LEMMA AgentsKeepProcInv == MigrateInv /\ [AgentsNext]_allVars => MigrateInv'
<1> SUFFICES ASSUME MigrateInv, [AgentsNext]_allVars PROVE MigrateInv'
  OBVIOUS
<1>1. ASSUME NEW p \in Procs, ProcStep(p) PROVE MigrateInv'
  BY <1>1, StepKeepsInv DEF ProcNext
<1>2. ASSUME UNCHANGED <<at, has, file, applied, lock, signalled>>,
             Trouble \/ UNCHANGED troubles
      PROVE  MigrateInv'
  BY <1>2, ProcAssumption DEF ProcAssumption, Trouble, MigrateInv, ProcTypeOK, Excluded,
     NoGap, Seen
<1>3. ASSUME NEW a \in AgentIds, Run(a) \/ Cancel(a) PROVE MigrateInv'
  BY <1>2, <1>3 DEF Run, Cancel, Return, Dial, DialFails, Connect, ShakeFails, SessionEnds,
     Retry, procVars
<1>4. ASSUME NEW c \in Conns, Handle(c) \/ Break(c) \/ Notice(c) PROVE MigrateInv'
  BY <1>2, <1>4 DEF Handle, Break, Notice, Welcome, Refuse, Put, Depart, procVars, Failure
<1>5. CASE UNCHANGED allVars BY <1>2, <1>5 DEF allVars, procVars
<1> QED BY <1>1, <1>3, <1>4, <1>5 DEF AgentsNext

\* Agents that come, go and reconnect disturb no migration of their server.
THEOREM MigrationsApplyOnceBesideAgents == AgentsSpec => []MigratesOnce
<1>1. AgentsInit => MigrateInv BY InitMigrateInv DEF AgentsInit
<1> QED BY <1>1, AgentsKeepProcInv, InvImpliesMigratesOnce, PTL DEF AgentsSpec

\* An agent's loop keeps the types (Run in agent.go); doubling the backoff
\* keeps its bounds.
LEMMA AgentStepKeepsType ==
  ASSUME AgentsTypeOK, MigrateInv', NEW a \in AgentIds, Run(a) \/ Cancel(a)
  PROVE  AgentsTypeOK'
<1> USE AgentAssumption DEF AgentAssumption, AgentsTypeOK, MigrateInv, Move, Leave
<1>1. CASE Return(a) BY <1>1 DEF Return, connVars
<1>2. CASE Dial(a)
  <2>1. place' \in [AgentIds -> {"dial", "shake", "serve", "pause", "returned"}]
    BY <1>2 DEF Dial
  <2>2. PICK c \in Conns : /\ link' = [link EXCEPT ![a] = c]
                           /\ up' = [up EXCEPT ![c] = TRUE]
                           /\ open' = [open EXCEPT ![c] = TRUE]
                           /\ handler' = [handler EXCEPT ![c] = "hello"]
                           /\ welcomed' = [welcomed EXCEPT ![c] = FALSE]
    BY <1>2 DEF Dial, Free
  <2>3. /\ link' \in [AgentIds -> Conns \cup {None}]
        /\ handler' \in [Conns -> {"idle", "hello", "put", "serve"}]
    BY <2>2
  <2>4. /\ up' \in [Conns -> BOOLEAN] /\ open' \in [Conns -> BOOLEAN]
        /\ welcomed' \in [Conns -> BOOLEAN]
    BY <2>2
  <2>5. UNCHANGED <<backoff, cancelled, registry>> BY <1>2 DEF Dial
  <2> QED BY <2>1, <2>3, <2>4, <2>5
<1>3. CASE DialFails(a) BY <1>3 DEF DialFails, connVars
<1>4. CASE Connect(a) BY <1>4 DEF Connect, connVars
<1>5. CASE ShakeFails(a) BY <1>5 DEF ShakeFails
<1>6. CASE SessionEnds(a)
  <2>1. /\ place' \in [AgentIds -> {"dial", "shake", "serve", "pause", "returned"}]
        /\ link' \in [AgentIds -> Conns \cup {None}]
        /\ backoff' \in [AgentIds -> MinBackoff..MaxBackoff]
    BY <1>6 DEF SessionEnds
  <2>2. up' \in [Conns -> BOOLEAN] /\ welcomed' \in [Conns -> BOOLEAN]
    BY <1>6 DEF SessionEnds
  <2>3. UNCHANGED <<cancelled, open, handler, registry>> BY <1>6 DEF SessionEnds
  <2> QED BY <2>1, <2>2, <2>3
<1>7. CASE Retry(a) BY <1>7 DEF Retry, connVars
<1>8. CASE Cancel(a) BY <1>8 DEF Cancel, connVars
<1> QED BY <1>1, <1>2, <1>3, <1>4, <1>5, <1>6, <1>7, <1>8 DEF Run

\* So does a connection's handler, and a connection that breaks.
LEMMA ConnStepKeepsType ==
  ASSUME AgentsTypeOK, MigrateInv', NEW c \in Conns, Handle(c) \/ Break(c) \/ Notice(c)
  PROVE  AgentsTypeOK'
<1> USE AgentAssumption DEF AgentAssumption, AgentsTypeOK, MigrateInv, agentVars
<1>1. CASE Welcome(c) BY <1>1 DEF Welcome
<1>2. CASE Refuse(c) BY <1>2 DEF Refuse
<1>3. CASE Put(c) BY <1>3 DEF Put
<1>4. CASE Depart(c) BY <1>4 DEF Depart
<1>5. CASE Break(c) BY <1>5 DEF Break
<1>6. CASE Notice(c) BY <1>6 DEF Notice
<1> QED BY <1>1, <1>2, <1>3, <1>4, <1>5, <1>6 DEF Handle

\* The values of the agents, their connections and the processes keep their
\* types; above all, the doubled backoff stays within its bounds (agent.Run).
THEOREM AgentsTypeCorrect == AgentsSpec => []AgentsTypeOK
<1>1. AgentsInit => AgentsTypeOK /\ MigrateInv
  BY InitMigrateInv, AgentAssumption DEF AgentsInit, AgentsTypeOK, AgentAssumption, MigrateInv
<1>2. AgentsTypeOK /\ MigrateInv /\ [AgentsNext]_allVars => AgentsTypeOK' /\ MigrateInv'
  <2> SUFFICES ASSUME AgentsTypeOK, MigrateInv, [AgentsNext]_allVars
               PROVE  AgentsTypeOK' /\ MigrateInv'
    OBVIOUS
  <2>1. MigrateInv' BY AgentsKeepProcInv
  <2>2. ASSUME NEW a \in AgentIds, Run(a) \/ Cancel(a) PROVE AgentsTypeOK'
    BY <2>1, <2>2, AgentStepKeepsType
  <2>3. ASSUME NEW c \in Conns, Handle(c) \/ Break(c) \/ Notice(c) PROVE AgentsTypeOK'
    BY <2>1, <2>3, ConnStepKeepsType
  <2> USE <2>1, AgentAssumption DEF AgentAssumption, AgentsTypeOK, MigrateInv
  <2>4. ASSUME NEW p \in Procs, ProcStep(p), Sessions(p) PROVE AgentsTypeOK'
    <3>1. UNCHANGED <<place, link, backoff, cancelled, up, welcomed>>
      BY <2>4 DEF Sessions, agentVars
    <3>2. CASE UNCHANGED <<open, handler, registry>> BY <3>1, <3>2
    <3>3. CASE /\ open' = [c \in Conns |-> FALSE]
               /\ handler' = [c \in Conns |-> "idle"]
               /\ registry' = None
      BY <3>1, <3>3
    <3> QED BY <2>4, <3>2, <3>3 DEF Sessions
  <2>5. CASE UNCHANGED allVars BY <2>5 DEF allVars, agentVars, connVars
  <2> QED BY <2>2, <2>3, <2>4, <2>5 DEF AgentsNext
<1> QED BY <1>1, <1>2, PTL DEF AgentsSpec
=============================================================================
