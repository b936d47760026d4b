--------------------------- MODULE ServerProcess ---------------------------
(***************************************************************************)
(* The life of a liveurld process: runServe up to the end of its grace     *)
(* period, with Store.Migrate under the session-scoped advisory lock.      *)
(* Processes of several versions share one database; a newer version       *)
(* embeds the migrations of the older ones and more.                       *)
(*                                                                         *)
(* What goes wrong from outside (a failing call, a signal, a crash) is     *)
(* drawn from a budget, so that "eventually" can be said of a system that  *)
(* is left alone at last.                                                  *)
(***************************************************************************)
EXTENDS Integers

CONSTANTS
  Procs,       \* liveurld processes of one database
  Files,       \* number of migration files, numbered in lexical order
  MaxTroubles, \* bound on what goes wrong
  None         \* no process

ASSUME ProcAssumption ==
  None \notin Procs /\ Files \in Nat /\ MaxTroubles \in Nat

VARIABLES
  at,        \* where runServe of each process is
  has,       \* how many migrations its binary embeds
  file,      \* the migration that Migrate looks at
  applied,   \* schema_migrations
  lock,      \* who holds the advisory lock
  signalled, \* the signal context of each process is cancelled
  troubles   \* what may still go wrong

procVars == <<at, has, file, applied, lock, signalled, troubles>>

\* Migrate holds its connection, and the lock with it, in these places.
Migrating == {"check", "apply", "unlock", "giveup"}
Migrated == {"ping", "listen", "serve", "grace"}
Stages == {"off", "open", "lock"} \cup Migrating \cup Migrated

ProcTypeOK ==
  /\ at \in [Procs -> Stages]
  /\ has \in [Procs -> 0..Files]
  /\ file \in [Procs -> 1..(Files + 1)]
  /\ applied \in SUBSET (1..Files)
  /\ lock \in Procs \cup {None}
  /\ signalled \in [Procs -> BOOLEAN]
  /\ troubles \in 0..MaxTroubles

\* The database is new; a binary embeds at least the first migration.
ProcInit ==
  /\ at = [p \in Procs |-> "off"]
  /\ has \in [Procs -> 0..Files]
  /\ \A p \in Procs : Files > 0 => has[p] > 0
  /\ file = [p \in Procs |-> 1]
  /\ applied = {}
  /\ lock = None
  /\ signalled = [p \in Procs |-> FALSE]
  /\ troubles = MaxTroubles

Stage(p, from, to) == at[p] = from /\ at' = [at EXCEPT ![p] = to]

Trouble == troubles > 0 /\ troubles' = troubles - 1

\* A call fails; with a cancelled context it needs no other reason.
Failure(p) == Trouble \/ (signalled[p] /\ UNCHANGED troubles)

-----------------------------------------------------------------------------
(* Starting, and Store.Migrate.                                            *)

Start(p) ==
  /\ Stage(p, "off", "open")
  /\ file' = [file EXCEPT ![p] = 1]
  /\ signalled' = [signalled EXCEPT ![p] = FALSE]
  /\ UNCHANGED <<has, applied, lock, troubles>>

\* store.Open, pg_advisory_lock and presence.Ping: an error ends runServe, whose
\* deferred calls close what was opened.
Open(p) ==
  /\ \/ Stage(p, "open", "lock") /\ UNCHANGED troubles
     \/ Stage(p, "open", "off") /\ Failure(p)
  /\ UNCHANGED <<has, file, applied, lock, signalled>>

\* Mutant: pg_try_advisory_lock, with its answer ignored.
TryLock(p) ==
  /\ Stage(p, "lock", "check")
  /\ lock' = IF lock = None THEN p ELSE lock
  /\ UNCHANGED <<has, file, applied, signalled, troubles>>

\* pg_advisory_lock waits until no other session holds the lock.
Lock(p) ==
  /\ lock = None
  /\ Stage(p, "lock", "check")
  /\ lock' = p
  /\ UNCHANGED <<has, file, applied, signalled, troubles>>

LockFails(p) ==
  /\ Stage(p, "lock", "off") /\ Failure(p)
  /\ UNCHANGED <<has, file, applied, lock, signalled>>

\* The loop over the sorted file names: SELECT EXISTS, then skip or apply.  It
\* or the CREATE TABLE IF NOT EXISTS before it may fail.
Check(p) ==
  /\ \/ /\ file[p] > has[p] /\ UNCHANGED <<file, troubles>>
        /\ Stage(p, "check", "unlock")
     \/ /\ file[p] \in applied /\ file[p] <= has[p] /\ UNCHANGED troubles
        /\ Stage(p, "check", "check")
        /\ file' = [file EXCEPT ![p] = @ + 1]
     \/ /\ file[p] \notin applied /\ file[p] <= has[p] /\ UNCHANGED <<file, troubles>>
        /\ Stage(p, "check", "apply")
     \/ /\ Failure(p) /\ UNCHANGED file
        /\ Stage(p, "check", "giveup")
  /\ UNCHANGED <<has, applied, lock, signalled>>

\* The transaction of one migration, whose row schema_migrations refuses twice.
\* A COMMIT whose caller learns of a failure may have been done.
Apply(p) ==
  /\ \/ /\ file[p] \notin applied /\ UNCHANGED troubles
        /\ Stage(p, "apply", "check")
        /\ applied' = applied \cup {file[p]}
        /\ file' = [file EXCEPT ![p] = @ + 1]
     \/ /\ Failure(p) \/ (file[p] \in applied /\ UNCHANGED troubles)
        /\ Stage(p, "apply", "giveup")
        /\ applied' \in {applied, applied \cup {file[p]}}
        /\ UNCHANGED file
  /\ UNCHANGED <<has, lock, signalled>>

\* The deferred pg_advisory_unlock and Release; if the unlock fails the
\* connection is gone, and the lock with it.  GiveUp returns Migrate's error.
Unlock(p) ==
  /\ Stage(p, "unlock", "ping") \/ Stage(p, "giveup", "off")
  /\ lock' = IF lock = p THEN None ELSE lock
  /\ UNCHANGED <<has, file, applied, signalled, troubles>>

-----------------------------------------------------------------------------
(* Serving, and the end.                                                   *)

Ping(p) ==
  /\ \/ Stage(p, "ping", "listen") /\ UNCHANGED troubles
     \/ Stage(p, "ping", "off") /\ Failure(p)
  /\ UNCHANGED <<has, file, applied, lock, signalled>>

\* The listeners' goroutines run, and runServe reaches its select.  If the
\* signal came before, the tunnel listener's nil may be in errc already: the
\* select takes either, and one of them skips the grace period.
Select(p) ==
  /\ \/ ~signalled[p] /\ Stage(p, "listen", "serve")
     \/ signalled[p] /\ Stage(p, "listen", "grace")
     \/ signalled[p] /\ Stage(p, "listen", "off")
  /\ UNCHANGED <<has, file, applied, lock, signalled, troubles>>

\* A listener fails and runServe returns its error.
ListenerFails(p) ==
  /\ Stage(p, "listen", "off") \/ Stage(p, "serve", "off")
  /\ Trouble
  /\ UNCHANGED <<has, file, applied, lock, signalled>>

\* SIGTERM.  A select that is waiting already takes ctx.Done.
Signal(p) ==
  /\ at[p] # "off" /\ ~signalled[p] /\ Trouble
  /\ signalled' = [signalled EXCEPT ![p] = TRUE]
  /\ at' = [at EXCEPT ![p] = IF @ = "serve" THEN "grace" ELSE @]
  /\ UNCHANGED <<has, file, applied, lock>>

\* Shutdown of both HTTP servers within shutdownTimeout, then the deferred Close.
Finish(p) ==
  /\ Stage(p, "grace", "off")
  /\ UNCHANGED <<has, file, applied, lock, signalled, troubles>>

\* The process is killed; PostgreSQL ends its session and frees its lock.
Crash(p) ==
  /\ at[p] # "off" /\ Trouble
  /\ at' = [at EXCEPT ![p] = "off"]
  /\ lock' = IF lock = p THEN None ELSE lock
  /\ UNCHANGED <<has, file, applied, signalled>>

Migrate(p) ==
  \/ Open(p) \/ Lock(p) \/ LockFails(p) \/ Check(p) \/ Apply(p) \/ Unlock(p)

RunServe(p) == Migrate(p) \/ Ping(p) \/ Select(p) \/ Finish(p)

ProcStep(p) == Start(p) \/ RunServe(p) \/ ListenerFails(p) \/ Signal(p) \/ Crash(p)

ProcNext == \E p \in Procs : ProcStep(p)

ProcSpec == ProcInit /\ [][ProcNext]_procVars

-----------------------------------------------------------------------------
(* Properties.                                                             *)

\* Migrations are applied once and in order, whichever versions start together
\* and wherever one of them is cut off: who is about to apply a migration has
\* the database exactly at the one before it, so no process fails because of
\* another's ("both see a migration as not yet applied and race to INSERT",
\* store.go:38-42); and who serves has the schema it was built for.
MigratesOnce ==
  \A p \in Procs :
    /\ at[p] = "apply" => applied = 1..(file[p] - 1)
    /\ at[p] \in Migrated => 1..has[p] \subseteq applied
=============================================================================
