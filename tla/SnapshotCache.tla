--------------------------- MODULE SnapshotCache ---------------------------
(***************************************************************************)
(* The snapshot cache of one tunnel: each live GET whose answer is         *)
(* cacheable runs PutSnapshot, a READ COMMITTED transaction that stores    *)
(* the page and evicts the oldest ones until the sum fits under the cap.   *)
(* Transactions of different requests overlap: each sees what is committed *)
(* when its statement starts and its own writes, and waits for the row     *)
(* locks of the others.                                                    *)
(*                                                                         *)
(* captured_at is now(), which is the start of the transaction; no two     *)
(* transactions start at the same instant.  A put is used once.            *)
(***************************************************************************)
EXTENDS Integers, FiniteSets, FiniteSetsExt

CONSTANTS
  Puts,       \* calls of PutSnapshot
  Pages,      \* (path, query_hash) keys of the tunnel
  None,       \* no page
  Sizes,      \* lengths of captured bodies, none above MaxTeeBody
  MaxSnapshotBytes,
  Faults      \* whether a statement or its deadline may end a put

ASSUME SizeAssumption == /\ MaxSnapshotBytes \in Nat
                         /\ Sizes \subseteq 0..MaxSnapshotBytes
                         /\ Faults \in BOOLEAN
ASSUME PageAssumption == None \notin Pages /\ IsFiniteSet(Pages)

VARIABLES
  rows,       \* the committed rows: page -> when captured, length of body
  clock,      \* start of the youngest transaction
  pc,         \* where each put is
  page, new,  \* the page a put captured, and its row
  wrote,      \* has the put written that row, uncommitted as yet
  gone,       \* the pages it has deleted, uncommitted as yet
  total,      \* its variable total
  victim,     \* the row its running DELETE has chosen
  quiet       \* history: no other put has committed since it took the sum

vars == <<rows, clock, pc, page, new, wrote, gone, total, victim, quiet>>

Row == [at : Nat, size : Sizes]
NoRow == [at |-> 0, size |-> 0]
NoVictim == [page |-> None, at |-> 0]
Places == {"idle", "upsert", "sum", "evict", "delete", "commit", "done"}

Bytes(t) == MapThenSumSet(LAMBDA p : t[p].size, DOMAIN t)

TypeOK ==
  /\ DOMAIN rows \subseteq Pages
  /\ \A p \in DOMAIN rows : rows[p] \in Row /\ rows[p].at \in 1..clock
  /\ clock \in Nat
  /\ pc \in [Puts -> Places]
  /\ page \in [Puts -> Pages \cup {None}]
  /\ new \in [Puts -> Row \cup {NoRow}]
  /\ wrote \in [Puts -> BOOLEAN]
  /\ gone \in [Puts -> SUBSET Pages]
  /\ total \in [Puts -> Nat]
  /\ victim \in [Puts -> [page : Pages \cup {None}, at : Nat]]
  /\ quiet \in [Puts -> BOOLEAN]

\* Any cache that earlier puts may have left, overlapping ones above the cap.
Init ==
  /\ \E S \in SUBSET Pages : rows \in [S -> [at : 1..Cardinality(S), size : Sizes]]
  /\ \A p, q \in DOMAIN rows : rows[p].at = rows[q].at => p = q
  /\ clock = Cardinality(DOMAIN rows)
  /\ pc = [t \in Puts |-> "idle"]
  /\ page = [t \in Puts |-> None]
  /\ new = [t \in Puts |-> NoRow]
  /\ wrote = [t \in Puts |-> FALSE]
  /\ gone = [t \in Puts |-> {}]
  /\ total = [t \in Puts |-> 0]
  /\ victim = [t \in Puts |-> NoVictim]
  /\ quiet = [t \in Puts |-> FALSE]

Goto(t, from, to) == pc[t] = from /\ pc' = [pc EXCEPT ![t] = to]

-----------------------------------------------------------------------------
(* What a transaction sees, and what it waits for.                         *)

Own(t) == IF wrote[t] THEN {page[t]} ELSE {}

View(t) == [p \in (DOMAIN rows \cup Own(t)) \ gone[t] |->
              IF p \in Own(t) THEN new[t] ELSE rows[p]]

\* The puts that hold the lock of the row of p.
Holders(p) == {u \in Puts : p \in Own(u) \cup gone[u]}

\* The puts a put waits for: its next statement needs a row they hold.
WaitsFor(t) ==
  (CASE pc[t] = "upsert" -> Holders(page[t])
     [] pc[t] = "delete" -> Holders(victim[t].page)
     [] OTHER            -> {}) \ {t}

\* The puts on cycles of waiting: PostgreSQL's deadlock detector ends one.
Deadlocked(t) ==
  \E S \in SUBSET Puts :
    /\ t \in S
    /\ \A u \in S : /\ WaitsFor(u) \cap S # {}
                    /\ \E v \in S : u \in WaitsFor(v)

-----------------------------------------------------------------------------
(* PutSnapshot, statement by statement.                                    *)

\* forwardLive has copied a cacheable answer that was not over the limit, and
\* storeSnapshot begins the transaction.
Begin(t, p, n) ==
  /\ Goto(t, "idle", "upsert")
  /\ clock' = clock + 1
  /\ page' = [page EXCEPT ![t] = p]
  /\ new' = [new EXCEPT ![t] = [at |-> clock', size |-> n]]
  /\ UNCHANGED <<rows, wrote, gone, total, victim, quiet>>

\* INSERT ... ON CONFLICT DO UPDATE.
Upsert(t) ==
  /\ WaitsFor(t) = {}
  /\ Goto(t, "upsert", "sum")
  /\ wrote' = [wrote EXCEPT ![t] = TRUE]
  /\ UNCHANGED <<rows, clock, page, new, gone, total, victim, quiet>>

\* Mutant: the sum is taken of the other pages only.
SumOthers(t) ==
  /\ Goto(t, "sum", "evict")
  /\ total' = [total EXCEPT ![t] = Bytes(View(t)) - new[t].size]
  /\ quiet' = [quiet EXCEPT ![t] = TRUE]
  /\ UNCHANGED <<rows, clock, page, new, wrote, gone, victim>>

\* SELECT SUM(octet_length(body)).
Sum(t) ==
  /\ Goto(t, "sum", "evict")
  /\ total' = [total EXCEPT ![t] = Bytes(View(t))]
  /\ quiet' = [quiet EXCEPT ![t] = TRUE]
  /\ UNCHANGED <<rows, clock, page, new, wrote, gone, victim>>

\* Mutant: LIMIT 1 without ORDER BY captured_at.
PickAny(t) ==
  /\ total[t] > MaxSnapshotBytes
  /\ \E p \in DOMAIN View(t) :
       /\ victim' = [victim EXCEPT ![t] = [page |-> p, at |-> View(t)[p].at]]
       /\ Goto(t, "evict", "delete")
  /\ UNCHANGED <<rows, clock, page, new, wrote, gone, total, quiet>>

\* The DELETE starts: its subquery picks the oldest row it sees.
Pick(t) ==
  /\ total[t] > MaxSnapshotBytes
  /\ \E p \in DOMAIN View(t) :
       /\ \A q \in DOMAIN View(t) : View(t)[p].at <= View(t)[q].at
       /\ victim' = [victim EXCEPT ![t] = [page |-> p, at |-> View(t)[p].at]]
       /\ Goto(t, "evict", "delete")
  /\ UNCHANGED <<rows, clock, page, new, wrote, gone, total, quiet>>

\* The loop ends: the rest fits, or there is no row left to delete.
Fits(t) ==
  /\ total[t] <= MaxSnapshotBytes \/ DOMAIN View(t) = {}
  /\ Goto(t, "evict", "commit")
  /\ UNCHANGED <<rows, clock, page, new, wrote, gone, total, victim, quiet>>

Chosen(t) == victim[t].page

\* The row is deleted as it is now, and its length comes back.
Delete(t) ==
  /\ WaitsFor(t) = {}
  /\ Chosen(t) \in DOMAIN View(t)
  /\ Goto(t, "delete", "evict")
  /\ gone' = [gone EXCEPT ![t] = @ \cup {Chosen(t)}]
  /\ total' = [total EXCEPT ![t] = @ - View(t)[Chosen(t)].size]
  /\ victim' = [victim EXCEPT ![t] = NoVictim]
  /\ UNCHANGED <<rows, clock, page, new, wrote, quiet>>

\* ErrNoRows: another put has deleted the row, or has updated it, in which
\* case PostgreSQL's recheck of the condition may pass (Delete) or fail.
DeleteNothing(t) ==
  /\ WaitsFor(t) = {}
  /\ Chosen(t) \in DOMAIN View(t) => View(t)[Chosen(t)].at # victim[t].at
  /\ Goto(t, "delete", "commit")
  /\ victim' = [victim EXCEPT ![t] = NoVictim]
  /\ UNCHANGED <<rows, clock, page, new, wrote, gone, total, quiet>>

\* The put returns: its local variables are gone.
Return(t) ==
  /\ page' = [page EXCEPT ![t] = None]
  /\ new' = [new EXCEPT ![t] = NoRow]
  /\ total' = [total EXCEPT ![t] = 0]
  /\ victim' = [victim EXCEPT ![t] = NoVictim]

\* The locks of t are released.
Release(t) ==
  /\ wrote' = [wrote EXCEPT ![t] = FALSE]
  /\ gone' = [gone EXCEPT ![t] = {}]

\* Mutant: an evicted row is emptied and kept.
CommitEmptied(t) ==
  /\ Goto(t, "commit", "done")
  /\ rows' = [p \in DOMAIN rows \cup {page[t]} |->
                IF p \in DOMAIN View(t) THEN View(t)[p] ELSE NoRow]
  /\ Release(t) /\ Return(t)
  /\ quiet' = [u \in Puts |-> FALSE]
  /\ UNCHANGED clock

Commit(t) ==
  /\ Goto(t, "commit", "done")
  /\ rows' = View(t)
  /\ Release(t) /\ Return(t)
  /\ quiet' = [u \in Puts |-> FALSE]
  /\ UNCHANGED clock

\* Mutant: no deferred Rollback; the transaction stays open with its locks.
AbortLeaking(t) ==
  /\ pc[t] \notin {"idle", "done"}
  /\ Faults \/ Deadlocked(t)
  /\ pc' = [pc EXCEPT ![t] = "done"]
  /\ UNCHANGED <<rows, clock, page, new, wrote, gone, total, victim, quiet>>

\* A statement fails, its deadline passes or the deadlock detector ends the
\* put; the deferred Rollback releases its locks.
Abort(t) ==
  /\ pc[t] \notin {"idle", "done"}
  /\ Faults \/ Deadlocked(t)
  /\ pc' = [pc EXCEPT ![t] = "done"]
  /\ Release(t) /\ Return(t)
  /\ quiet' = [quiet EXCEPT ![t] = FALSE]
  /\ UNCHANGED <<rows, clock>>

Run(t) == Upsert(t) \/ Sum(t) \/ Pick(t) \/ Fits(t) \/ Delete(t)
          \/ DeleteNothing(t) \/ Commit(t)

Next == \E t \in Puts :
          \/ \E p \in Pages, n \in Sizes : Begin(t, p, n)
          \/ Run(t)
          \/ Abort(t)

\* PostgreSQL executes a statement that waits for nothing, and its deadlock
\* detector breaks every cycle.  No deadline is counted on.
Fairness == \A t \in Puts :
              /\ WF_vars(Run(t))
              /\ WF_vars(Deadlocked(t) /\ Abort(t))

Spec == Init /\ [][Next]_vars
FairSpec == Spec /\ Fairness

-----------------------------------------------------------------------------
(* Properties.                                                             *)

\* A put during whose eviction no other put commits leaves the tunnel under
\* the cap, whatever overlapping puts had left above it: PutSnapshot's total
\* and DELETE loop (snapshots.go:54-75) keep the promise of snapshots.go:14.
QuietPutFits ==
  \A t \in Puts : pc[t] = "commit" /\ quiet[t] => Bytes(View(t)) <= MaxSnapshotBytes

\* Such a put evicts in the order of capture: every page it drops was captured
\* before every page it leaves, though captured_at is the start of a
\* transaction and commits come in another order (snapshots.go:61-66).
EvictsOldest ==
  \A t \in Puts : pc[t] = "commit" /\ quiet[t] =>
    \A p \in gone[t], q \in DOMAIN View(t) :
      (IF p \in Own(t) THEN new[t].at ELSE rows[p].at) < View(t)[q].at

\* Row locks never hold a put for ever: it commits or is rolled back, with no
\* deadline to help it (the deferred Rollback of snapshots.go:45).
PutEnds == \A t \in Puts : pc[t] = "upsert" ~> pc[t] = "done"
=============================================================================
