------------------------ MODULE SnapshotCacheProofs ------------------------
(***************************************************************************)
(* Proofs about PutSnapshot, for any number of puts and pages, any sizes   *)
(* and any cap.  While no other put commits, what a put sees changes by    *)
(* its own deletions only.  So total stays the sum of what it sees         *)
(* (Totals), and, no two captures having the same captured_at (Stamps),    *)
(* each DELETE takes the one row that is older than all it leaves          *)
(* (Oldest).                                                               *)
(*                                                                         *)
(* The first part is about the sum over a finite set.  Its inductions take *)
(* a smallest counterexample (WFMin), since the library's own induction    *)
(* theorems have an operator for a parameter.                              *)
(***************************************************************************)
EXTENDS SnapshotCache, FiniteSetTheorems, WellFoundedInduction, TLAPS

\* Induction over the subsets of a finite set: a smallest counterexample.
LEMMA SubsetInduction ==
  ASSUME NEW S, IsFiniteSet(S), NEW T,
         \A U \in SUBSET S : (\A V \in SUBSET U : V # U => V \in T) => U \in T
  PROVE  SUBSET S \subseteq T
<1> DEFINE Bad == (SUBSET S) \ T
<1> SUFFICES ASSUME Bad # {} PROVE FALSE
  OBVIOUS
<1>1. IsWellFoundedOn(StrictSubsetOrdering(S), SUBSET S)
  <2>1. IsWellFoundedOn(StrictSubsetOrdering(S), FiniteSubsetsOf(S))
    BY FS_StrictSubsetOrderingWellFounded
  <2>2. FiniteSubsetsOf(S) = SUBSET S BY FS_FiniteSubsetsOfFinite
  <2> QED BY <2>1, <2>2
<1>2. PICK U \in Bad : \A V \in Bad : ~(<<V, U>> \in StrictSubsetOrdering(S))
  <2>1. Bad \subseteq SUBSET S OBVIOUS
  <2> HIDE DEF Bad
  <2> QED BY <1>1, <2>1, WFMin
<1>3. \A V \in SUBSET U : V # U => V \in T
  BY <1>2 DEF StrictSubsetOrdering
<1> QED BY <1>2, <1>3

\* Induction over Nat, likewise.
LEMMA NatSetInduction ==
  ASSUME NEW T, 0 \in T, \A n \in Nat : n \in T => n + 1 \in T
  PROVE  Nat \subseteq T
<1> DEFINE Bad == Nat \ T
<1> SUFFICES ASSUME Bad # {} PROVE FALSE
  OBVIOUS
<1>1. PICK n \in Bad : \A m \in Bad : ~(<<m, n>> \in OpToRel(<, Nat))
  BY WFMin, NatLessThanWellFounded
<1>2. n # 0 /\ n - 1 \in Nat
  OBVIOUS
<1>3. <<n - 1, n>> \in OpToRel(<, Nat)
  BY <1>2 DEF OpToRel
<1>4. n - 1 \in T BY <1>1, <1>2, <1>3
<1>5. (n - 1) + 1 \in T BY <1>2, <1>4
<1> QED BY <1>2, <1>5

\* The function that MapThenSumSet folds with.
Fold(t, g, S) ==
  g = [s \in SUBSET S |->
         IF s = {} THEN 0
         ELSE LET x == CHOOSE x \in s : TRUE IN t[x].size + g[s \ {x}]]

SizeSum(t, S) == MapThenSumSet(LAMBDA p : t[p].size, S)

\* The sum is the value of such a function at the whole set.
LEMMA SumIsFold ==
  ASSUME NEW t, NEW S
  PROVE  SizeSum(t, S) = (CHOOSE g : Fold(t, g, S))[S]
BY DEF SizeSum, MapThenSumSet, MapThenFoldSet, Fold

\* Such a function exists: it is built up by the size of the subsets.
LEMMA FoldExists ==
  ASSUME NEW t, NEW S, IsFiniteSet(S)
  PROVE  \E g : Fold(t, g, S)
<1> DEFINE Upto(n) == {s \in SUBSET S : Cardinality(s) <= n}
           Part(g, n) == g = [s \in Upto(n) |->
              IF s = {} THEN 0
              ELSE LET x == CHOOSE x \in s : TRUE IN t[x].size + g[s \ {x}]]
           T == {n \in Nat : \E g : Part(g, n)}
<1>1. \A s \in SUBSET S : /\ IsFiniteSet(s) /\ Cardinality(s) \in Nat
                          /\ Cardinality(s) <= Cardinality(S)
                          /\ Cardinality(s) = 0 <=> s = {}
  BY FS_Subset, FS_CardinalityType, FS_EmptySet
<1>2. \A s \in SUBSET S : \A x \in s : Cardinality(s \ {x}) = Cardinality(s) - 1
  BY <1>1, FS_RemoveElement
<1>3. 0 \in T
  <2> DEFINE g == [s \in Upto(0) |-> 0]
  <2>1. \A s \in Upto(0) : s = {} BY <1>1
  <2>2. Part(g, 0) BY <2>1
  <2> QED BY <2>2
<1>4. ASSUME NEW n \in Nat, n \in T PROVE n + 1 \in T
  <2>1. PICK g : Part(g, n) BY <1>4
  <2> DEFINE E(k, s) == LET x == CHOOSE x \in s : TRUE IN t[x].size + k[s \ {x}]
             h == [s \in Upto(n + 1) |-> IF s = {} THEN 0 ELSE E(g, s)]
  <2>2. ASSUME NEW s \in Upto(n + 1), s # {} PROVE E(g, s) = E(h, s)
    <3> DEFINE x == CHOOSE x \in s : TRUE
               r == s \ {x}
    <3>1. x \in s BY <2>2
    <3>2. r \in Upto(n) /\ r \in Upto(n + 1) BY <1>1, <1>2, <2>2, <3>1
    <3>3. h[r] = IF r = {} THEN 0 ELSE E(g, r) BY <3>2
    <3>4. g[r] = IF r = {} THEN 0 ELSE E(g, r) BY <2>1, <3>2
    <3> QED BY <3>3, <3>4
  <2>3. Part(h, n + 1) BY <2>2
  <2> HIDE DEF h, Part
  <2> QED BY <2>3
<1>5. Nat \subseteq T BY <1>3, <1>4, NatSetInduction
<1>6. Cardinality(S) \in T BY <1>1, <1>5
<1>7. Upto(Cardinality(S)) = SUBSET S BY <1>1
<1>8. PICK g : Part(g, Cardinality(S)) BY <1>6
<1> QED BY <1>7, <1>8 DEF Fold

\* What it adds up depends on the elements only, not on the set it started from.
LEMMA FoldsAgree ==
  ASSUME NEW t, NEW u, NEW g, NEW h, NEW S, NEW R, IsFiniteSet(S), S \subseteq R,
         Fold(t, g, S), Fold(u, h, R), \A p \in S : t[p].size = u[p].size
  PROVE  \A U \in SUBSET S : g[U] = h[U]
<1> DEFINE T == {U \in SUBSET S : g[U] = h[U]}
<1>1. ASSUME NEW U \in SUBSET S, \A V \in SUBSET U : V # U => V \in T
      PROVE  U \in T
  <2>1. CASE U = {} BY <2>1 DEF Fold
  <2>2. CASE U # {}
    <3> DEFINE x == CHOOSE x \in U : TRUE
    <3>1. x \in U BY <2>2
    <3>2. U \ {x} \in T BY <1>1, <3>1
    <3>3. g[U] = t[x].size + g[U \ {x}] BY <2>2 DEF Fold
    <3>4. h[U] = u[x].size + h[U \ {x}] BY <2>2 DEF Fold
    <3> QED BY <3>1, <3>2, <3>3, <3>4
  <2> QED BY <2>1, <2>2
<1>2. SUBSET S \subseteq T
  <2> HIDE DEF T
  <2> QED BY <1>1, SubsetInduction
<1> QED BY <1>2

\* m is the sum of the numbers n and k: named, so that the solver meets it as
\* one fact about numbers.
Adds(n, k, m) == n \in Nat /\ k \in Nat /\ m = n + k

\* The sum is a number, and any element can be taken out of it.
LEMMA FoldRemoves ==
  ASSUME NEW t, NEW g, NEW S, IsFiniteSet(S), Fold(t, g, S),
         \A p \in S : t[p].size \in Nat
  PROVE  \A U \in SUBSET S : g[U] \in Nat /\ \A x \in U : Adds(t[x].size, g[U \ {x}], g[U])
<1> USE DEF Adds
<1> DEFINE T == {U \in SUBSET S :
                  g[U] \in Nat /\ \A x \in U : Adds(t[x].size, g[U \ {x}], g[U])}
<1>1. ASSUME NEW U \in SUBSET S, \A V \in SUBSET U : V # U => V \in T
      PROVE  U \in T
  <2>1. CASE U = {} BY <2>1 DEF Fold
  <2>2. CASE U # {}
    <3> DEFINE y == CHOOSE x \in U : TRUE
    <3>1. y \in U BY <2>2
    <3>3. U \ {y} \in T BY <1>1, <3>1
    <3>2. Adds(t[y].size, g[U \ {y}], g[U]) BY <2>2, <3>1, <3>3 DEF Fold
    <3>4. g[U] \in Nat BY <3>1, <3>2, <3>3
    <3>5. ASSUME NEW x \in U PROVE Adds(t[x].size, g[U \ {x}], g[U])
      <4>1. CASE x = y BY <3>2, <4>1
      <4>2. CASE x # y
        <5>1. U \ {x} \in T BY <1>1
        <5>2. Adds(t[x].size, g[(U \ {y}) \ {x}], g[U \ {y}]) BY <3>3, <4>2
        <5>3. Adds(t[y].size, g[(U \ {x}) \ {y}], g[U \ {x}]) BY <5>1, <3>1, <4>2
        <5>4. (U \ {y}) \ {x} = (U \ {x}) \ {y} OBVIOUS
        <5>5. (U \ {y}) \ {x} \in T BY <1>1, <3>1
        <5>6. t[x].size \in Nat /\ t[y].size \in Nat BY <3>1
        <5> HIDE DEF y, T
        <5>7. g[(U \ {y}) \ {x}] \in Nat BY <5>5 DEF T
        <5>8. g[(U \ {x}) \ {y}] = g[(U \ {y}) \ {x}] BY <5>4
        <5> QED BY <3>2, <5>2, <5>3, <5>6, <5>7, <5>8
      <4> QED BY <4>1, <4>2
    <3> QED BY <3>4, <3>5
  <2> QED BY <2>1, <2>2
<1>2. SUBSET S \subseteq T
  <2> HIDE DEF T
  <2> QED BY <1>1, SubsetInduction
<1> QED BY <1>2

\* So the sum is the value of one that can be named.
LEMMA SumIs ==
  ASSUME NEW t, NEW S, IsFiniteSet(S)
  PROVE  \E g : Fold(t, g, S) /\ SizeSum(t, S) = g[S]
BY SumIsFold, FoldExists

\* What the proofs use.
LEMMA SumNat ==
  ASSUME NEW t, NEW S, IsFiniteSet(S), \A p \in S : t[p].size \in Nat
  PROVE  SizeSum(t, S) \in Nat /\ (S = {} => SizeSum(t, S) = 0)
<1>1. PICK g : Fold(t, g, S) /\ SizeSum(t, S) = g[S] BY SumIs
<1>2. g[S] \in Nat BY <1>1, FoldRemoves
<1> QED BY <1>1, <1>2 DEF Fold

\* Without one row, the sum is less by that row's size.
LEMMA SumRemoves ==
  ASSUME NEW t, NEW u, NEW S, NEW x \in S, IsFiniteSet(S), \A p \in S : t[p].size \in Nat,
         \A p \in S \ {x} : u[p].size = t[p].size
  PROVE  Adds(t[x].size, SizeSum(u, S \ {x}), SizeSum(t, S))
<1>1. PICK g : Fold(t, g, S) /\ SizeSum(t, S) = g[S] BY SumIs
<1>2. IsFiniteSet(S \ {x}) BY FS_RemoveElement
<1>3. PICK h : Fold(u, h, S \ {x}) /\ SizeSum(u, S \ {x}) = h[S \ {x}] BY <1>2, SumIs
<1>4. Adds(t[x].size, g[S \ {x}], g[S]) BY <1>1, FoldRemoves
<1>5. h[S \ {x}] = g[S \ {x}] BY <1>1, <1>2, <1>3, FoldsAgree
<1> QED BY <1>1, <1>3, <1>4, <1>5

-----------------------------------------------------------------------------
(* The inductive invariant.                                                *)

Active(t) == pc[t] \notin {"idle", "done"}

\* No two captures have the same captured_at.
Stamps ==
  /\ \A p, q \in DOMAIN rows : rows[p].at = rows[q].at => p = q
  /\ \A t \in Puts : Active(t) =>
       /\ page[t] \in Pages /\ new[t] \in Row /\ new[t].at \in 1..clock
       /\ \A p \in DOMAIN rows : new[t].at # rows[p].at
       /\ \A u \in Puts \ {t} : Active(u) => new[t].at # new[u].at

Progress ==
  \A t \in Puts :
    /\ pc[t] \in {"sum", "evict", "delete", "commit"} => wrote[t]
    /\ pc[t] \in {"idle", "upsert", "sum", "done"} => gone[t] = {} /\ ~quiet[t]

\* The rows a put sees, and when each was captured.
Seen(t) == DOMAIN rows \cup {page[t]}
Left(t) == Seen(t) \ gone[t]
Stamp(t, p) == IF p = page[t] THEN new[t].at ELSE rows[p].at

\* What a put has deleted is older than what is left, and what it is about to
\* delete is the oldest of that.
Oldest ==
  \A t \in Puts : quiet[t] =>
    /\ gone[t] \subseteq Seen(t)
    /\ \A p \in gone[t], q \in Left(t) : Stamp(t, p) < Stamp(t, q)
    /\ pc[t] = "delete" =>
         /\ Chosen(t) \in Left(t)
         /\ \A q \in Left(t) : Stamp(t, Chosen(t)) <= Stamp(t, q)

\* Undisturbed, total is the sum of what the put sees.
Totals ==
  \A t \in Puts :
    /\ pc[t] = "delete" => total[t] > MaxSnapshotBytes
    /\ quiet[t] =>
         /\ total[t] = Bytes(View(t))
         /\ pc[t] = "delete" => victim[t].at = Stamp(t, Chosen(t))
         /\ pc[t] = "commit" => total[t] <= MaxSnapshotBytes

CacheInv == TypeOK /\ Stamps /\ Progress /\ Oldest /\ Totals

-----------------------------------------------------------------------------

\* What a put sees: the rows it has not deleted, its own upsert among them.
LEMMA ViewIsLeft ==
  ASSUME NEW t \in Puts, wrote[t]
  PROVE  /\ DOMAIN View(t) = Left(t)
         /\ \A p \in Left(t) : View(t)[p].at = Stamp(t, p)
         /\ \A p \in Left(t) : View(t)[p] = IF p = page[t] THEN new[t] ELSE rows[p]
BY DEF View, Own, Left, Seen, Stamp

\* The rows a put may see have different captured_at.
LEMMA StampsDiffer ==
  ASSUME CacheInv, NEW t \in Puts, Active(t)
  PROVE  \A p, q \in Seen(t) : /\ Stamp(t, p) \in Nat
                               /\ Stamp(t, p) = Stamp(t, q) => p = q
BY DEF CacheInv, TypeOK, Stamps, Seen, Stamp, Row

\* What a put sees is finite, and has sizes that can be added.
LEMMA SizesAreNat ==
  ASSUME CacheInv, NEW t \in Puts, Active(t), wrote[t]
  PROVE  /\ IsFiniteSet(Left(t))
         /\ Bytes(View(t)) = SizeSum(View(t), Left(t))
         /\ \A p \in Left(t) : View(t)[p].size \in 0..MaxSnapshotBytes
<1>1. Left(t) \subseteq Pages BY DEF CacheInv, TypeOK, Stamps, Left, Seen
<1>2. IsFiniteSet(Left(t)) BY <1>1, PageAssumption, FS_Subset DEF PageAssumption
<1>3. \A p \in Left(t) : View(t)[p] \in Row
  BY ViewIsLeft DEF CacheInv, TypeOK, Stamps, Left, Seen
<1> QED BY <1>2, <1>3, ViewIsLeft, SizeAssumption DEF SizeAssumption, Row, Bytes, SizeSum

\* No put has begun: only the stamps of the stored rows say anything.
LEMMA InitCacheInv == Init => CacheInv
<1> SUFFICES ASSUME Init PROVE CacheInv
  OBVIOUS
<1>1. PICK S \in SUBSET Pages : rows \in [S -> [at : 1..Cardinality(S), size : Sizes]]
  BY DEF Init
<1>2. DOMAIN rows = S /\ clock = Cardinality(S)
  BY <1>1 DEF Init
<1>3. IsFiniteSet(S) /\ Cardinality(S) \in Nat
  BY <1>1, PageAssumption, FS_Subset, FS_CardinalityType DEF PageAssumption
<1>4. \A p \in DOMAIN rows : rows[p] \in Row /\ rows[p].at \in 1..clock
  BY <1>1, <1>2, <1>3 DEF Row
<1>5. TypeOK BY <1>1, <1>2, <1>3, <1>4 DEF Init, TypeOK, Places, NoVictim, NoRow
<1>6. Stamps BY DEF Init, Stamps, Active
<1>7. Progress /\ Oldest /\ Totals BY DEF Init, Progress, Oldest, Totals
<1> QED BY <1>5, <1>6, <1>7 DEF CacheInv

\* The begin of a put (PutSnapshot) gives its capture a time of its own.
LEMMA BeginKeepsInv ==
  ASSUME CacheInv, NEW t \in Puts, NEW p \in Pages, NEW n \in Sizes, Begin(t, p, n)
  PROVE  CacheInv'
<1> USE DEF CacheInv
<1>1. TypeOK'
  BY SizeAssumption DEF TypeOK, Begin, Goto, Places, Row, SizeAssumption
<1>2. Stamps' BY DEF TypeOK, Stamps, Begin, Goto, Active, Places, Row
<1>3. Progress' BY DEF TypeOK, Progress, Begin, Goto, Places
<1>4. Oldest'
  BY DEF TypeOK, Progress, Oldest, Begin, Goto, Seen, Left, Stamp, Chosen, Places
<1>5. Totals'
  <2>1. \A u \in Puts \ {t} : View(u)' = View(u) BY DEF Begin, View, Own
  <2> QED
    BY <2>1 DEF TypeOK, Progress, Totals, Begin, Goto, Stamp, Chosen, Places
<1> QED BY <1>1, <1>2, <1>3, <1>4, <1>5

\* A statement of t leaves the committed rows and the other puts alone.
LEMMA StatementKeepsInv ==
  ASSUME CacheInv, NEW t \in Puts,
         UNCHANGED <<rows, clock, page, new>>,
         NEW to \in Places \ {"idle"}, Active(t), pc' = [pc EXCEPT ![t] = to],
         wrote' \in [Puts -> BOOLEAN], gone' \in [Puts -> SUBSET Pages],
         victim' \in [Puts -> [page : Pages \cup {None}, at : Nat]],
         quiet' \in [Puts -> BOOLEAN],
         \A u \in Puts \ {t} : /\ wrote'[u] = wrote[u] /\ gone'[u] = gone[u]
                               /\ victim'[u] = victim[u] /\ quiet'[u] = quiet[u],
         to \in {"sum", "evict", "delete", "commit"} => wrote'[t],
         to \in {"upsert", "sum", "done"} => gone'[t] = {} /\ ~quiet'[t],
         quiet'[t] =>
           /\ gone'[t] \subseteq Seen(t)
           /\ \A p \in gone'[t], q \in Seen(t) \ gone'[t] : Stamp(t, p) < Stamp(t, q)
           /\ to = "delete" =>
                /\ victim'[t].page \in Seen(t) \ gone'[t]
                /\ \A q \in Seen(t) \ gone'[t] : Stamp(t, victim'[t].page) <= Stamp(t, q),
         total' \in [Puts -> Nat],
         \A u \in Puts \ {t} : total'[u] = total[u],
         to = "delete" => total'[t] > MaxSnapshotBytes,
         quiet'[t] =>
           /\ total'[t] = Bytes(View(t)')
           /\ to = "delete" => victim'[t].at = Stamp(t, victim'[t].page)
           /\ to = "commit" => total'[t] <= MaxSnapshotBytes
  PROVE  CacheInv'
<1> USE DEF CacheInv
<1>1. TypeOK' BY DEF TypeOK
<1>2. Stamps' BY DEF TypeOK, Stamps, Active
<1>3. Progress' BY DEF TypeOK, Progress, Places
<1>4. Oldest' BY DEF TypeOK, Oldest, Seen, Left, Stamp, Chosen
<1>5. Totals'
  <2>1. \A u \in Puts \ {t} : View(u)' = View(u) BY DEF View, Own
  <2> QED BY <2>1 DEF TypeOK, Totals, Stamp, Chosen
<1> QED BY <1>1, <1>2, <1>3, <1>4, <1>5

\* The upsert and the SELECT of the sum keep it.
LEMMA UpsertAndSumKeepInv ==
  ASSUME CacheInv, NEW t \in Puts, Upsert(t) \/ Sum(t)
  PROVE  CacheInv'
<1>1. CASE Upsert(t)
  BY <1>1, StatementKeepsInv DEF Upsert, Goto, CacheInv, TypeOK, Progress, Active, Places
<1>2. CASE Sum(t)
  <2>1. Active(t) /\ wrote[t] BY <1>2 DEF Sum, Goto, CacheInv, Progress, Active
  <2>2. Bytes(View(t)) \in Nat
    BY <2>1, SizesAreNat, SumNat, SizeAssumption DEF SizeAssumption
  <2>3. View(t)' = View(t) BY <1>2 DEF Sum, View, Own
  <2> QED
    BY <1>2, <2>1, <2>2, <2>3, StatementKeepsInv
    DEF Sum, Goto, CacheInv, TypeOK, Progress, Active, Places
<1> QED BY <1>1, <1>2

\* The loop keeps it: each DELETE takes the oldest row, and total falls by its
\* size.
LEMMA EvictKeepsInv ==
  ASSUME CacheInv, NEW t \in Puts, Pick(t) \/ Fits(t) \/ Delete(t) \/ DeleteNothing(t)
  PROVE  CacheInv'
<1> USE DEF CacheInv, Goto
<1>1. Active(t) /\ wrote[t]
  BY DEF Pick, Fits, Delete, DeleteNothing, Progress, Active
<1>2. /\ DOMAIN View(t) = Left(t)
      /\ \A p \in Left(t) : View(t)[p].at = Stamp(t, p)
  BY <1>1, ViewIsLeft
<1>3. \A p, q \in Seen(t) : /\ Stamp(t, p) \in Nat
                            /\ Stamp(t, p) = Stamp(t, q) => p = q
  BY <1>1, StampsDiffer
<1>4. Left(t) = Seen(t) \ gone[t] /\ Left(t) \subseteq Pages
  BY <1>1 DEF Left, Seen, TypeOK, Stamps
<1>5. CASE Pick(t)
  <2>4. View(t)' = View(t) BY <1>5 DEF Pick, View, Own
  <2>1. PICK p \in Left(t) :
          /\ \A q \in Left(t) : Stamp(t, p) <= Stamp(t, q)
          /\ victim' = [victim EXCEPT ![t] = [page |-> p, at |-> Stamp(t, p)]]
    <3>1. PICK p \in DOMAIN View(t) :
            /\ \A q \in DOMAIN View(t) : View(t)[p].at <= View(t)[q].at
            /\ victim' = [victim EXCEPT ![t] = [page |-> p, at |-> View(t)[p].at]]
      BY <1>5 DEF Pick
    <3>2. p \in Left(t) /\ View(t)[p].at = Stamp(t, p) BY <1>2
    <3>3. \A q \in Left(t) : Stamp(t, p) <= Stamp(t, q) BY <3>1, <3>2, <1>2
    <3> QED BY <3>1, <3>2, <3>3
  <2>2. Stamp(t, p) \in Nat BY <2>1, <1>3, <1>4
  <2>3. victim' \in [Puts -> [page : Pages \cup {None}, at : Nat]] /\ victim'[t].page = p
    BY <2>1, <2>2, <1>4 DEF TypeOK
  <2> QED
    BY <1>1, <1>4, <1>5, <2>1, <2>2, <2>3, <2>4, StatementKeepsInv
    DEF Pick, TypeOK, Oldest, Totals, Places
<1>6. CASE Fits(t)
  <2>1. View(t)' = View(t) BY <1>6 DEF Fits, View, Own
  <2>2. DOMAIN View(t) = {} => Bytes(View(t)) = 0
    BY <1>1, <1>2, SizesAreNat, SumNat, SizeAssumption DEF SizeAssumption
  <2>3. quiet[t] => total[t] <= MaxSnapshotBytes
    BY <1>6, <2>2, SizeAssumption DEF Fits, Totals, SizeAssumption
  <2> QED
    BY <1>1, <1>4, <1>6, <2>1, <2>3, StatementKeepsInv DEF Fits, TypeOK, Oldest, Totals, Places
<1>7. CASE Delete(t)
  <2>1. Chosen(t) \in Left(t) BY <1>2, <1>7 DEF Delete
  <2>2. gone' = [gone EXCEPT ![t] = @ \cup {Chosen(t)}] BY <1>7 DEF Delete
  <2>3. ASSUME quiet[t], NEW p \in gone'[t], NEW q \in Seen(t) \ gone'[t]
        PROVE  Stamp(t, p) < Stamp(t, q)
    <3>1. q \in Left(t) /\ q # Chosen(t) /\ Chosen(t) \in Seen(t) /\ q \in Seen(t)
      BY <2>1, <2>2, <1>4, <2>3 DEF TypeOK
    <3>2. CASE p = Chosen(t)
      <4>1. Stamp(t, p) <= Stamp(t, q) BY <1>7, <2>3, <3>1, <3>2 DEF Delete, Oldest
      <4> QED BY <1>3, <3>1, <3>2, <4>1
    <3>3. CASE p \in gone[t] BY <2>3, <3>1, <3>3 DEF Oldest
    <3> QED BY <2>2, <2>3, <3>2, <3>3 DEF TypeOK
  <2>4. quiet[t] => gone'[t] \subseteq Seen(t)
    BY <2>1, <2>2, <1>4 DEF Oldest, TypeOK
  <2>5. gone' \in [Puts -> SUBSET Pages] /\ \A u \in Puts \ {t} : gone'[u] = gone[u]
    BY <2>1, <2>2, <1>4 DEF TypeOK
  <2>6. victim' \in [Puts -> [page : Pages \cup {None}, at : Nat]]
    BY <1>7 DEF Delete, TypeOK, NoVictim
  <2>7. total' = [total EXCEPT ![t] = @ - View(t)[Chosen(t)].size] BY <1>7 DEF Delete
  <2>8. View(t)[Chosen(t)].size \in 0..MaxSnapshotBytes
    BY <1>1, <2>1, SizesAreNat
  <2>9. total[t] > MaxSnapshotBytes BY <1>7 DEF Delete, Totals
  <2>10. total' \in [Puts -> Nat] /\ \A u \in Puts \ {t} : total'[u] = total[u]
    BY <2>7, <2>8, <2>9, SizeAssumption DEF TypeOK, SizeAssumption
  <2>11. ASSUME quiet[t] PROVE total'[t] = Bytes(View(t)')
    <3>1. wrote'[t] /\ page'[t] = page[t] /\ rows' = rows /\ new'[t] = new[t]
      BY <1>1, <1>7 DEF Delete
    <3>2. /\ DOMAIN View(t)' = Left(t) \ {Chosen(t)}
          /\ \A p \in Left(t) \ {Chosen(t)} : View(t)'[p].size = View(t)[p].size
      BY <1>1, <2>2, <3>1 DEF View, Own, Left, Seen, TypeOK
    <3>3. Bytes(View(t)') = SizeSum(View(t)', Left(t) \ {Chosen(t)})
      BY <3>2 DEF Bytes, SizeSum
    <3>4. SizeSum(View(t)', Left(t) \ {Chosen(t)})
            = SizeSum(View(t), Left(t)) - View(t)[Chosen(t)].size
      <4>1. IsFiniteSet(Left(t)) /\ \A p \in Left(t) : View(t)[p].size \in Nat
        BY <1>1, SizesAreNat, SizeAssumption DEF SizeAssumption
      <4>2. Adds(View(t)[Chosen(t)].size, SizeSum(View(t)', Left(t) \ {Chosen(t)}),
                 SizeSum(View(t), Left(t)))
        BY <2>1, <3>2, <4>1, SumRemoves
      <4> QED BY <4>2 DEF Adds
    <3>5. SizeSum(View(t), Left(t)) = total[t] BY <1>1, <2>11, SizesAreNat DEF Totals
    <3> QED BY <2>7, <3>3, <3>4, <3>5 DEF TypeOK
  <2> QED
    BY <1>1, <1>7, <2>3, <2>4, <2>5, <2>6, <2>10, <2>11, StatementKeepsInv
    DEF Delete, TypeOK, Places
<1>8. CASE DeleteNothing(t)
  <2>1. victim' \in [Puts -> [page : Pages \cup {None}, at : Nat]]
    BY <1>8 DEF DeleteNothing, TypeOK, NoVictim
  <2>2. ~quiet[t]
    BY <1>2, <1>8 DEF DeleteNothing, Oldest, Totals
  <2> QED
    BY <1>1, <1>4, <1>8, <2>1, <2>2, StatementKeepsInv
    DEF DeleteNothing, TypeOK, Oldest, Places
<1> QED BY <1>5, <1>6, <1>7, <1>8

\* A commit changes what the others see, and ends their claims.
LEMMA CommitKeepsInv ==
  ASSUME CacheInv, NEW t \in Puts, Commit(t)
  PROVE  CacheInv'
<1> USE DEF CacheInv
<1>1. Active(t) /\ wrote[t] BY DEF Commit, Goto, Progress, Active
<1>2. /\ DOMAIN rows' \subseteq Seen(t)
      /\ \A p \in DOMAIN rows' : rows'[p] = IF p = page[t] THEN new[t] ELSE rows[p]
  BY <1>1, ViewIsLeft DEF Commit, Left
<1>3. /\ page[t] \in Pages /\ new[t] \in Row /\ new[t].at \in 1..clock
      /\ \A p \in DOMAIN rows : new[t].at # rows[p].at
      /\ \A u \in Puts \ {t} : Active(u) => new[t].at # new[u].at
  BY <1>1 DEF Stamps
<1>4. \A p \in DOMAIN rows' : /\ p = page[t] => rows'[p] = new[t]
                              /\ p # page[t] => p \in DOMAIN rows /\ rows'[p] = rows[p]
  BY <1>2 DEF Seen
<1>5. TypeOK'
  <2>1. DOMAIN rows' \subseteq Pages BY <1>2, <1>3 DEF Seen, TypeOK
  <2>2. \A p \in DOMAIN rows' : rows'[p] \in Row /\ rows'[p].at \in 1..clock'
    BY <1>3, <1>4 DEF TypeOK, Commit
  <2> QED BY <2>1, <2>2, SizeAssumption DEF TypeOK, Commit, Goto, Release, Return, Places,
            NoVictim, NoRow
<1>6. Stamps'
  <2>1. \A p, q \in DOMAIN rows' : rows'[p].at = rows'[q].at => p = q
    BY <1>3, <1>4 DEF Stamps
  <2>2. \A u \in Puts : Active(u)' => u # t /\ Active(u) /\ page'[u] = page[u] /\ new'[u] = new[u]
    BY DEF Commit, Goto, Return, Active, TypeOK
  <2>3. \A u \in Puts, p \in DOMAIN rows' : Active(u)' => new'[u].at # rows'[p].at
    BY <1>3, <1>4, <2>2 DEF Stamps
  <2>4. clock' = clock BY DEF Commit
  <2> QED BY <2>1, <2>2, <2>3, <2>4 DEF Stamps
<1>7. Progress' BY DEF TypeOK, Progress, Commit, Goto, Release
<1>8. Oldest' BY DEF Oldest, Commit
<1>9. Totals' BY DEF TypeOK, Totals, Commit, Goto, Return
<1> QED BY <1>5, <1>6, <1>7, <1>8, <1>9

\* A rollback changes nothing that the others see.
LEMMA AbortKeepsInv ==
  ASSUME CacheInv, NEW t \in Puts, Abort(t)
  PROVE  CacheInv'
<1> USE DEF CacheInv
<1>1. TypeOK' BY DEF TypeOK, Abort, Release, Return, Places, NoVictim, NoRow
<1>2. Stamps' BY DEF TypeOK, Stamps, Abort, Return, Active
<1>3. Progress' BY DEF TypeOK, Progress, Abort, Release
<1>4. Oldest'
  BY DEF TypeOK, Oldest, Abort, Release, Return, Seen, Left, Stamp, Chosen
<1>5. Totals'
  <2>1. \A u \in Puts \ {t} : View(u)' = View(u)
    BY DEF TypeOK, Abort, Release, Return, View, Own
  <2> QED BY <2>1 DEF TypeOK, Totals, Abort, Return, Stamp, Chosen
<1> QED BY <1>1, <1>2, <1>3, <1>4, <1>5

\* Every statement of every put keeps it, in any order.
LEMMA StepKeepsInv == CacheInv /\ [Next]_vars => CacheInv'
<1> SUFFICES ASSUME CacheInv, [Next]_vars PROVE CacheInv'
  OBVIOUS
<1>1. ASSUME NEW t \in Puts, Run(t) PROVE CacheInv'
  BY <1>1, UpsertAndSumKeepInv, EvictKeepsInv, CommitKeepsInv DEF Run
<1>2. ASSUME NEW t \in Puts, NEW p \in Pages, NEW n \in Sizes, Begin(t, p, n)
      PROVE  CacheInv'
  BY <1>2, BeginKeepsInv
<1>3. ASSUME NEW t \in Puts, Abort(t) PROVE CacheInv'
  BY <1>3, AbortKeepsInv
<1>4. CASE UNCHANGED vars
  <2>1. \A t \in Puts : View(t)' = View(t) BY <1>4 DEF vars, View, Own
  <2> QED
    BY <1>4, <2>1
    DEF vars, CacheInv, TypeOK, Stamps, Progress, Oldest, Totals, Active, Seen, Left, Stamp, Chosen
<1> QED BY <1>1, <1>2, <1>3, <1>4 DEF Next

\* At its commit, what an undisturbed put has deleted is older than the rest.
LEMMA InvImpliesEvictsOldest == CacheInv => EvictsOldest
<1> SUFFICES ASSUME CacheInv, NEW t \in Puts, pc[t] = "commit", quiet[t],
                    NEW p \in gone[t], NEW q \in DOMAIN View(t)
             PROVE  (IF p \in Own(t) THEN new[t].at ELSE rows[p].at) < View(t)[q].at
  BY DEF EvictsOldest
<1>1. wrote[t] BY DEF CacheInv, Progress
<1>2. q \in Left(t) /\ View(t)[q].at = Stamp(t, q) BY <1>1, ViewIsLeft
<1>3. Stamp(t, p) < Stamp(t, q) BY <1>2 DEF CacheInv, Oldest
<1> QED BY <1>1, <1>2, <1>3 DEF Stamp, Own

\* So it holds always.
LEMMA CacheSafe == Spec => []CacheInv
BY InitCacheInv, StepKeepsInv, PTL DEF Spec

\* Whatever overlapping puts, deadlocks and failures do, the rows, the locks and
\* what each put knows keep their types; total is never negative (PutSnapshot).
THEOREM CacheTypeCorrect == Spec => []TypeOK
BY CacheSafe, PTL DEF CacheInv

\* A put during whose eviction no other one commits brings the tunnel under the
\* cap, whatever the cache it found (PutSnapshot's total and DELETE loop).
THEOREM QuietPutsFit == Spec => []QuietPutFits
<1>1. CacheInv => QuietPutFits BY DEF CacheInv, Totals, QuietPutFits
<1> QED BY <1>1, CacheSafe, PTL

\* Such a put drops the pages that were captured first, whatever order
\* transactions start and commit in (PutSnapshot).
THEOREM EvictionIsOldestFirst == Spec => []EvictsOldest
BY InvImpliesEvictsOldest, CacheSafe, PTL
=============================================================================
