------------------------ MODULE ProviderGatewayProofs ------------------------
(***************************************************************************)
(* The gateway for any number of processes, tasks, authorisations, counted *)
(* quantities and missions of earlier versions.                            *)
(*                                                                         *)
(* The first part is about sums over finite sets.  Total() is a fold of    *)
(* the community modules, a recursive function on the subsets of the set   *)
(* it adds up; every fact about it is proved from a least subset where it  *)
(* would fail (WFMin), because an induction theorem cannot be instantiated *)
(* here.                                                                   *)
(***************************************************************************)
EXTENDS ProviderGateway, JournalProofs, FiniteSetTheorems, WellFoundedInduction

Pick(s) == CHOOSE x \in s : TRUE

(* g adds up f over the subsets of S, one picked element at a time.        *)
AddsUp(f, S, g) ==
  g = [s \in SUBSET S |->
         IF s = {} THEN 0 ELSE f[Pick(s)] + g[s \ {Pick(s)}]]

Sum(f, S) == (CHOOSE g : AddsUp(f, S, g))[S]

(* A set of subsets of a finite set has a least element.                   *)
LEMMA LeastSubset ==
  ASSUME NEW S, IsFiniteSet(S), NEW T, T \subseteq SUBSET S, T # {}
  PROVE  \E s \in T : \A r \in T : r \subseteq s => r = s
<1>1. IsWellFoundedOn(StrictSubsetOrdering(S), SUBSET S)
  BY FS_StrictSubsetOrderingWellFounded, FS_FiniteSubsetsOfFinite
<1>2. PICK s \in T : \A r \in T : ~ (<<r, s>> \in StrictSubsetOrdering(S))
  BY <1>1, WFMin
<1>3. QED
  BY <1>2 DEF StrictSubsetOrdering

LEMMA PickIn == \A s : s # {} => Pick(s) \in s
BY DEF Pick

(* Two ways to add up the same values agree where both are defined.        *)
LEMMA AddsUpUnique ==
  ASSUME NEW S, NEW R, IsFiniteSet(S), NEW f, NEW g, NEW h, NEW k,
         AddsUp(f, S, g), AddsUp(h, R, k),
         \A x \in S \cap R : f[x] = h[x]
  PROVE  \A s \in SUBSET (S \cap R) : g[s] = k[s]
<1> DEFINE T == {s \in SUBSET (S \cap R) : g[s] # k[s]}
<1> SUFFICES ASSUME T # {} PROVE FALSE
  OBVIOUS
<1>1. T \subseteq SUBSET S
  OBVIOUS
<1>2. PICK s \in T : \A r \in T : r \subseteq s => r = s
  <2> HIDE DEF T
  <2>1. QED
    BY <1>1, LeastSubset
<1>3. s \in SUBSET S /\ s \in SUBSET R
  OBVIOUS
<1>4. CASE s = {}
  BY <1>3, <1>4 DEF AddsUp
<1>5. CASE s # {}
  <2>1. Pick(s) \in s
    BY <1>5, PickIn
  <2>2. s \ {Pick(s)} \notin T
    BY <1>2, <2>1
  <2>3. g[s \ {Pick(s)}] = k[s \ {Pick(s)}]
    BY <2>2, <1>3
  <2>4. g[s] = f[Pick(s)] + g[s \ {Pick(s)}]
    BY <1>3, <1>5 DEF AddsUp
  <2>5. k[s] = h[Pick(s)] + k[s \ {Pick(s)}]
    BY <1>3, <1>5 DEF AddsUp
  <2>6. f[Pick(s)] = h[Pick(s)]
    BY <1>3, <2>1
  <2>7. QED
    BY <2>3, <2>4, <2>5, <2>6
<1>6. QED
  BY <1>4, <1>5

(* Every finite set can be added up.                                       *)
LEMMA AddsUpExists ==
  ASSUME NEW S, IsFiniteSet(S), NEW f
  PROVE  \E g : AddsUp(f, S, g)
<1> DEFINE T == {R \in SUBSET S : ~ \E g : AddsUp(f, R, g)}
           G(R) == CHOOSE g : AddsUp(f, R, g)
           Rest(s) == s \ {Pick(s)}
<1> SUFFICES ASSUME T # {} PROVE FALSE
  OBVIOUS
<1>1. PICK R \in T : \A U \in T : U \subseteq R => U = R
  <2>1. T \subseteq SUBSET S
    OBVIOUS
  <2> HIDE DEF T
  <2>2. QED
    BY <2>1, LeastSubset
<1>2. \A U \in SUBSET R : U # R => AddsUp(f, U, G(U))
  <2> SUFFICES ASSUME NEW U \in SUBSET R, U # R PROVE AddsUp(f, U, G(U))
    OBVIOUS
  <2>1. U \notin T
    BY <1>1
  <2>2. \E g : AddsUp(f, U, g)
    BY <2>1, <1>1
  <2>3. QED
    BY <2>2
<1>3. IsFiniteSet(R)
  BY <1>1, FS_Subset
<1> DEFINE g == [s \in SUBSET R |->
                   IF s = {} THEN 0 ELSE f[Pick(s)] + G(Rest(s))[Rest(s)]]
<1>4. ASSUME NEW s \in SUBSET R, s # {}
      PROVE  g[Rest(s)] = G(Rest(s))[Rest(s)]
  <2>1. Pick(s) \in s
    BY <1>4, PickIn
  <2>2. Rest(s) \in SUBSET R /\ Rest(s) # R
    BY <2>1
  <2> DEFINE r == Rest(s)
  <2>3. AddsUp(f, r, G(r))
    BY <1>2, <2>2
  <2>4. CASE r = {}
    BY <2>2, <2>3, <2>4 DEF AddsUp
  <2>5. CASE r # {}
    <3>1. Rest(r) \in SUBSET r /\ Rest(r) \in SUBSET R /\ Rest(r) # R
      BY <2>2, <2>5, PickIn
    <3>2. AddsUp(f, Rest(r), G(Rest(r)))
      BY <1>2, <3>1
    <3>3. IsFiniteSet(r)
      BY <2>2, <1>3, FS_Subset
    <3>4. G(r)[Rest(r)] = G(Rest(r))[Rest(r)]
      <4> HIDE DEF G, r, Rest
      <4>1. \A q \in SUBSET (r \cap Rest(r)) : G(r)[q] = G(Rest(r))[q]
        BY <2>3, <3>2, <3>3, AddsUpUnique
      <4>2. QED
        BY <4>1, <3>1
    <3>5. G(r)[r] = f[Pick(r)] + G(r)[Rest(r)]
      <4> HIDE DEF G
      <4>1. QED
        BY <2>3, <2>5 DEF AddsUp
    <3>6. g[r] = f[Pick(r)] + G(Rest(r))[Rest(r)]
      BY <2>2, <2>5
    <3>7. QED
      BY <3>4, <3>5, <3>6
  <2>6. QED
    BY <2>4, <2>5
<1>5. AddsUp(f, R, g)
  <2> HIDE DEF G
  <2>1. \A s \in SUBSET R :
          g[s] = IF s = {} THEN 0 ELSE f[Pick(s)] + g[s \ {Pick(s)}]
    BY <1>4
  <2>2. g = [s \in SUBSET R |-> g[s]]
    OBVIOUS
  <2> HIDE DEF g
  <2>3. QED
    BY <2>1, <2>2 DEF AddsUp
<1>6. QED
  BY <1>1, <1>5

LEMMA SumAddsUp ==
  ASSUME NEW S, IsFiniteSet(S), NEW f
  PROVE  \E g : AddsUp(f, S, g) /\ Sum(f, S) = g[S]
<1>1. AddsUp(f, S, CHOOSE g : AddsUp(f, S, g))
  BY AddsUpExists
<1>2. QED
  BY <1>1 DEF Sum

(* A sum only depends on the values it adds up.                            *)
LEMMA SumSame ==
  ASSUME NEW S, IsFiniteSet(S), NEW f, NEW h, \A x \in S : f[x] = h[x]
  PROVE  Sum(f, S) = Sum(h, S)
<1>1. PICK g : AddsUp(f, S, g) /\ Sum(f, S) = g[S]
  BY SumAddsUp
<1>2. PICK k : AddsUp(h, S, k) /\ Sum(h, S) = k[S]
  BY SumAddsUp
<1>3. \A s \in SUBSET (S \cap S) : g[s] = k[s]
  BY <1>1, <1>2, AddsUpUnique
<1>4. QED
  BY <1>1, <1>2, <1>3

LEMMA SumEmpty == \A f : Sum(f, {}) = 0
<1> SUFFICES ASSUME NEW f PROVE Sum(f, {}) = 0
  OBVIOUS
<1>1. IsFiniteSet({})
  BY FS_EmptySet
<1>2. PICK g : AddsUp(f, {}, g) /\ Sum(f, {}) = g[{}]
  BY <1>1, SumAddsUp
<1>3. QED
  BY <1>2 DEF AddsUp

LEMMA SumPicks ==
  ASSUME NEW S, IsFiniteSet(S), S # {}, NEW f
  PROVE  Sum(f, S) = f[Pick(S)] + Sum(f, S \ {Pick(S)})
<1>1. PICK g : AddsUp(f, S, g) /\ Sum(f, S) = g[S]
  BY SumAddsUp
<1>2. PICK R : R = S \ {Pick(S)}
  OBVIOUS
<1>3. R \subseteq S /\ IsFiniteSet(R)
  BY <1>2, FS_Subset
<1>4. PICK k : AddsUp(f, R, k) /\ Sum(f, R) = k[R]
  BY <1>3, SumAddsUp
<1>5. \A s \in SUBSET (S \cap R) : g[s] = k[s]
  BY <1>1, <1>4, AddsUpUnique
<1>6. g[R] = k[R]
  BY <1>3, <1>5
<1>7. g[S] = f[Pick(S)] + g[R]
  BY <1>1, <1>2 DEF AddsUp
<1>8. QED
  BY <1>1, <1>2, <1>4, <1>6, <1>7

LEMMA SumType ==
  ASSUME NEW S, IsFiniteSet(S), NEW f, \A x \in S : f[x] \in Nat
  PROVE  Sum(f, S) \in Nat
<1> DEFINE T == {R \in SUBSET S : Sum(f, R) \notin Nat}
<1> SUFFICES ASSUME T # {} PROVE FALSE
  OBVIOUS
<1>1. PICK R \in T : \A U \in T : U \subseteq R => U = R
  <2>1. T \subseteq SUBSET S
    OBVIOUS
  <2> HIDE DEF T
  <2>2. QED
    BY <2>1, LeastSubset
<1>2. IsFiniteSet(R)
  BY <1>1, FS_Subset
<1>3. R # {}
  BY <1>1, SumEmpty
<1>4. Pick(R) \in R
  BY <1>3, PickIn
<1>5. Sum(f, R \ {Pick(R)}) \in Nat
  BY <1>1, <1>4
<1>6. Sum(f, R) = f[Pick(R)] + Sum(f, R \ {Pick(R)})
  BY <1>2, <1>3, SumPicks
<1>7. f[Pick(R)] \in Nat
  BY <1>1, <1>4
<1>8. QED
  BY <1>1, <1>5, <1>6, <1>7

(* The order of the additions does not matter: any element can be split    *)
(* off.                                                                    *)
LEMMA SumPoint ==
  ASSUME NEW S, IsFiniteSet(S), NEW f, \A x \in S : f[x] \in Nat, NEW y \in S
  PROVE  Sum(f, S) = f[y] + Sum(f, S \ {y})
<1> DEFINE T == {R \in SUBSET S :
                   \E x \in R : Sum(f, R) # f[x] + Sum(f, R \ {x})}
<1> SUFFICES ASSUME T # {} PROVE FALSE
  OBVIOUS
<1>1. PICK R \in T : \A U \in T : U \subseteq R => U = R
  <2>1. T \subseteq SUBSET S
    OBVIOUS
  <2> HIDE DEF T
  <2>2. QED
    BY <2>1, LeastSubset
<1>2. PICK x \in R : Sum(f, R) # f[x] + Sum(f, R \ {x})
  BY <1>1
<1>3. PICK z : z = Pick(R)
  OBVIOUS
<1>4. z \in R /\ Sum(f, R) = f[z] + Sum(f, R \ {z})
  BY <1>1, <1>3, FS_Subset, PickIn, SumPicks
<1>5. x # z
  BY <1>2, <1>4
<1>6. Sum(f, R \ {z}) = f[x] + Sum(f, (R \ {z}) \ {x})
  BY <1>1, <1>4, <1>5
<1>7. Sum(f, R \ {x}) = f[z] + Sum(f, (R \ {x}) \ {z})
  BY <1>1, <1>4, <1>5
<1>8. (R \ {z}) \ {x} = (R \ {x}) \ {z}
  OBVIOUS
<1>9. Sum(f, (R \ {x}) \ {z}) \in Nat
  <2>1. PICK U : U = (R \ {x}) \ {z}
    OBVIOUS
  <2>2. U \subseteq S /\ IsFiniteSet(U)
    BY <2>1, FS_Subset
  <2>3. QED
    BY <2>1, <2>2, SumType
<1>10. f[x] \in Nat /\ f[z] \in Nat
  BY <1>4
<1>11. PICK m \in Nat : m = Sum(f, (R \ {x}) \ {z})
  BY <1>9
<1>12. Sum(f, R) = f[z] + (f[x] + m) /\ Sum(f, R \ {x}) = f[z] + m
  BY <1>4, <1>6, <1>7, <1>8, <1>11
<1>13. f[z] + (f[x] + m) = f[x] + (f[z] + m)
  BY <1>10
<1>14. QED
  BY <1>2, <1>12, <1>13

LEMMA SumMonotone ==
  ASSUME NEW S, IsFiniteSet(S), NEW f, NEW h,
         \A x \in S : f[x] \in Nat /\ h[x] \in Nat /\ f[x] <= h[x]
  PROVE  Sum(f, S) <= Sum(h, S)
<1> DEFINE T == {R \in SUBSET S : ~(Sum(f, R) <= Sum(h, R))}
<1> SUFFICES ASSUME T # {} PROVE FALSE
  OBVIOUS
<1>1. PICK R \in T : \A U \in T : U \subseteq R => U = R
  <2>1. T \subseteq SUBSET S
    OBVIOUS
  <2> HIDE DEF T
  <2>2. QED
    BY <2>1, LeastSubset
<1>2. R # {}
  <2> SUFFICES ASSUME R = {} PROVE FALSE
    OBVIOUS
  <2>1. Sum(f, R) = 0 /\ Sum(h, R) = 0
    BY SumEmpty
  <2>2. QED
    BY <1>1, <2>1
<1>3. PICK x \in R : TRUE
  BY <1>2
<1>4. PICK U : U = R \ {x}
  OBVIOUS
<1>5. IsFiniteSet(R) /\ IsFiniteSet(U) /\ U \subseteq R /\ U \subseteq S /\ x \notin U
  BY <1>1, <1>4, FS_Subset
<1>6. Sum(f, U) <= Sum(h, U)
  BY <1>1, <1>3, <1>5
<1>7. Sum(f, R) = f[x] + Sum(f, U) /\ Sum(h, R) = h[x] + Sum(h, U)
  BY <1>1, <1>3, <1>4, <1>5, SumPoint
<1>8. Sum(f, U) \in Nat /\ Sum(h, U) \in Nat
  BY <1>5, SumType
<1>9. f[x] \in Nat /\ h[x] \in Nat /\ f[x] <= h[x]
  BY <1>1, <1>3
<1>10. ~(Sum(f, R) <= Sum(h, R))
  BY <1>1
<1>11. QED
  BY <1>6, <1>7, <1>8, <1>9, <1>10

LEMMA SumUnion ==
  ASSUME NEW A, NEW B, IsFiniteSet(A), IsFiniteSet(B), A \cap B = {},
         NEW f, \A x \in A \cup B : f[x] \in Nat
  PROVE  Sum(f, A \cup B) = Sum(f, A) + Sum(f, B)
<1> DEFINE T == {R \in SUBSET B : Sum(f, A \cup R) # Sum(f, A) + Sum(f, R)}
<1> SUFFICES ASSUME T # {} PROVE FALSE
  OBVIOUS
<1>1. PICK R \in T : \A U \in T : U \subseteq R => U = R
  <2>1. T \subseteq SUBSET B
    OBVIOUS
  <2> HIDE DEF T
  <2>2. QED
    BY <2>1, LeastSubset
<1>2. Sum(f, A) \in Nat
  BY SumType
<1>3. R # {}
  <2> SUFFICES ASSUME R = {} PROVE FALSE
    OBVIOUS
  <2>1. A \cup R = A /\ Sum(f, R) = 0
    BY SumEmpty
  <2>2. QED
    BY <1>1, <1>2, <2>1
<1>4. PICK x \in R : TRUE
  BY <1>3
<1>5. PICK U : U = R \ {x}
  OBVIOUS
<1>6. /\ IsFiniteSet(R) /\ IsFiniteSet(U) /\ IsFiniteSet(A \cup R)
      /\ U \subseteq R /\ U \subseteq B /\ x \notin U /\ R \subseteq B
  BY <1>1, <1>5, FS_Subset, FS_Union
<1>7. Sum(f, A \cup U) = Sum(f, A) + Sum(f, U)
  BY <1>1, <1>4, <1>6
<1>8. Sum(f, R) = f[x] + Sum(f, U)
  BY <1>4, <1>5, <1>6, SumPoint
<1>9. Sum(f, A \cup R) = f[x] + Sum(f, (A \cup R) \ {x})
  <2>1. \A y \in A \cup R : f[y] \in Nat
    BY <1>6
  <2>2. x \in A \cup R
    BY <1>4
  <2>3. PICK V : V = A \cup R
    OBVIOUS
  <2>4. QED
    BY <1>6, <2>1, <2>2, <2>3, SumPoint
<1>10. (A \cup R) \ {x} = A \cup U
  BY <1>4, <1>5, <1>6
<1>11. Sum(f, U) \in Nat
  BY <1>6, SumType
<1>12. f[x] \in Nat
  BY <1>4, <1>6
<1>13. Sum(f, A \cup R) # Sum(f, A) + Sum(f, R)
  BY <1>1
<1>14. PICK m \in Nat, n \in Nat : m = Sum(f, A) /\ n = Sum(f, U)
  BY <1>2, <1>11
<1>15. Sum(f, A \cup R) = f[x] + (m + n) /\ Sum(f, R) = f[x] + n
  BY <1>7, <1>8, <1>9, <1>10, <1>14
<1>16. f[x] + (m + n) = m + (f[x] + n)
  BY <1>12
<1>17. QED
  BY <1>13, <1>14, <1>15, <1>16

LEMMA SumSubset ==
  ASSUME NEW S, IsFiniteSet(S), NEW R, R \subseteq S,
         NEW f, \A x \in S : f[x] \in Nat
  PROVE  Sum(f, R) <= Sum(f, S)
<1>1. PICK U : U = S \ R
  OBVIOUS
<1>2. IsFiniteSet(R) /\ IsFiniteSet(U) /\ R \cap U = {} /\ R \cup U = S
  BY <1>1, FS_Subset
<1>3. Sum(f, S) = Sum(f, R) + Sum(f, U)
  BY <1>2, SumUnion
<1>4. Sum(f, R) \in Nat /\ Sum(f, U) \in Nat
  BY <1>2, SumType
<1>5. QED
  BY <1>3, <1>4

-----------------------------------------------------------------------------
(* Total() adds up each counted quantity.                                  *)
LEMMA TotalIs ==
  ASSUME NEW S, IsFiniteSet(S), NEW a, DOMAIN a = S, NEW q \in Tokens
  PROVE  Total(a)[q] = Sum([t \in S |-> a[t][q]], S)
<1>1. PICK f : f = [t \in S |-> a[t][q]]
  OBVIOUS
<1>2. Total(a)[q] = MapThenSumSet(LAMBDA t : a[t][q], S)
  BY DEF Total
<1>3. PICK g : AddsUp(f, S, g) /\ Sum(f, S) = g[S]
  BY SumAddsUp
<1>4. \A s \in SUBSET S : s # {} => f[Pick(s)] = a[Pick(s)][q]
  BY <1>1, PickIn
<1>5. g = [s \in SUBSET S |->
             IF s = {} THEN 0
             ELSE a[CHOOSE x \in s : TRUE][q] + g[s \ {CHOOSE x \in s : TRUE}]]
  BY <1>3, <1>4 DEF AddsUp, Pick
<1> DEFINE Folds(k) ==
      k = [s \in SUBSET S |->
             IF s = {} THEN 0
             ELSE a[CHOOSE x \in s : TRUE][q] + k[s \ {CHOOSE x \in s : TRUE}]]
<1>6. PICK k : k = CHOOSE i : Folds(i)
  OBVIOUS
<1>7. MapThenSumSet(LAMBDA t : a[t][q], S) = k[S]
  BY <1>6 DEF MapThenSumSet, MapThenFoldSet
<1>8. Folds(k)
  <2>1. Folds(g)
    BY <1>5
  <2> HIDE DEF Folds
  <2>2. QED
    BY <1>6, <2>1
<1>9. AddsUp(f, S, k)
  BY <1>4, <1>8 DEF AddsUp, Pick
<1>10. \A s \in SUBSET (S \cap S) : g[s] = k[s]
  <2> HIDE DEF Folds
  <2>1. QED
    BY <1>3, <1>9, AddsUpUnique
<1>11. g[S] = k[S]
  BY <1>10
<1>12. QED
  BY <1>1, <1>2, <1>3, <1>7, <1>11

LEMMA TotalType ==
  ASSUME NEW S, IsFiniteSet(S), NEW a, DOMAIN a = S,
         \A t \in S : a[t] \in Amounts
  PROVE  Total(a) \in Amounts
<1>1. ASSUME NEW q \in Tokens PROVE Total(a)[q] \in Nat
  <2>1. PICK f : f = [t \in S |-> a[t][q]]
    OBVIOUS
  <2>2. \A t \in S : f[t] \in Nat
    BY <2>1 DEF Amounts
  <2>3. Total(a)[q] = Sum(f, S)
    BY <2>1, TotalIs
  <2>4. QED
    BY <2>2, <2>3, SumType
<1>2. Total(a) = [q \in Tokens |-> Total(a)[q]]
  BY DEF Total
<1>3. QED
  BY <1>1, <1>2 DEF Amounts

LEMMA PlusType ==
  ASSUME NEW x \in Amounts, NEW y \in Amounts
  PROVE  Plus(x, y) \in Amounts
BY DEF Amounts, Plus

-----------------------------------------------------------------------------
(***************************************************************************)
(* The inductive invariant.  A call holds its task from its reservation to *)
(* the settlement: the row is still reserved, because a key is reserved    *)
(* once and only its holder settles it, so no other call writes the row,   *)
(* the mission, its blob or its use.                                       *)
(***************************************************************************)
Asking == {"sent", "timeout", "reject", "used", "seal", "commit"}
WithClaim == Asking \cup {"dispatch"}
Holding == WithClaim \cup {"ensure", "claim", "settle", "unexpected"}
TaskOf(c) == IF c.pc \in WithClaim THEN c.claim.task ELSE c.task

Reserved(t) == ledger[t] # None /\ ledger[t].status = "reserved"
Mine(p, c) == Genuine(c) /\ Fenced(c) /\ tasks[c.task].pid = p

SoundHolds(c) == c.pc \in Holding => TaskOf(c) \in Tasks /\ Reserved(TaskOf(c))
SoundDispatch(p, c) ==
  c.pc = "dispatch" => Mine(p, c.claim) /\ tasks[c.claim.task].state = "claimed"
SoundAsking(p, c) ==
  c.pc \in Asking =>
    Mine(p, c.claim) /\ tasks[c.claim.task].state = "dispatch_recorded"
SoundUsage(c) ==
  c.pc \in (Asking \ {"sent"}) \cup {"settle"} /\ c.usage # None
    => c.usage = spent[TaskOf(c)]
SoundSettle(c) ==
  c.pc = "settle" =>
    /\ c.status # "reserved"
    /\ tasks[c.task].ext = 1
    /\ c.status \in {"succeeded", "outcome_unknown"} => tasks[c.task].state = c.status
    /\ c.usage # None => kept[c.task] = c.usage
SoundUnexpected(c) == c.pc = "unexpected" => tasks[c.task].ext = 1

Sound(p, c) ==
  /\ SoundHolds(c) /\ SoundDispatch(p, c) /\ SoundAsking(p, c)
  /\ SoundUsage(c) /\ SoundSettle(c) /\ SoundUnexpected(c)
CallsSound == \A p \in Pids : Sound(p, call[p])

(* No two calls hold the same task. *)
Apart ==
  \A p, r \in Pids :
    /\ p # r /\ call[p].pc \in Holding /\ call[r].pc \in Holding
    => TaskOf(call[p]) # TaskOf(call[r])

DeadClosed == \A p \in Pids \ live : call[p] = Closed

(* A row that is still reserved has no usage, and the usage of a mission   *)
(* of this version is what it really used.                                 *)
RowTrue(t) ==
  ledger[t] # None =>
    /\ ledger[t].status = "reserved" => ledger[t].usage = None
    /\ t \notin Old /\ ledger[t].usage # None => ledger[t].usage = spent[t]

(* LedgerFollowsJournal and AskedUnderReservation, task by task. *)
FollowsAt(t) ==
  ledger[t] # None =>
    /\ ledger[t].status = "succeeded" => tasks[t].state = "succeeded"
    /\ ledger[t].status = "outcome_unknown" => tasks[t].state = "outcome_unknown"
    /\ ledger[t].status # "reserved" => tasks[t].ext = 1
    /\ ledger[t].usage # None => kept[t] = ledger[t].usage
AskedAt(t) ==
  t \notin Old /\ spent[t] # Zero => ledger[t] # None /\ tasks[t].ext = 1

RowGood(t) == RowTrue(t) /\ FollowsAt(t) /\ AskedAt(t)
RowsGood == \A t \in Tasks : RowGood(t)

(* What earlier versions left stays as it is. *)
PastKept ==
  \A n \in DOMAIN History :
    LET t == History[n].task IN
    /\ n \in DOMAIN attempts
    /\ attempts[n].task = t /\ attempts[n].outcome = History[n].outcome
    /\ FinalRow(tasks[t]) /\ tasks[t].ext = 1
    /\ kept[t] = History[n].usage /\ spent[t] = History[n].spent

IInv ==
  /\ JournalInv /\ TypeOK
  /\ CallsSound /\ Apart /\ DeadClosed
  /\ RowsGood /\ PastKept

-----------------------------------------------------------------------------
(* Calls.                                                                  *)

LEMMA CallShapes ==
  ASSUME NEW c \in Calls
  PROVE  /\ c.pc = "closed" => c = Closed
         /\ c.pc # "closed" => c.auth \in Auths
         /\ c.pc \in WithClaim => c.claim \in Claims /\ c.claim.task \in Tasks
         /\ c.pc \in {"keys", "missions", "mapped", "reserve", "ensure", "claim",
                      "settle", "unexpected"} => c.task \in Tasks
         /\ c.pc \in {"keys", "missions", "mapped", "reserve"} => c.bound \in Amounts
         /\ c.pc = "missions" => c.keys \subseteq Tasks
         /\ c.pc \in {"mapped", "reserve"} => c.historic \in Historic
         /\ c.pc \in (Asking \ {"sent"}) \cup {"settle"} => c.usage \in Amounts \cup {None}
         /\ c.pc = "seal" => c.known \in Amounts
         /\ c.pc = "settle" => c.status \in Statuses
         /\ c.pc = "mapped" => c = [pc |-> "mapped", auth |-> c.auth, task |-> c.task,
                                    bound |-> c.bound, historic |-> c.historic]
         /\ c.pc = "ensure" => c = [pc |-> "ensure", auth |-> c.auth, task |-> c.task]
         /\ c.pc = "dispatch" => c = [pc |-> "dispatch", auth |-> c.auth, claim |-> c.claim]
BY DEF Calls, Closed, Asking, WithClaim, Claims

LEMMA CallsMade ==
  /\ Closed \in Calls
  /\ \A a \in Auths :
       /\ Idle(a) \in Calls
       /\ \A t \in Tasks :
            /\ [pc |-> "ensure", auth |-> a, task |-> t] \in Calls
            /\ [pc |-> "claim", auth |-> a, task |-> t] \in Calls
            /\ [pc |-> "unexpected", auth |-> a, task |-> t] \in Calls
            /\ \A b \in Amounts :
                 /\ [pc |-> "keys", auth |-> a, task |-> t, bound |-> b] \in Calls
                 /\ \A k \in SUBSET Tasks :
                      [pc |-> "missions", auth |-> a, task |-> t, bound |-> b,
                       keys |-> k] \in Calls
                 /\ \A h \in Historic :
                      /\ [pc |-> "mapped", auth |-> a, task |-> t, bound |-> b,
                          historic |-> h] \in Calls
                      /\ [pc |-> "reserve", auth |-> a, task |-> t, bound |-> b,
                          historic |-> h] \in Calls
            /\ \A s \in Statuses, u \in Amounts \cup {None} :
                 [pc |-> "settle", auth |-> a, task |-> t, status |-> s,
                  usage |-> u] \in Calls
       /\ \A c \in Claims :
            /\ [pc |-> "dispatch", auth |-> a, claim |-> c] \in Calls
            /\ [pc |-> "sent", auth |-> a, claim |-> c] \in Calls
            /\ \A u \in Amounts \cup {None} :
                 /\ \A pc \in {"timeout", "reject", "used"} :
                      [pc |-> pc, auth |-> a, claim |-> c, usage |-> u] \in Calls
                 /\ \A k \in SUBSET Tasks, n \in Amounts :
                      [pc |-> "seal", auth |-> a, claim |-> c, usage |-> u,
                       keys |-> k, known |-> n] \in Calls
                 /\ \A x \in BOOLEAN :
                      [pc |-> "commit", auth |-> a, claim |-> c, usage |-> u,
                       exceeded |-> x] \in Calls
BY DEF Calls, Idle

LEMMA CallFacts ==
  ASSUME IInv, NEW p \in Pids
  PROVE  /\ call[p] \in Calls /\ DOMAIN call = Pids
         /\ Sound(p, call[p])
         /\ p \notin live => call[p] = Closed
BY DEF IInv, TypeOK, CallsSound, DeadClosed

(* The missions of earlier versions. *)
LEMMA PastFacts ==
  /\ Len(History) \in Nat /\ DOMAIN History = 1..Len(History)
  /\ \A n \in DOMAIN History :
       /\ History[n].task \in Tasks
       /\ History[n].outcome \in {"succeeded", "failed", "outcome_unknown"}
       /\ History[n].usage \in Amounts \cup {None}
       /\ History[n].spent \in Amounts
       /\ History[n].scope \in Scopes \cup {None}
       /\ History[n].reserved \in Amounts
  /\ Old \subseteq Tasks
<1>1. Len(History) \in Nat /\ DOMAIN History = 1..Len(History)
  BY HistoryAssumption
<1>2. \A n \in DOMAIN History : History[n] \in Missions
  BY <1>1, HistoryAssumption
<1>3. QED
  BY <1>1, <1>2 DEF Missions, Amounts, Old

LEMMA TableFacts ==
  ASSUME IInv
  PROVE  /\ DOMAIN ledger = Tasks /\ DOMAIN kept = Tasks /\ DOMAIN spent = Tasks
         /\ \A t \in Tasks : ledger[t] # None => ledger[t] \in LedgerRow
         /\ \A t \in Tasks : kept[t] # None => kept[t] \in Amounts
         /\ \A t \in Tasks : spent[t] \in Amounts
         /\ Old \subseteq Tasks
<1>1. Old \subseteq Tasks
  BY PastFacts
<1>2. QED
  BY <1>1 DEF IInv, TypeOK

-----------------------------------------------------------------------------
(* A step of one process.                                                  *)

Moves(p, d) == Preserved /\ call' = [call EXCEPT ![p] = d]

(* A dispatch on record stays on record. *)
ExtKept == \A t \in Tasks : tasks[t].ext = 1 => tasks'[t].ext = 1

SameRow(t) == ledger'[t] = ledger[t] /\ kept'[t] = kept[t] /\ spent'[t] = spent[t]

(* What another call holds is not touched. *)
OthersKept(p) ==
  \A r \in Pids \ {p} : call[r].pc \in Holding =>
    /\ SameRow(TaskOf(call[r]))
    /\ call[r].pc \in WithClaim => tasks'[TaskOf(call[r])] = tasks[TaskOf(call[r])]

(* A call elsewhere stays sound. *)
LEMMA OthersStay ==
  ASSUME IInv, NEW p \in Pids, NEW d, Moves(p, d), ExtKept, OthersKept(p),
         NEW r \in Pids, r # p
  PROVE  call'[r] = call[r] /\ Sound(r, call[r])'
<1>1. PICK c : c = call[r]
  OBVIOUS
<1>2. call'[r] = c /\ c \in Calls /\ Sound(r, c)
  BY <1>1, CallFacts DEF Moves
<1>3. Preserved /\ TerminalStep /\ AttemptsGrow
  BY DEF Moves, Preserved
<1>4. PICK t : t = TaskOf(c)
  OBVIOUS
<1>5. ASSUME c.pc \in Holding
      PROVE  /\ t \in Tasks /\ SameRow(t) /\ Reserved(t)
             /\ c.pc \in WithClaim => tasks'[t] = tasks[t]
  BY <1>1, <1>2, <1>4, <1>5 DEF OthersKept, Sound, SoundHolds
<1>6. SoundHolds(c)'
  BY <1>4, <1>5 DEF SoundHolds, SameRow, Reserved
<1>7. ASSUME c.pc \in WithClaim, Mine(r, c.claim)
      PROVE  Mine(r, c.claim)' /\ tasks'[c.claim.task] = tasks[c.claim.task]
  <2>1. Genuine(c.claim)'
    BY <1>3, <1>7, GenuinePersists DEF Mine
  <2>2. tasks'[c.claim.task] = tasks[c.claim.task]
    BY <1>4, <1>5, <1>7 DEF Holding, TaskOf
  <2>3. QED
    BY <1>7, <2>1, <2>2 DEF Mine, Fenced
<1>8. SoundDispatch(r, c)' /\ SoundAsking(r, c)'
  BY <1>2, <1>7 DEF Sound, SoundDispatch, SoundAsking, WithClaim
<1>9. SoundUsage(c)'
  BY <1>2, <1>4, <1>5 DEF Sound, SoundUsage, Holding, WithClaim, SameRow
<1>10. SoundSettle(c)'
  <2> SUFFICES ASSUME c.pc = "settle"
               PROVE  /\ c.status # "reserved"
                      /\ tasks'[c.task].ext = 1
                      /\ c.status \in {"succeeded", "outcome_unknown"} =>
                           tasks'[c.task].state = c.status
                      /\ c.usage # None => kept'[c.task] = c.usage
    BY DEF SoundSettle
  <2>1. c.task = t /\ t \in Tasks /\ SameRow(t)
    BY <1>4, <1>5 DEF Holding, TaskOf, WithClaim, Asking
  <2>2. /\ c.status # "reserved" /\ tasks[t].ext = 1
        /\ c.status \in {"succeeded", "outcome_unknown"} => tasks[t].state = c.status
        /\ c.usage # None => kept[t] = c.usage
    BY <1>2, <2>1 DEF Sound, SoundSettle
  <2>3. tasks[t].state \in {"succeeded", "outcome_unknown"} => tasks'[t] = tasks[t]
    BY <1>3, <2>1 DEF TerminalStep, FinalRow
  <2>4. QED
    BY <2>1, <2>2, <2>3 DEF SameRow, ExtKept
<1>11. SoundUnexpected(c)'
  BY <1>2, <1>4, <1>5 DEF Sound, SoundUnexpected, ExtKept, Holding, TaskOf, WithClaim, Asking
<1>12. Sound(r, c)'
  BY <1>6, <1>8, <1>9, <1>10, <1>11 DEF Sound
<1>13. QED
  BY <1>1, <1>2, <1>12

(* A row that is not written stays good. *)
LEMMA RowStays ==
  ASSUME IInv, Preserved, ExtKept, NEW t \in Tasks, SameRow(t)
  PROVE  RowGood(t)'
<1>1. RowTrue(t) /\ FollowsAt(t) /\ AskedAt(t)
  BY DEF IInv, RowsGood, RowGood
<1>2. tasks[t].state \in {"succeeded", "outcome_unknown"} => tasks'[t] = tasks[t]
  BY DEF Preserved, TerminalStep, FinalRow
<1>3. RowTrue(t)'
  BY <1>1 DEF RowTrue, SameRow
<1>4. FollowsAt(t)'
  BY <1>1, <1>2 DEF FollowsAt, SameRow, ExtKept
<1>5. AskedAt(t)'
  BY <1>1 DEF AskedAt, SameRow, ExtKept
<1>6. QED
  BY <1>3, <1>4, <1>5 DEF RowGood

LEMMA PastStays ==
  ASSUME IInv, Preserved,
         \A t \in Old : kept'[t] = kept[t] /\ spent'[t] = spent[t]
  PROVE  PastKept'
<1>1. ASSUME NEW n \in DOMAIN History, NEW t, t = History[n].task
      PROVE  /\ n \in DOMAIN attempts'
             /\ attempts'[n].task = t /\ attempts'[n].outcome = History[n].outcome
             /\ FinalRow(tasks'[t]) /\ tasks'[t].ext = 1
             /\ kept'[t] = History[n].usage /\ spent'[t] = History[n].spent
  <2>1. /\ n \in DOMAIN attempts
        /\ attempts[n].task = t /\ attempts[n].outcome = History[n].outcome
        /\ FinalRow(tasks[t]) /\ tasks[t].ext = 1
        /\ kept[t] = History[n].usage /\ spent[t] = History[n].spent
    BY <1>1 DEF IInv, PastKept
  <2>2. t \in Old /\ t \in Tasks
    BY <1>1, TableFacts DEF Old
  <2>3. History[n].outcome \in {"succeeded", "failed", "outcome_unknown"}
    BY <1>1, PastFacts
  <2>4. tasks'[t] = tasks[t] /\ n \in DOMAIN attempts' /\ attempts'[n] = attempts[n]
    BY <2>1, <2>2, <2>3 DEF Preserved, TerminalStep
  <2>5. QED
    BY <2>1, <2>2, <2>4
<1>2. QED
  BY <1>1 DEF PastKept, FinalRow

TablesTyped ==
  /\ live \subseteq Pids
  /\ ledger \in [Tasks -> LedgerRow \cup {None}]
  /\ kept \in [Tasks -> Amounts \cup {None}]
  /\ marked \subseteq Tasks
  /\ spent \in [Tasks -> Amounts]

(* Only p may come or go. *)
OthersRun(p) == \A r \in Pids \ {p} : r \in live => r \in live'

(* The task of the new call is the one held so far, or had no row. *)
Takes(p, d) ==
  d.pc \in Holding =>
    \/ call[p].pc \in Holding /\ TaskOf(d) = TaskOf(call[p])
    \/ ledger[TaskOf(d)] = None

LEMMA Assemble ==
  ASSUME IInv, NEW p \in Pids, NEW d \in Calls, Moves(p, d), ExtKept, OthersKept(p),
         OthersRun(p), p \notin live' => d = Closed, TablesTyped',
         RowsGood', PastKept', Takes(p, d),
         call'[p] = d => Sound(p, call[p])'
  PROVE  IInv'
<1>1. \A r \in Pids : r # p => call'[r] = call[r] /\ Sound(r, call[r])'
  BY OthersStay
<1>2. call'[p] = d /\ call' \in [Pids -> Calls]
  BY DEF Moves, IInv, TypeOK
<1>3. CallsSound'
  BY <1>1, <1>2 DEF CallsSound
<1>4. JournalInv' /\ JournalTypeOK'
  BY DEF Moves, Preserved, JournalInv
<1>5. TypeOK'
  BY <1>2, <1>4 DEF TablesTyped, TypeOK
<1>6. ASSUME NEW r \in Pids, r # p, call[r].pc \in Holding, d.pc \in Holding
      PROVE  TaskOf(d) # TaskOf(call[r])
  <2>1. Reserved(TaskOf(call[r]))
    BY <1>6, CallFacts DEF Sound, SoundHolds
  <2>2. call[p].pc \in Holding => TaskOf(call[p]) # TaskOf(call[r])
    BY <1>6 DEF IInv, Apart
  <2>3. QED
    BY <1>6, <2>1, <2>2 DEF Takes, Reserved
<1>7. Apart'
  <2> SUFFICES ASSUME NEW q \in Pids, NEW r \in Pids, q # r,
                      call'[q].pc \in Holding, call'[r].pc \in Holding
               PROVE  TaskOf(call'[q]) # TaskOf(call'[r])
    BY DEF Apart, TaskOf
  <2>1. CASE q # p /\ r # p
    BY <2>1, <1>1 DEF IInv, Apart
  <2>2. CASE q = p
    BY <2>2, <1>1, <1>2, <1>6
  <2>3. CASE r = p
    BY <2>3, <1>1, <1>2, <1>6
  <2>4. QED
    BY <2>1, <2>2, <2>3
<1>8. DeadClosed'
  BY <1>1, <1>2, CallFacts DEF DeadClosed, OthersRun
<1>9. QED
  BY <1>3, <1>4, <1>5, <1>7, <1>8 DEF IInv

(* A step that writes no table. *)
LEMMA QuietMoves ==
  ASSUME IInv, NEW p \in Pids, p \in live, NEW d \in Calls, Goto(p, d), Takes(p, d),
         UNCHANGED <<journalVars, live, ledger, kept, marked, spent>>,
         call'[p] = d => Sound(p, call[p])'
  PROVE  IInv'
<1>1. Preserved /\ tasks' = tasks
  BY UnchangedPreserves DEF IInv, journalVars
<1>2. Moves(p, d) /\ ExtKept
  BY <1>1 DEF Moves, Goto, ExtKept
<1>3. \A t \in Tasks : SameRow(t)
  BY DEF SameRow
<1>4. RowsGood' /\ PastKept'
  <2>1. \A t \in Tasks : RowGood(t)'
    BY <1>1, <1>2, <1>3, RowStays
  <2>2. PastKept'
    BY <1>1, PastStays
  <2>3. QED
    BY <2>1, <2>2 DEF RowsGood
<1>5. OthersKept(p)
  BY <1>1 DEF OthersKept, SameRow
<1>6. OthersRun(p) /\ p \in live' /\ TablesTyped'
  BY DEF OthersRun, TablesTyped, IInv, TypeOK
<1>7. QED
  BY <1>2, <1>4, <1>5, <1>6, Assemble

(* A step of the holder of t that writes nothing but what belongs to t. *)
OnlyAt(t) == \A u \in Tasks \ {t} : tasks'[u] = tasks[u] /\ SameRow(u)

LEMMA HolderMoves ==
  ASSUME IInv, NEW p \in Pids, p \in live, call[p].pc \in Holding,
         NEW t, t = TaskOf(call[p]),
         NEW d \in Calls, Moves(p, d), d.pc \in Holding => TaskOf(d) = t,
         OnlyAt(t), tasks[t].ext = 1 => tasks'[t].ext = 1,
         RowGood(t)', t \in Old => kept'[t] = kept[t] /\ spent'[t] = spent[t],
         live' = live, TablesTyped',
         call'[p] = d => Sound(p, call[p])'
  PROVE  IInv'
<1>1. t \in Tasks
  BY CallFacts DEF Sound, SoundHolds
<1>2. ExtKept
  BY DEF ExtKept, OnlyAt
<1>3. RowsGood'
  <2>1. ASSUME NEW u \in Tasks, u # t PROVE RowGood(u)'
    <3>1. SameRow(u) /\ Preserved
      BY <2>1 DEF OnlyAt, Moves
    <3>2. QED
      BY <3>1, <1>2, RowStays
  <2>2. QED
    BY <2>1 DEF RowsGood
<1>4. PastKept'
  <2>1. \A u \in Old : kept'[u] = kept[u] /\ spent'[u] = spent[u]
    BY TableFacts DEF OnlyAt, SameRow
  <2>2. QED
    BY <2>1, PastStays DEF Moves
<1>5. OthersKept(p)
  <2>1. ASSUME NEW r \in Pids \ {p}, call[r].pc \in Holding
        PROVE  TaskOf(call[r]) \in Tasks \ {t}
    BY <2>1, CallFacts DEF IInv, Apart, Sound, SoundHolds
  <2>2. QED
    BY <2>1 DEF OthersKept, OnlyAt
<1>6. OthersRun(p) /\ p \in live' /\ Takes(p, d)
  BY DEF OthersRun, Takes
<1>7. QED
  BY <1>2, <1>3, <1>4, <1>5, <1>6, Assemble

(* A call that holds nothing has nothing to be sound about. *)
LEMMA FreeSound ==
  ASSUME NEW p, NEW c, c.pc \notin Holding
  PROVE  Sound(p, c)'
BY DEF Sound, SoundHolds, SoundDispatch, SoundAsking, SoundUsage, SoundSettle,
       SoundUnexpected, Holding, WithClaim, Asking

LEMMA IdleFree ==
  ASSUME NEW a
  PROVE  Idle(a).pc = "idle" /\ Idle(a).pc \notin Holding
BY DEF Idle, Holding, WithClaim, Asking

-----------------------------------------------------------------------------
(* Processes.                                                              *)

LEMMA LifeStep ==
  ASSUME IInv, NEW p \in Pids, Start(p) \/ Exit(p)
  PROVE  IInv'
<1>1. PICK d : d = Closed
  OBVIOUS
<1>2. d \in Calls /\ d.pc \notin Holding
  BY <1>1, CallsMade DEF Closed, Holding, WithClaim, Asking
<1>3. /\ UNCHANGED <<journalVars, ledger, kept, marked, spent>> /\ Goto(p, d)
      /\ live' \subseteq Pids /\ \A r \in Pids \ {p} : r \in live <=> r \in live'
  BY <1>1 DEF Start, Exit, IInv, TypeOK
<1>4. Preserved /\ tasks' = tasks
  BY <1>3, UnchangedPreserves DEF IInv, journalVars
<1>5. Moves(p, d) /\ ExtKept
  BY <1>3, <1>4 DEF Moves, Goto, ExtKept
<1>6. \A t \in Tasks : SameRow(t)
  BY <1>3 DEF SameRow
<1>7. RowsGood' /\ PastKept'
  <2>1. \A t \in Tasks : RowGood(t)'
    BY <1>4, <1>5, <1>6, RowStays
  <2>2. PastKept'
    BY <1>3, <1>4, PastStays
  <2>3. QED
    BY <2>1, <2>2 DEF RowsGood
<1>8. OthersKept(p)
  BY <1>3, <1>4 DEF OthersKept, SameRow
<1>9. OthersRun(p) /\ TablesTyped' /\ Takes(p, d)
  BY <1>2, <1>3 DEF OthersRun, TablesTyped, IInv, TypeOK, Takes
<1>10. call'[p] = d => Sound(p, call[p])'
  BY <1>2, FreeSound
<1>11. QED
  BY <1>1, <1>2, <1>5, <1>7, <1>8, <1>9, <1>10, Assemble

(* Recovery freezes only dispatches of processes that have exited, and so  *)
(* none that a running call still asks about.                              *)
LEMMA OpenStep ==
  ASSUME IInv, NEW p \in Pids, Open(p)
  PROVE  IInv'
<1>1. PICK exited \in ReportedExited : RecoverDispatchedUnknown(Tasks, exited, FALSE)
  BY DEF Open
<1>2. PICK a \in Auths : Goto(p, Idle(a))
  BY DEF Open
<1>3. p \in live /\ UNCHANGED <<live, ledger, kept, marked, spent>>
  BY DEF Open, At
<1>4. PICK d : d = Idle(a)
  OBVIOUS
<1>5. d \in Calls /\ d.pc \notin Holding
  BY <1>4, CallsMade, IdleFree
<1>6. Preserved
  BY <1>1, RecoverPreserves DEF IInv
<1>7. /\ \A t \in Tasks : tasks'[t].ext = tasks[t].ext
      /\ \A t \in Tasks :
           \/ tasks'[t] = tasks[t]
           \/ tasks[t].state = "dispatch_recorded" /\ tasks[t].pid \in exited
  <2>1. PICK lost : lost = Recoverable(Tasks, exited, FALSE)
    OBVIOUS
  <2>2. tasks' = [t \in Tasks |->
           IF t \in lost THEN [tasks[t] EXCEPT !.state = "outcome_unknown"]
                         ELSE tasks[t]]
    BY <1>1, <2>1 DEF RecoverDispatchedUnknown
  <2>3. \A t \in lost : tasks[t].state = "dispatch_recorded" /\ tasks[t].pid \in exited
    BY <2>1 DEF Recoverable
  <2>4. \A t \in Tasks : tasks[t] \in Row
    BY RowFacts DEF IInv
  <2>5. \A t \in Tasks : tasks'[t].ext = tasks[t].ext
    BY <2>2, <2>4 DEF Row
  <2>6. QED
    BY <2>2, <2>3, <2>5
<1>8. Moves(p, d) /\ ExtKept
  BY <1>2, <1>4, <1>6, <1>7 DEF Moves, Goto, ExtKept
<1>9. \A t \in Tasks : SameRow(t)
  BY <1>3 DEF SameRow
<1>10. RowsGood' /\ PastKept'
  <2>1. \A t \in Tasks : RowGood(t)'
    BY <1>6, <1>8, <1>9, RowStays
  <2>2. PastKept'
    BY <1>3, <1>6, PastStays
  <2>3. QED
    BY <2>1, <2>2 DEF RowsGood
<1>11. OthersKept(p)
  <2> SUFFICES ASSUME NEW r \in Pids \ {p}, call[r].pc \in Holding
               PROVE  /\ SameRow(TaskOf(call[r]))
                      /\ call[r].pc \in WithClaim =>
                           tasks'[TaskOf(call[r])] = tasks[TaskOf(call[r])]
    BY DEF OthersKept
  <2>1. TaskOf(call[r]) \in Tasks /\ Sound(r, call[r])
    BY CallFacts DEF Sound, SoundHolds
  <2>2. r \in live
    BY CallFacts DEF Closed, Holding, WithClaim, Asking
  <2>3. ASSUME call[r].pc \in WithClaim
        PROVE  tasks'[TaskOf(call[r])] = tasks[TaskOf(call[r])]
    <3>1. /\ TaskOf(call[r]) = call[r].claim.task
          /\ \/ tasks[TaskOf(call[r])].state = "claimed"
             \/ tasks[TaskOf(call[r])].pid = r
      BY <2>1, <2>3 DEF Sound, SoundDispatch, SoundAsking, Mine, TaskOf, WithClaim
    <3>2. r \notin exited
      BY <2>2 DEF ReportedExited
    <3>3. QED
      BY <1>7, <2>1, <3>1, <3>2
  <2>4. QED
    BY <1>9, <2>1, <2>3
<1>12. OthersRun(p) /\ TablesTyped' /\ Takes(p, d) /\ p \in live'
  BY <1>3, <1>5 DEF OthersRun, TablesTyped, IInv, TypeOK, Takes
<1>13. call'[p] = d => Sound(p, call[p])'
  BY <1>5, FreeSound
<1>14. QED
  BY <1>5, <1>8, <1>10, <1>11, <1>12, <1>13, Assemble

-----------------------------------------------------------------------------
(* Reading the past.                                                       *)

LEMMA AuthFacts ==
  ASSUME NEW a \in Auths
  PROVE  /\ a.scope \in Scopes /\ a.mapped \subseteq Scopes
         /\ a.requestCap \in Nat /\ a.caps \in Amounts
         /\ a.bounds \subseteq Amounts
         /\ \A t \in Tasks : a.prior[t] \in Amounts \cup {None}
BY AuthsAssumption DEF Amounts

LEMMA SubsetOfTasks ==
  ASSUME NEW S, S \subseteq Tasks
  PROVE  IsFiniteSet(S) /\ Cardinality(S) \in Nat
BY TasksAssumption, FS_Subset, FS_CardinalityType

LEMMA ChargeType ==
  ASSUME IInv, NEW t \in InLedger
  PROVE  t \in Tasks /\ Charge(t) \in Amounts
<1>1. t \in Tasks /\ ledger[t] \in LedgerRow
  BY TableFacts DEF InLedger
<1>2. QED
  BY <1>1 DEF LedgerRow, Charge

LEMMA ChargedType ==
  ASSUME IInv, NEW rows, rows \subseteq InLedger
  PROVE  Charged(rows) \in Amounts
<1>1. PICK f : f = [t \in rows |-> Charge(t)]
  OBVIOUS
<1>2. DOMAIN f = rows /\ \A t \in rows : f[t] \in Amounts
  BY <1>1, ChargeType
<1>3. IsFiniteSet(rows)
  BY SubsetOfTasks DEF InLedger
<1>4. Total(f) \in Amounts
  BY <1>2, <1>3, TotalType
<1>5. QED
  BY <1>1, <1>4 DEF Charged

(* The items _historic_usage_items returns. *)
Items(a, found) ==
  [t \in found \cup {u \in Tasks : a.prior[u] # None} |->
     IF t \in found /\ kept[t] # None THEN kept[t] ELSE a.prior[t]]

LEMMA ItemsType ==
  ASSUME IInv, NEW a \in Auths, NEW found, found \subseteq Tasks,
         Unproven(a, found) = {}
  PROVE  /\ Cardinality(DOMAIN Items(a, found)) \in Nat
         /\ Total(Items(a, found)) \in Amounts
<1>1. PICK f : f = Items(a, found)
  OBVIOUS
<1>2. DOMAIN f \subseteq Tasks
  BY <1>1 DEF Items
<1>3. \A t \in DOMAIN f : f[t] \in Amounts
  BY <1>1, <1>2, TableFacts, AuthFacts DEF Items, Unproven
<1>4. IsFiniteSet(DOMAIN f) /\ Cardinality(DOMAIN f) \in Nat
  BY <1>2, SubsetOfTasks
<1>5. Total(f) \in Amounts
  BY <1>3, <1>4, TotalType
<1>6. QED
  BY <1>1, <1>4, <1>5

LEMMA DispatchStep ==
  ASSUME IInv, NEW p \in Pids, Dispatch(p)
  PROVE  IInv'
<1>1. p \in live /\ call[p].pc = "idle" /\ Auth(p) \in Auths
  BY CallFacts, CallShapes DEF Dispatch, At, Auth
<1>2. PICK t \in Tasks, b \in Auth(p).bounds :
        Goto(p, [pc |-> "keys", auth |-> Auth(p), task |-> t, bound |-> b])
  BY DEF Dispatch
<1>3. PICK d : d = [pc |-> "keys", auth |-> Auth(p), task |-> t, bound |-> b]
  OBVIOUS
<1>4. b \in Amounts
  BY <1>1, AuthFacts
<1>5. d \in Calls
  BY <1>1, <1>3, <1>4, CallsMade
<1>6. d.pc \notin Holding
  BY <1>3 DEF Holding, WithClaim, Asking
<1>7. Takes(p, d) /\ (call'[p] = d => Sound(p, call[p])')
  BY <1>6, FreeSound DEF Takes
<1>8. Goto(p, d) /\ UNCHANGED <<journalVars, live, ledger, kept, marked, spent>>
  BY <1>2, <1>3 DEF Dispatch
<1>9. QED
  BY <1>1, <1>5, <1>7, <1>8, QuietMoves

LEMMA ReadKeysStep ==
  ASSUME IInv, NEW p \in Pids, ReadKeys(p)
  PROVE  IInv'
<1>1. /\ p \in live /\ Auth(p) \in Auths
      /\ call[p].task \in Tasks /\ call[p].bound \in Amounts
  BY CallFacts, CallShapes DEF ReadKeys, At, Auth
<1>2. PICK d : d = [pc |-> "missions", auth |-> Auth(p), task |-> call[p].task,
                    bound |-> call[p].bound, keys |-> InLedger]
  OBVIOUS
<1>3. d \in Calls
  BY <1>1, <1>2, CallsMade DEF InLedger
<1>4. d.pc \notin Holding
  BY <1>2 DEF Holding, WithClaim, Asking
<1>5. Takes(p, d) /\ (call'[p] = d => Sound(p, call[p])')
  BY <1>4, FreeSound DEF Takes
<1>6. Goto(p, d) /\ UNCHANGED <<journalVars, live, ledger, kept, marked, spent>>
  BY <1>2 DEF ReadKeys
<1>7. QED
  BY <1>1, <1>3, <1>5, <1>6, QuietMoves

(* What ReadMissions leaves behind when everything is accounted for. *)
LEMMA ReadMissionsGoes ==
  ASSUME NEW p, ReadMissions(p), NEW a, a = Auth(p),
         NEW found, found = Dispatched \ call[p].keys
  PROVE  \/ Unproven(a, found) # {} /\ Goto(p, Idle(a))
         \/ /\ Unproven(a, found) = {}
            /\ Goto(p, [pc |-> "mapped", auth |-> a, task |-> call[p].task,
                        bound |-> call[p].bound,
                        historic |-> [requests |-> Cardinality(DOMAIN Items(a, found)),
                                      tokens |-> Total(Items(a, found))]])
BY DEF ReadMissions, Items

LEMMA ReadMissionsStep ==
  ASSUME IInv, NEW p \in Pids, ReadMissions(p)
  PROVE  IInv'
<1>1. /\ p \in live /\ Auth(p) \in Auths
      /\ call[p].task \in Tasks /\ call[p].bound \in Amounts
      /\ UNCHANGED <<journalVars, live, ledger, kept, marked, spent>>
  BY CallFacts, CallShapes DEF ReadMissions, At, Auth
<1>2. PICK a : a = Auth(p)
  OBVIOUS
<1>3. PICK found : found = Dispatched \ call[p].keys
  OBVIOUS
<1>4. found \subseteq Tasks
  BY <1>3 DEF Dispatched
<1>5. CASE Goto(p, Idle(a))
  <2>1. PICK d : d = Idle(a)
    OBVIOUS
  <2>2. d \in Calls /\ d.pc \notin Holding /\ Goto(p, d)
    BY <1>1, <1>2, <1>5, <2>1, CallsMade, IdleFree
  <2>3. Takes(p, d) /\ (call'[p] = d => Sound(p, call[p])')
    BY <2>2, FreeSound DEF Takes
  <2>4. QED
    BY <1>1, <2>2, <2>3, QuietMoves
<1>6. ASSUME Unproven(a, found) = {},
             NEW h, h = [requests |-> Cardinality(DOMAIN Items(a, found)),
                         tokens |-> Total(Items(a, found))],
             NEW d, d = [pc |-> "mapped", auth |-> a, task |-> call[p].task,
                         bound |-> call[p].bound, historic |-> h],
             Goto(p, d)
      PROVE  IInv'
  <2>1. h \in Historic
    BY <1>1, <1>2, <1>4, <1>6, ItemsType DEF Historic
  <2>2. d \in Calls
    BY <1>1, <1>2, <1>6, <2>1, CallsMade
  <2>3. d.pc \notin Holding
    BY <1>6 DEF Holding, WithClaim, Asking
  <2>4. Takes(p, d) /\ (call'[p] = d => Sound(p, call[p])')
    BY <2>3, FreeSound DEF Takes
  <2>5. QED
    BY <1>1, <1>6, <2>2, <2>4, QuietMoves
<1>7. QED
  BY <1>2, <1>3, <1>5, <1>6, ReadMissionsGoes

LEMMA ReadMappedStep ==
  ASSUME IInv, NEW p \in Pids, ReadMapped(p)
  PROVE  IInv'
<1>1. /\ p \in live /\ Auth(p) \in Auths /\ call[p] \in Calls
      /\ call[p].pc = "mapped"
      /\ call[p].task \in Tasks /\ call[p].bound \in Amounts
      /\ call[p].historic \in Historic
      /\ UNCHANGED <<journalVars, live, ledger, kept, marked, spent>>
  BY CallFacts, CallShapes DEF ReadMapped, At, Auth
<1>2. PICK rows : rows = MappedRows(Auth(p))
  OBVIOUS
<1>3. rows \subseteq InLedger /\ Charged(rows) \in Amounts /\ Cardinality(rows) \in Nat
  BY <1>2, ChargedType, SubsetOfTasks DEF MappedRows, InLedger
<1>4. PICK h : h = [requests |-> call[p].historic.requests + Cardinality(rows),
                    tokens |-> Plus(call[p].historic.tokens, Charged(rows))]
  OBVIOUS
<1>5. h \in Historic
  BY <1>1, <1>3, <1>4, PlusType DEF Historic
<1>6. PICK d : d = [call[p] EXCEPT !.pc = "reserve", !.historic = h]
  OBVIOUS
<1>7. d = [pc |-> "reserve", auth |-> Auth(p), task |-> call[p].task,
           bound |-> call[p].bound, historic |-> h]
  <2>1. call[p] = [pc |-> "mapped", auth |-> Auth(p), task |-> call[p].task,
                   bound |-> call[p].bound, historic |-> call[p].historic]
    BY <1>1, CallShapes DEF Auth
  <2>2. PICK e : e = [call[p] EXCEPT !.pc = "reserve"]
    OBVIOUS
  <2>3. e = [pc |-> "reserve", auth |-> Auth(p), task |-> call[p].task,
             bound |-> call[p].bound, historic |-> call[p].historic]
    BY <2>1, <2>2
  <2>4. d = [e EXCEPT !.historic = h]
    BY <1>6, <2>2
  <2>5. QED
    BY <2>3, <2>4
<1>8. d \in Calls
  BY <1>1, <1>5, <1>7, CallsMade
<1>9. d.pc \notin Holding
  BY <1>7 DEF Holding, WithClaim, Asking
<1>10. Takes(p, d) /\ (call'[p] = d => Sound(p, call[p])')
  BY <1>9, FreeSound DEF Takes
<1>11. Goto(p, d)
  BY <1>2, <1>4, <1>6 DEF ReadMapped
<1>12. QED
  BY <1>1, <1>8, <1>10, <1>11, QuietMoves

-----------------------------------------------------------------------------
(* Reserving, claiming and recording the dispatch.                         *)

LEMMA ReserveStep ==
  ASSUME IInv, NEW p \in Pids, ReserveBudget(p)
  PROVE  IInv'
<1>1. /\ p \in live /\ Auth(p) \in Auths /\ call[p].pc = "reserve"
      /\ call[p].task \in Tasks /\ call[p].bound \in Amounts
      /\ UNCHANGED <<journalVars, live, kept, marked, spent>>
  BY CallFacts, CallShapes DEF ReserveBudget, At, Auth
<1>2. PICK t \in Tasks : t = call[p].task
  BY <1>1
<1>3. PICK a \in Auths : a = Auth(p)
  BY <1>1
<1>4. CASE Goto(p, Idle(a)) /\ UNCHANGED ledger
  <2>1. PICK d : d = Idle(a)
    OBVIOUS
  <2>2. d \in Calls /\ d.pc \notin Holding /\ Goto(p, d)
    BY <1>4, <2>1, CallsMade, IdleFree
  <2>3. Takes(p, d) /\ (call'[p] = d => Sound(p, call[p])')
    BY <2>2, FreeSound DEF Takes
  <2>4. QED
    BY <1>1, <1>4, <2>2, <2>3, QuietMoves
<1>5. CASE /\ Reserve(a, t, call[p].bound, call[p].historic)
           /\ Goto(p, [pc |-> "ensure", auth |-> a, task |-> t])
  <2>1. PICK d : d = [pc |-> "ensure", auth |-> a, task |-> t]
    OBVIOUS
  <2>2. PICK row : row = [status |-> "reserved", scope |-> a.scope,
                          reserved |-> call[p].bound, usage |-> None]
    OBVIOUS
  <2>3. row \in LedgerRow /\ row # None
    BY <1>1, <2>2, AuthFacts, NullAssumption DEF LedgerRow, Statuses
  <2>4. ledger[t] = None /\ ledger' = [ledger EXCEPT ![t] = row]
    BY <1>5, <2>2 DEF Reserve
  <2>5. ledger'[t] = row /\ \A u \in Tasks : u # t => SameRow(u)
    BY <1>1, <2>4, TableFacts DEF SameRow
  <2>6. d \in Calls /\ d.pc = "ensure" /\ TaskOf(d) = t
    BY <2>1, CallsMade DEF TaskOf, WithClaim, Asking
  <2>7. Preserved /\ tasks' = tasks
    BY <1>1, UnchangedPreserves DEF IInv, journalVars
  <2>8. Moves(p, d) /\ ExtKept
    BY <1>5, <2>1, <2>7 DEF Moves, Goto, ExtKept
  <2>9. RowGood(t)'
    <3>1. AskedAt(t)'
      BY <1>1, <2>4 DEF IInv, RowsGood, RowGood, AskedAt
    <3>2. RowTrue(t)' /\ FollowsAt(t)'
      BY <2>2, <2>5 DEF RowTrue, FollowsAt
    <3>3. QED
      BY <3>1, <3>2 DEF RowGood
  <2>10. RowsGood'
    <3>1. ASSUME NEW u \in Tasks, u # t PROVE RowGood(u)'
      <4>1. SameRow(u)
        BY <2>5, <3>1
      <4>2. QED
        BY <2>7, <2>8, <4>1, RowStays
    <3>2. QED
      BY <2>9, <3>1 DEF RowsGood
  <2>11. PastKept'
    BY <1>1, <2>7, PastStays
  <2>12. OthersKept(p)
    <3>1. ASSUME NEW r \in Pids \ {p}, call[r].pc \in Holding
          PROVE  TaskOf(call[r]) \in Tasks /\ TaskOf(call[r]) # t
      BY <2>4, <3>1, CallFacts DEF Sound, SoundHolds, Reserved
    <3>2. QED
      BY <2>5, <2>7, <3>1 DEF OthersKept
  <2>13. TablesTyped'
    BY <1>1, <2>3, <2>4 DEF TablesTyped, IInv, TypeOK
  <2>14. OthersRun(p) /\ p \in live' /\ Takes(p, d)
    BY <1>1, <2>4, <2>6 DEF OthersRun, Takes
  <2>15. call'[p] = d => Sound(p, call[p])'
    <3> SUFFICES ASSUME call'[p] = d PROVE Sound(p, call[p])'
      OBVIOUS
    <3>1. call'[p].pc = "ensure" /\ TaskOf(call[p])' = t
      BY <2>6 DEF TaskOf
    <3>2. SoundHolds(call[p])'
      BY <2>2, <2>3, <2>5, <3>1 DEF SoundHolds, Reserved
    <3>3. QED
      BY <3>1, <3>2 DEF Sound, SoundDispatch, SoundAsking, SoundUsage, SoundSettle,
         SoundUnexpected, Asking
  <2>16. QED
    BY <2>6, <2>8, <2>10, <2>11, <2>12, <2>13, <2>14, <2>15, Assemble
<1>6. QED
  BY <1>2, <1>3, <1>4, <1>5 DEF ReserveBudget

OnlyTask(t) == \A u \in Tasks \ {t} : tasks'[u] = tasks[u]

(* What a call that holds t knows of it. *)
LEMMA HolderFacts ==
  ASSUME IInv, NEW p \in Pids, call[p].pc \in Holding, NEW t, t = TaskOf(call[p])
  PROVE  /\ t \in Tasks /\ ledger[t] \in LedgerRow /\ ledger[t] # None
         /\ ledger[t].status = "reserved" /\ ledger[t].usage = None
         /\ RowGood(t) /\ call[p] \in Calls /\ call[p].auth \in Auths
         /\ Sound(p, call[p]) /\ p \in live
<1>1. call[p] \in Calls /\ Sound(p, call[p]) /\ t \in Tasks /\ Reserved(t)
  BY CallFacts DEF Sound, SoundHolds
<1>2. p \in live
  BY CallFacts DEF Closed, Holding, WithClaim, Asking
<1>3. RowGood(t) /\ RowTrue(t)
  BY <1>1 DEF IInv, RowsGood, RowGood
<1>4. call[p].auth \in Auths
  BY <1>1, CallShapes DEF Holding, WithClaim, Asking
<1>5. QED
  BY <1>1, <1>2, <1>3, <1>4, TableFacts DEF Reserved, RowTrue

(* A step of the holder in the task ledger alone. *)
LEMMA JournalMoves ==
  ASSUME IInv, NEW p \in Pids, call[p].pc \in Holding, NEW t, t = TaskOf(call[p]),
         NEW d \in Calls, Goto(p, d), d.pc \in Holding => TaskOf(d) = t,
         Preserved, OnlyTask(t), tasks[t].ext = 1 => tasks'[t].ext = 1,
         UNCHANGED <<live, ledger, kept, marked, spent>>,
         call'[p] = d => Sound(p, call[p])'
  PROVE  IInv'
<1>1. t \in Tasks /\ p \in live
  BY HolderFacts
<1>2. \A u \in Tasks : SameRow(u)
  BY DEF SameRow
<1>3. OnlyAt(t) /\ ExtKept
  BY <1>2 DEF OnlyAt, OnlyTask, ExtKept
<1>4. RowGood(t)'
  BY <1>1, <1>2, <1>3, RowStays
<1>5. TablesTyped'
  BY DEF TablesTyped, IInv, TypeOK
<1>6. Moves(p, d)
  BY DEF Moves, Goto
<1>7. QED
  BY <1>1, <1>3, <1>4, <1>5, <1>6, HolderMoves

LEMMA EnsureStep ==
  ASSUME IInv, NEW p \in Pids, Ensure(p)
  PROVE  IInv'
<1>1. call[p].pc = "ensure" /\ call[p].pc \in Holding
  BY DEF Ensure, At, Holding
<1>2. PICK t : t = TaskOf(call[p])
  OBVIOUS
<1>3. /\ t \in Tasks /\ t = call[p].task /\ call[p] \in Calls /\ Auth(p) \in Auths
      /\ Sound(p, call[p])
  BY <1>1, <1>2, HolderFacts DEF TaskOf, WithClaim, Asking, Auth
<1>4. PICK d : d = [call[p] EXCEPT !.pc = "claim"]
  OBVIOUS
<1>5. d = [pc |-> "claim", auth |-> Auth(p), task |-> t]
  <2>1. call[p] = [pc |-> "ensure", auth |-> Auth(p), task |-> t]
    BY <1>1, <1>3, CallShapes DEF Auth
  <2>2. QED
    BY <1>4, <2>1
<1>6. d \in Calls /\ d.pc = "claim" /\ TaskOf(d) = t
  BY <1>3, <1>5, CallsMade DEF TaskOf, WithClaim, Asking
<1>7. /\ EnsureTask(t, InputDigest[t]) /\ InputDigest[t] \in Inputs
      /\ Goto(p, d) /\ UNCHANGED <<live, ledger, kept, marked, spent>>
  BY <1>3, <1>4, InputDigestAssumption DEF Ensure
<1>8. Preserved
  BY <1>3, <1>7, EnsurePreserves DEF IInv
<1>9. OnlyTask(t) /\ tasks'[t] = RowOrPlanned(t, InputDigest[t])
  BY <1>3, <1>7 DEF EnsureTask, IInv, JournalInv, JournalTypeOK, OnlyTask
<1>10. tasks[t].ext = 1 => tasks'[t].ext = 1
  BY <1>3, <1>9 DEF RowOrPlanned, IInv, JournalInv, DispatchedOnce
<1>11. call'[p] = d => Sound(p, call[p])'
  <2> SUFFICES ASSUME call'[p] = d PROVE Sound(p, call[p])'
    OBVIOUS
  <2>1. call'[p].pc = "claim" /\ TaskOf(call[p])' = t
    BY <1>6 DEF TaskOf
  <2>2. SoundHolds(call[p])'
    BY <1>1, <1>2, <1>3, <1>7, <2>1 DEF SoundHolds, Reserved, Sound
  <2>3. QED
    BY <2>1, <2>2 DEF Sound, SoundDispatch, SoundAsking, SoundUsage, SoundSettle,
       SoundUnexpected, Asking
<1>12. QED
  BY <1>1, <1>2, <1>6, <1>7, <1>8, <1>9, <1>10, <1>11, JournalMoves

(* The claim of the gateway is its own and names the current attempt.      *)
LEMMA Claimed ==
  ASSUME IInv, NEW p \in Pids, NEW t \in Tasks, NEW i, i = InputDigest[t],
         Claim(t, Gateway, i, p), NEW c, c = IssuedClaim(t, Gateway, i)
  PROVE  /\ Preserved /\ OnlyTask(t) /\ tasks[t].ext # 1
         /\ c \in Claims /\ c.task = t /\ Mine(p, c)'
         /\ tasks'[t].state = "claimed"
<1>1. Gateway \in Workers /\ i \in Inputs /\ JournalInv
  BY GatewayAssumption, InputDigestAssumption DEF IInv
<1>2. Preserved
  BY <1>1, ClaimPreserves
<1>3. Planned(i) \in Row
  BY <1>1, MaxTokensAssumption DEF Planned, Row, States
<1>4. PICK row \in Row : /\ Issue(t, row, Gateway, i, p)
                         /\ row.input = i /\ row.ext = 0
                         /\ row = RowOrPlanned(t, i)
  BY <1>1, <1>3, RowFacts DEF RowOrPlanned, Claim, CanClaim
<1>5. tasks[t].ext # 1
  BY <1>1, <1>4 DEF RowOrPlanned, JournalInv, DispatchedOnce
<1>6. Genuine(c)'
  BY <1>1, <1>4, IssuedGenuine
<1>7. /\ OnlyTask(t)
      /\ tasks'[t].state = "claimed" /\ tasks'[t].token = lastToken + 1
      /\ tasks'[t].worker = Gateway /\ tasks'[t].pid = p /\ tasks'[t].input = i
  BY <1>1, <1>4 DEF Issue, JournalInv, JournalTypeOK, Row, OnlyTask
<1>8. c.task = t /\ c.token = lastToken + 1 /\ c.worker = Gateway /\ c.input = i
  BY DEF IssuedClaim
<1>9. Mine(p, c)' /\ c \in Claims
  BY <1>6, <1>7, <1>8 DEF Mine, Fenced, Genuine
<1>10. QED
  BY <1>2, <1>5, <1>7, <1>8, <1>9

LEMMA ClaimStep ==
  ASSUME IInv, NEW p \in Pids, ClaimTask(p)
  PROVE  IInv'
<1>1. call[p].pc = "claim" /\ call[p].pc \in Holding
  BY DEF ClaimTask, At, Holding
<1>2. PICK t : t = TaskOf(call[p])
  OBVIOUS
<1>3. /\ t \in Tasks /\ t = call[p].task /\ call[p] \in Calls /\ Auth(p) \in Auths
      /\ Sound(p, call[p]) /\ p \in live
  BY <1>1, <1>2, HolderFacts DEF TaskOf, WithClaim, Asking, Auth
<1>4. UNCHANGED <<live, ledger, kept, marked, spent>>
  BY DEF ClaimTask
<1>5. PICK i : i = InputDigest[t]
  OBVIOUS
<1>6. CASE Goto(p, Idle(Auth(p))) /\ UNCHANGED journalVars
  <2>1. PICK d : d = Idle(Auth(p))
    OBVIOUS
  <2>2. d \in Calls /\ d.pc \notin Holding /\ Goto(p, d)
    BY <1>3, <1>6, <2>1, CallsMade, IdleFree
  <2>3. Takes(p, d) /\ (call'[p] = d => Sound(p, call[p])')
    BY <2>2, FreeSound DEF Takes
  <2>4. QED
    BY <1>3, <1>4, <1>6, <2>2, <2>3, QuietMoves
<1>7. ASSUME Claim(t, Gateway, i, p),
             NEW c, c = IssuedClaim(t, Gateway, i),
             NEW d, d = [pc |-> "dispatch", auth |-> Auth(p), claim |-> c],
             Goto(p, d)
      PROVE  IInv'
  <2>1. /\ Preserved /\ OnlyTask(t) /\ tasks[t].ext # 1
        /\ c \in Claims /\ c.task = t /\ Mine(p, c)'
        /\ tasks'[t].state = "claimed"
    BY <1>3, <1>5, <1>7, Claimed
  <2>2. d \in Calls /\ d.pc = "dispatch" /\ d.claim = c /\ TaskOf(d) = t
    BY <1>3, <1>7, <2>1, CallsMade DEF TaskOf, WithClaim
  <2>3. call'[p] = d => Sound(p, call[p])'
    <3> SUFFICES ASSUME call'[p] = d PROVE Sound(p, call[p])'
      OBVIOUS
    <3>1. call'[p].pc = "dispatch" /\ call'[p].claim = c /\ TaskOf(call[p])' = t
      BY <2>2 DEF TaskOf
    <3>2. SoundHolds(call[p])'
      BY <1>1, <1>2, <1>3, <1>4, <3>1 DEF SoundHolds, Reserved, Sound
    <3>3. SoundDispatch(p, call[p])'
      BY <2>1, <3>1 DEF SoundDispatch
    <3>4. QED
      BY <3>1, <3>2, <3>3 DEF Sound, SoundAsking, SoundUsage, SoundSettle,
         SoundUnexpected, Asking
  <2>4. QED
    BY <1>1, <1>2, <1>4, <1>7, <2>1, <2>2, <2>3, JournalMoves
<1>8. QED
  BY <1>3, <1>5, <1>6, <1>7 DEF ClaimTask

LEMMA SendStep ==
  ASSUME IInv, NEW p \in Pids, Send(p)
  PROVE  IInv'
<1>1. call[p].pc = "dispatch" /\ call[p].pc \in Holding
  BY DEF Send, At, Holding, WithClaim
<1>2. PICK c : c = call[p].claim
  OBVIOUS
<1>3. PICK t : t = TaskOf(call[p])
  OBVIOUS
<1>4. /\ t \in Tasks /\ t = c.task /\ call[p] \in Calls /\ Auth(p) \in Auths
      /\ Sound(p, call[p])
  BY <1>1, <1>2, <1>3, HolderFacts DEF TaskOf, WithClaim, Auth
<1>5. Mine(p, c) /\ c \in Claims
  BY <1>1, <1>2, <1>4, CallShapes DEF Sound, SoundDispatch, WithClaim
<1>6. PICK d : d = [call[p] EXCEPT !.pc = "sent"]
  OBVIOUS
<1>7. d = [pc |-> "sent", auth |-> Auth(p), claim |-> c]
  <2>1. call[p] = [pc |-> "dispatch", auth |-> Auth(p), claim |-> c]
    BY <1>1, <1>2, <1>4, CallShapes DEF Auth
  <2>2. QED
    BY <1>6, <2>1
<1>8. d \in Calls /\ d.pc = "sent" /\ d.claim = c /\ TaskOf(d) = t
  BY <1>4, <1>5, <1>7, CallsMade DEF TaskOf, WithClaim, Asking
<1>9. /\ RecordDispatch(c) /\ Goto(p, d)
      /\ UNCHANGED <<live, ledger, kept, marked, spent>>
  BY <1>2, <1>6 DEF Send
<1>10. Preserved
  BY <1>5, <1>9, DispatchPreserves DEF IInv, Mine
<1>11. /\ OnlyTask(t) /\ tasks[t].ext = 0
       /\ tasks'[t].state = "dispatch_recorded"
       /\ tasks'[t].token = tasks[t].token /\ tasks'[t].worker = tasks[t].worker
       /\ tasks'[t].input = tasks[t].input /\ tasks'[t].pid = tasks[t].pid
  <2>1. tasks[t] \in Row /\ tasks[t].ext = 0 /\ DOMAIN tasks = Tasks
    BY <1>4, <1>9, RowFacts DEF RecordDispatch, IInv, JournalInv, DispatchedOnce, JournalTypeOK
  <2>2. tasks' = [tasks EXCEPT ![t] = [tasks[t] EXCEPT !.state = "dispatch_recorded",
                                                       !.ext = tasks[t].ext + 1]]
    BY <1>4, <1>9 DEF RecordDispatch
  <2>3. QED
    BY <1>4, <2>1, <2>2 DEF Row, OnlyTask
<1>12. Mine(p, c)'
  <2>1. Genuine(c)'
    BY <1>5, <1>10, GenuinePersists DEF Mine, Preserved
  <2>2. QED
    BY <1>4, <1>5, <1>11, <2>1 DEF Mine, Fenced
<1>13. call'[p] = d => Sound(p, call[p])'
  <2> SUFFICES ASSUME call'[p] = d PROVE Sound(p, call[p])'
    OBVIOUS
  <2>1. call'[p].pc = "sent" /\ call'[p].claim = c /\ TaskOf(call[p])' = t
    BY <1>8 DEF TaskOf
  <2>2. SoundHolds(call[p])'
    BY <1>1, <1>3, <1>4, <1>9, <2>1 DEF SoundHolds, Reserved, Sound
  <2>3. SoundAsking(p, call[p])'
    BY <1>4, <1>11, <1>12, <2>1 DEF SoundAsking
  <2>4. QED
    BY <2>1, <2>2, <2>3 DEF Sound, SoundDispatch, SoundUsage, SoundSettle,
       SoundUnexpected, Asking
<1>14. QED
  BY <1>1, <1>3, <1>8, <1>9, <1>10, <1>11, <1>13, JournalMoves

-----------------------------------------------------------------------------
(* The provider's answer.                                                  *)

LEMMA AskingFacts ==
  ASSUME IInv, NEW p \in Pids, call[p].pc \in Asking, NEW c, c = call[p].claim
  PROVE  /\ call[p].pc \in Holding /\ TaskOf(call[p]) = c.task
         /\ c \in Claims /\ c.task \in Tasks /\ Mine(p, c) /\ Genuine(c)
         /\ tasks[c.task].state = "dispatch_recorded" /\ tasks[c.task].ext = 1
         /\ c.task \notin Old /\ Reserved(c.task)
         /\ Auth(p) \in Auths /\ p \in live /\ call[p] \in Calls
<1>1. call[p].pc \in Holding /\ TaskOf(call[p]) = c.task
  BY DEF Holding, WithClaim, TaskOf
<1>2. /\ c.task \in Tasks /\ Reserved(c.task) /\ Auth(p) \in Auths /\ p \in live
      /\ call[p] \in Calls /\ Sound(p, call[p])
  BY <1>1, HolderFacts DEF Auth, Reserved
<1>3. c \in Claims
  BY <1>2, CallShapes DEF WithClaim
<1>4. Mine(p, c) /\ tasks[c.task].state = "dispatch_recorded"
  BY <1>2 DEF Sound, SoundAsking
<1>5. tasks[c.task].ext = 1
  BY <1>2, <1>4 DEF IInv, JournalInv, DispatchedOnce
<1>6. c.task \notin Old
  BY <1>4 DEF IInv, PastKept, FinalRow, Old
<1>7. QED
  BY <1>1, <1>2, <1>3, <1>4, <1>5, <1>6 DEF Mine

(* The call goes on with its claim, and the task ledger does not move.     *)
LEMMA StillAsking ==
  ASSUME IInv, NEW p \in Pids, call[p].pc \in Asking, NEW c, c = call[p].claim,
         UNCHANGED <<journalVars, ledger>>, NEW d, call'[p] = d,
         d.pc \in Asking \ {"sent"}, d.claim = c,
         d.usage # None => d.usage = spent'[c.task]
  PROVE  Sound(p, call[p])'
<1>1. /\ c.task \in Tasks /\ Mine(p, c) /\ Reserved(c.task)
      /\ tasks[c.task].state = "dispatch_recorded"
  BY AskingFacts
<1>2. tasks' = tasks /\ attempts' = attempts
  BY DEF journalVars
<1>3. Mine(p, c)'
  BY <1>1, <1>2 DEF Mine, Genuine, Fenced
<1>4. call'[p].pc \in Asking \ {"sent"} /\ call'[p].claim = c /\ TaskOf(call[p])' = c.task
  BY DEF TaskOf, WithClaim
<1>5. SoundHolds(call[p])'
  BY <1>1, <1>4 DEF SoundHolds, Reserved
<1>6. SoundAsking(p, call[p])'
  BY <1>1, <1>2, <1>3, <1>4 DEF SoundAsking
<1>7. SoundUsage(call[p])'
  BY <1>4 DEF SoundUsage
<1>8. QED
  BY <1>4, <1>5, <1>6, <1>7 DEF Sound, SoundDispatch, SoundSettle, SoundUnexpected, Asking

LEMMA TransportStep ==
  ASSUME IInv, NEW p \in Pids, Transport(p)
  PROVE  IInv'
<1>1. call[p].pc = "sent" /\ call[p].pc \in Asking
  BY DEF Transport, At, Asking
<1>2. PICK c : c = call[p].claim
  OBVIOUS
<1>3. /\ call[p].pc \in Holding /\ TaskOf(call[p]) = c.task
      /\ c \in Claims /\ c.task \in Tasks /\ tasks[c.task].ext = 1
      /\ c.task \notin Old /\ Reserved(c.task) /\ Auth(p) \in Auths /\ p \in live
  BY <1>1, <1>2, AskingFacts
<1>4. UNCHANGED <<journalVars, live, ledger, kept, marked>>
  BY DEF Transport
<1>5. PICK u \in Usages \cup {Zero}, pc \in {"timeout", "reject", "used"},
           usage \in Usages \cup {Zero, None} :
        /\ usage \in {u, None}
        /\ spent' = [spent EXCEPT ![c.task] = u]
        /\ Goto(p, [pc |-> pc, auth |-> Auth(p), claim |-> c, usage |-> usage])
  BY <1>2 DEF Transport
<1>6. PICK d : d = [pc |-> pc, auth |-> Auth(p), claim |-> c, usage |-> usage]
  OBVIOUS
<1>7. u \in Amounts
  BY UsagesAssumption DEF Amounts, Zero
<1>8. d \in Calls
  <2>1. usage \in Amounts \cup {None}
    BY <1>5, <1>7
  <2>2. Auth(p) \in Auths /\ c \in Claims
    BY <1>3
  <2>3. QED
    BY <1>6, <2>1, <2>2, CallsMade
<1>9. /\ d.pc \in Asking \ {"sent"} /\ d.claim = c /\ TaskOf(d) = c.task
      /\ d.usage = usage
  BY <1>6 DEF Asking, TaskOf, WithClaim
<1>10. Preserved /\ tasks' = tasks
  BY <1>4, UnchangedPreserves DEF IInv, journalVars
<1>11. Moves(p, d)
  BY <1>5, <1>6, <1>10 DEF Moves, Goto
<1>12. spent'[c.task] = u /\ OnlyAt(c.task)
  BY <1>3, <1>4, <1>5, <1>10, TableFacts DEF OnlyAt, SameRow
<1>13. RowGood(c.task)'
  <2>1. RowTrue(c.task) /\ FollowsAt(c.task)
    BY <1>3 DEF IInv, RowsGood, RowGood
  <2>2. AskedAt(c.task)'
    BY <1>3, <1>4, <1>10 DEF AskedAt, Reserved
  <2>3. QED
    BY <1>3, <1>4, <1>10, <2>1, <2>2 DEF RowGood, RowTrue, FollowsAt, Reserved
<1>14. TablesTyped'
  BY <1>4, <1>5, <1>7 DEF TablesTyped, IInv, TypeOK
<1>15. call'[p] = d => Sound(p, call[p])'
  <2>1. d.usage # None => d.usage = spent'[c.task]
    BY <1>5, <1>9, <1>12
  <2>2. UNCHANGED <<journalVars, ledger>>
    BY <1>4
  <2>3. QED
    BY <1>1, <1>2, <1>9, <2>1, <2>2, StillAsking
<1>16. QED
  BY <1>3, <1>4, <1>8, <1>9, <1>10, <1>11, <1>12, <1>13, <1>14, <1>15, HolderMoves

(* The call closes the attempt of its claim.                               *)
LEMMA ClosesTask ==
  ASSUME IInv, NEW p \in Pids, NEW c, Mine(p, c), c.task \in Tasks,
         tasks[c.task].ext = 1, NEW s \in States,
         \/ RecordFailure(c, s)
         \/ s = "succeeded" /\ \E o \in Outputs : Commit(c, o)
  PROVE  /\ Preserved /\ OnlyTask(c.task)
         /\ tasks'[c.task].state = s /\ tasks'[c.task].ext = 1
<1>1. JournalInv /\ Genuine(c) /\ tasks \in [Tasks -> Row]
  BY DEF IInv, Mine, JournalInv, JournalTypeOK
<1>2. Preserved
  BY <1>1, CommitPreserves, FailurePreserves
<1>3. CASE RecordFailure(c, s)
  BY <1>1, <1>2, <1>3 DEF RecordFailure, Row, OnlyTask
<1>4. CASE s = "succeeded" /\ \E o \in Outputs : Commit(c, o)
  <2>1. PICK o \in Outputs : tasks' = [tasks EXCEPT ![c.task] =
               [tasks[c.task] EXCEPT !.state = "succeeded", !.output = o]]
    BY <1>4 DEF Commit
  <2>2. QED
    BY <1>1, <1>2, <1>4, <2>1 DEF Row, OnlyTask
<1>5. QED
  BY <1>3, <1>4

LEMMA SettleSound ==
  ASSUME IInv, NEW p \in Pids, NEW d, call'[p] = d, d.pc = "settle",
         NEW t, d.task = t, t \in Tasks, Reserved(t)', d.status # "reserved",
         tasks'[t].ext = 1,
         d.status \in {"succeeded", "outcome_unknown"} => tasks'[t].state = d.status,
         d.usage # None => kept'[t] = d.usage /\ d.usage = spent'[t]
  PROVE  Sound(p, call[p])'
<1>1. call'[p].pc = "settle" /\ TaskOf(call[p])' = t
  BY DEF TaskOf, WithClaim, Asking
<1>2. SoundHolds(call[p])' /\ SoundSettle(call[p])' /\ SoundUsage(call[p])'
  BY <1>1 DEF SoundHolds, SoundSettle, SoundUsage
<1>3. QED
  BY <1>1, <1>2 DEF Sound, SoundDispatch, SoundAsking, SoundUnexpected, Asking

LEMMA TimeoutStep ==
  ASSUME IInv, NEW p \in Pids, RecordTimeout(p)
  PROVE  IInv'
<1>1. call[p].pc = "timeout" /\ call[p].pc \in Asking
  BY DEF RecordTimeout, At, Asking
<1>2. PICK c : c = call[p].claim
  OBVIOUS
<1>3. PICK t : t = c.task
  OBVIOUS
<1>4. /\ call[p].pc \in Holding /\ TaskOf(call[p]) = t /\ t \in Tasks
      /\ Mine(p, c) /\ tasks[t].ext = 1 /\ Reserved(t) /\ Auth(p) \in Auths
  BY <1>1, <1>2, <1>3, AskingFacts
<1>5. PICK d : d = [pc |-> "settle", auth |-> Auth(p), task |-> t,
                    status |-> "outcome_unknown", usage |-> None]
  OBVIOUS
<1>6. /\ RecordFailure(c, "outcome_unknown") /\ Goto(p, d)
      /\ UNCHANGED <<live, ledger, kept, marked, spent>>
  BY <1>2, <1>3, <1>5 DEF RecordTimeout, ToSettle
<1>7. /\ d \in Calls /\ d.pc = "settle" /\ TaskOf(d) = t /\ d.task = t
      /\ d.status = "outcome_unknown" /\ d.usage = None
  BY <1>4, <1>5, CallsMade DEF Statuses, TaskOf, WithClaim, Asking
<1>8. /\ Preserved /\ OnlyTask(t)
      /\ tasks'[t].state = "outcome_unknown" /\ tasks'[t].ext = 1
  BY <1>3, <1>4, <1>6, ClosesTask DEF States
<1>9. Reserved(t)'
  BY <1>4, <1>6 DEF Reserved
<1>10. call'[p] = d => Sound(p, call[p])'
  BY <1>4, <1>7, <1>8, <1>9, SettleSound
<1>11. QED
  BY <1>4, <1>6, <1>7, <1>8, <1>10, JournalMoves

(* A closing step that keeps the use the call was told. *)
LEMMA KeepsUse ==
  ASSUME IInv, NEW p \in Pids, call[p].pc \in Asking \ {"sent"},
         NEW c, c = call[p].claim, NEW u, u = call[p].usage,
         NEW s \in {"failed", "succeeded"},
         \/ RecordFailure(c, s)
         \/ s = "succeeded" /\ \E o \in Outputs : Commit(c, o),
         kept' = [kept EXCEPT ![c.task] = u], marked' \subseteq Tasks,
         ToSettle(p, s, u), UNCHANGED <<live, ledger, spent>>
  PROVE  IInv'
<1>1. PICK t : t = c.task
  OBVIOUS
<1>2. /\ call[p].pc \in Holding /\ TaskOf(call[p]) = t /\ t \in Tasks
      /\ Mine(p, c) /\ tasks[t].ext = 1 /\ Reserved(t) /\ Auth(p) \in Auths
      /\ t \notin Old /\ call[p] \in Calls /\ p \in live
  BY <1>1, AskingFacts
<1>3. u \in Amounts \cup {None} /\ (u # None => u = spent[t])
  <2>1. u \in Amounts \cup {None}
    BY <1>2, CallShapes
  <2>2. Sound(p, call[p])
    BY CallFacts
  <2>3. QED
    BY <1>2, <2>1, <2>2 DEF Sound, SoundUsage
<1>4. PICK d : d = [pc |-> "settle", auth |-> Auth(p), task |-> t,
                    status |-> s, usage |-> u]
  OBVIOUS
<1>5. Goto(p, d)
  BY <1>1, <1>4 DEF ToSettle
<1>6. /\ d \in Calls /\ d.pc = "settle" /\ TaskOf(d) = t /\ d.task = t
      /\ d.status = s /\ d.usage = u
  BY <1>2, <1>3, <1>4, CallsMade DEF Statuses, TaskOf, WithClaim, Asking
<1>7. /\ Preserved /\ OnlyTask(t)
      /\ tasks'[t].state = s /\ tasks'[t].ext = 1
  BY <1>1, <1>2, ClosesTask DEF States
<1>8. Reserved(t)'
  BY <1>2 DEF Reserved
<1>9. kept'[t] = u /\ OnlyAt(t)
  BY <1>1, <1>2, <1>7, TableFacts DEF OnlyAt, OnlyTask, SameRow
<1>10. RowGood(t)'
  <2>1. RowTrue(t) /\ FollowsAt(t)
    BY <1>2 DEF IInv, RowsGood, RowGood
  <2>2. ledger'[t].status = "reserved" /\ ledger'[t].usage = None /\ ledger'[t] # None
    BY <1>2, <2>1 DEF Reserved, RowTrue
  <2>3. QED
    BY <1>7, <2>2 DEF RowGood, RowTrue, FollowsAt, AskedAt
<1>11. TablesTyped'
  BY <1>1, <1>3 DEF TablesTyped, IInv, TypeOK
<1>12. call'[p] = d => Sound(p, call[p])'
  <2>1. u # None => kept'[t] = u /\ u = spent'[t]
    BY <1>3, <1>9
  <2>2. s # "reserved" /\ (s \in {"succeeded", "outcome_unknown"} => tasks'[t].state = s)
    BY <1>7
  <2>3. QED
    BY <1>2, <1>6, <1>7, <1>8, <2>1, <2>2, SettleSound
<1>13. Moves(p, d)
  BY <1>5, <1>7 DEF Moves, Goto
<1>14. QED
  BY <1>2, <1>6, <1>7, <1>9, <1>10, <1>11, <1>12, <1>13, HolderMoves

LEMMA RejectStep ==
  ASSUME IInv, NEW p \in Pids, RecordReject(p)
  PROVE  IInv'
<1>1. call[p].pc \in Asking \ {"sent"}
  BY DEF RecordReject, At, Asking
<1>2. marked' \subseteq Tasks
  BY DEF RecordReject, IInv, TypeOK
<1>3. QED
  BY <1>1, <1>2, KeepsUse DEF RecordReject

LEMMA SealLedgerStep ==
  ASSUME IInv, NEW p \in Pids, SealLedger(p)
  PROVE  IInv'
<1>1. call[p].pc = "used" /\ call[p].pc \in Asking
  BY DEF SealLedger, At, Asking
<1>2. PICK c : c = call[p].claim
  OBVIOUS
<1>3. /\ call[p].pc \in Holding /\ TaskOf(call[p]) = c.task /\ c \in Claims
      /\ Auth(p) \in Auths /\ p \in live /\ call[p] \in Calls /\ Sound(p, call[p])
  BY <1>1, <1>2, AskingFacts, CallFacts
<1>4. PICK known : known = Charged({t \in InLedger : ledger[t].usage # None})
  OBVIOUS
<1>5. PICK d : d = [pc |-> "seal", auth |-> Auth(p), claim |-> c,
                    usage |-> call[p].usage, keys |-> InLedger, known |-> known]
  OBVIOUS
<1>6. Goto(p, d) /\ UNCHANGED <<journalVars, live, ledger, kept, marked, spent>>
  BY <1>2, <1>4, <1>5 DEF SealLedger
<1>7. known \in Amounts /\ call[p].usage \in Amounts \cup {None} /\ InLedger \in SUBSET Tasks
  BY <1>1, <1>3, <1>4, ChargedType, CallShapes DEF InLedger, Asking
<1>8. /\ d \in Calls /\ d.pc \in Asking \ {"sent"} /\ d.claim = c /\ TaskOf(d) = c.task
      /\ d.usage = call[p].usage
  BY <1>3, <1>5, <1>7, CallsMade DEF TaskOf, WithClaim, Asking
<1>9. d.usage # None => d.usage = spent'[c.task]
  BY <1>1, <1>3, <1>6, <1>8 DEF Sound, SoundUsage, Asking
<1>10. Takes(p, d) /\ (call'[p] = d => Sound(p, call[p])')
  BY <1>1, <1>2, <1>3, <1>6, <1>8, <1>9, StillAsking DEF Takes
<1>11. QED
  BY <1>3, <1>6, <1>8, <1>10, QuietMoves

LEMMA SealMissionsStep ==
  ASSUME IInv, NEW p \in Pids, SealMissions(p)
  PROVE  IInv'
<1>1. call[p].pc = "seal" /\ call[p].pc \in Asking
  BY DEF SealMissions, At, Asking
<1>2. PICK c : c = call[p].claim
  OBVIOUS
<1>3. /\ call[p].pc \in Holding /\ TaskOf(call[p]) = c.task /\ c \in Claims
      /\ Auth(p) \in Auths /\ p \in live /\ call[p] \in Calls /\ Sound(p, call[p])
  BY <1>1, <1>2, AskingFacts, CallFacts
<1>4. PICK x \in BOOLEAN :
        Goto(p, [pc |-> "commit", auth |-> Auth(p), claim |-> c,
                 usage |-> call[p].usage, exceeded |-> x])
  BY <1>2 DEF SealMissions
<1>5. PICK d : d = [pc |-> "commit", auth |-> Auth(p), claim |-> c,
                    usage |-> call[p].usage, exceeded |-> x]
  OBVIOUS
<1>6. Goto(p, d) /\ UNCHANGED <<journalVars, live, ledger, kept, marked, spent>>
  BY <1>4, <1>5 DEF SealMissions
<1>7. call[p].usage \in Amounts \cup {None}
  BY <1>1, <1>3, CallShapes DEF Asking
<1>8. /\ d \in Calls /\ d.pc \in Asking \ {"sent"} /\ d.claim = c /\ TaskOf(d) = c.task
      /\ d.usage = call[p].usage
  BY <1>3, <1>5, <1>7, CallsMade DEF TaskOf, WithClaim, Asking
<1>9. d.usage # None => d.usage = spent'[c.task]
  BY <1>1, <1>3, <1>6, <1>8 DEF Sound, SoundUsage, Asking
<1>10. Takes(p, d) /\ (call'[p] = d => Sound(p, call[p])')
  BY <1>1, <1>2, <1>3, <1>6, <1>8, <1>9, StillAsking DEF Takes
<1>11. QED
  BY <1>3, <1>6, <1>8, <1>10, QuietMoves

LEMMA SealCommitStep ==
  ASSUME IInv, NEW p \in Pids, SealCommit(p)
  PROVE  IInv'
<1>1. call[p].pc \in Asking \ {"sent"} /\ call[p].pc \in Asking
  BY DEF SealCommit, At, Asking
<1>2. call[p].claim.task \in Tasks
  BY <1>1, AskingFacts
<1>3. marked' \subseteq Tasks
  BY <1>2 DEF SealCommit, IInv, TypeOK
<1>4. /\ \E o \in Outputs : Commit(call[p].claim, o)
      /\ kept' = [kept EXCEPT ![call[p].claim.task] = call[p].usage]
      /\ ToSettle(p, "succeeded", call[p].usage) /\ UNCHANGED <<live, ledger, spent>>
  BY DEF SealCommit
<1>5. QED
  BY <1>1, <1>3, <1>4, KeepsUse

-----------------------------------------------------------------------------
(* Settling.                                                               *)

LEMMA Settled ==
  ASSUME IInv, NEW t \in Tasks, NEW s \in Statuses, NEW u \in Amounts \cup {None},
         Settle(t, s, u)
  PROVE  /\ Reserved(t) /\ ledger[t] \in LedgerRow
         /\ ledger' \in [Tasks -> LedgerRow \cup {None}] /\ ledger'[t] # None
         /\ ledger'[t].status = s /\ ledger'[t].usage = u
         /\ ledger'[t].scope = ledger[t].scope
         /\ ledger'[t].reserved = ledger[t].reserved
         /\ \A v \in Tasks : v # t => ledger'[v] = ledger[v]
<1>1. Reserved(t) /\ ledger[t] \in LedgerRow
  BY TableFacts DEF Settle, Reserved
<1>2. PICK row : row = [ledger[t] EXCEPT !.status = s, !.usage = u]
  OBVIOUS
<1>3. row = [status |-> s, scope |-> ledger[t].scope,
             reserved |-> ledger[t].reserved, usage |-> u]
  BY <1>1, <1>2 DEF LedgerRow
<1>4. row \in LedgerRow /\ row # None
  BY <1>1, <1>3, NullAssumption DEF LedgerRow
<1>5. ledger' = [ledger EXCEPT ![t] = row]
  BY <1>2 DEF Settle
<1>6. ledger \in [Tasks -> LedgerRow \cup {None}]
  BY DEF IInv, TypeOK
<1>7. ledger' \in [Tasks -> LedgerRow \cup {None}] /\ ledger'[t] = row
  BY <1>4, <1>5, <1>6
<1>8. \A v \in Tasks : v # t => ledger'[v] = ledger[v]
  BY <1>5, <1>6
<1>9. QED
  BY <1>1, <1>3, <1>4, <1>7, <1>8

(* The holder settles its row and is done. *)
LEMMA SettlingMoves ==
  ASSUME IInv, NEW p \in Pids, call[p].pc \in Holding, NEW t, t = TaskOf(call[p]),
         NEW s \in Statuses \ {"reserved"}, NEW u \in Amounts \cup {None},
         Settle(t, s, u), Goto(p, Idle(Auth(p))), tasks[t].ext = 1,
         s \in {"succeeded", "outcome_unknown"} => tasks[t].state = s,
         u # None => u = spent[t] /\ kept[t] = u,
         UNCHANGED <<journalVars, live, kept, marked, spent>>
  PROVE  IInv'
<1>1. t \in Tasks /\ p \in live /\ Auth(p) \in Auths
  BY HolderFacts DEF Auth
<1>2. PICK d : d = Idle(Auth(p))
  OBVIOUS
<1>3. d \in Calls /\ d.pc \notin Holding /\ Goto(p, d)
  BY <1>1, <1>2, CallsMade, IdleFree
<1>4. /\ ledger' \in [Tasks -> LedgerRow \cup {None}] /\ ledger'[t] # None
      /\ ledger'[t].status = s /\ ledger'[t].usage = u
      /\ \A v \in Tasks : v # t => ledger'[v] = ledger[v]
  BY <1>1, Settled
<1>5. Preserved /\ tasks' = tasks
  BY UnchangedPreserves DEF IInv, journalVars
<1>6. Moves(p, d)
  BY <1>3, <1>5 DEF Moves, Goto
<1>7. OnlyAt(t)
  BY <1>4, <1>5 DEF OnlyAt, SameRow
<1>8. RowGood(t)'
  BY <1>4, <1>5 DEF RowGood, RowTrue, FollowsAt, AskedAt
<1>9. TablesTyped'
  BY <1>4 DEF TablesTyped, IInv, TypeOK
<1>10. call'[p] = d => Sound(p, call[p])'
  BY <1>3, FreeSound
<1>11. QED
  BY <1>1, <1>3, <1>5, <1>6, <1>7, <1>8, <1>9, <1>10, HolderMoves

LEMMA SettleStep ==
  ASSUME IInv, NEW p \in Pids, SettleUsage(p)
  PROVE  IInv'
<1>1. call[p].pc = "settle" /\ call[p].pc \in Holding
  BY DEF SettleUsage, At, Holding
<1>2. PICK t : t = TaskOf(call[p])
  OBVIOUS
<1>3. /\ t = call[p].task /\ call[p] \in Calls /\ Sound(p, call[p])
  BY <1>1, <1>2, HolderFacts DEF TaskOf, WithClaim, Asking
<1>4. PICK s : s = call[p].status
  OBVIOUS
<1>5. PICK u : u = call[p].usage
  OBVIOUS
<1>6. s \in Statuses /\ u \in Amounts \cup {None}
  BY <1>1, <1>3, <1>4, <1>5, CallShapes
<1>7. /\ s # "reserved" /\ tasks[t].ext = 1
      /\ s \in {"succeeded", "outcome_unknown"} => tasks[t].state = s
      /\ u # None => kept[t] = u
  BY <1>1, <1>3, <1>4, <1>5 DEF Sound, SoundSettle
<1>8. u # None => u = spent[t]
  BY <1>1, <1>2, <1>3, <1>5 DEF Sound, SoundUsage
<1>9. /\ Settle(t, s, u) /\ Goto(p, Idle(Auth(p)))
      /\ UNCHANGED <<journalVars, live, kept, marked, spent>>
  BY <1>3, <1>4, <1>5 DEF SettleUsage
<1>10. QED
  BY <1>1, <1>2, <1>6, <1>7, <1>8, <1>9, SettlingMoves

LEMMA UnexpectedStep ==
  ASSUME IInv, NEW p \in Pids, Unexpected(p)
  PROVE  IInv'
<1>1. /\ call[p].pc \in Asking \cup {"settle"} /\ call[p].pc \in Holding
  BY DEF Unexpected, Asking, Holding, WithClaim
<1>2. PICK t : t = TaskOf(call[p])
  OBVIOUS
<1>3. /\ t \in Tasks /\ Reserved(t) /\ p \in live /\ Auth(p) \in Auths
      /\ Sound(p, call[p])
  BY <1>1, <1>2, HolderFacts DEF Reserved, Auth
<1>4. tasks[t].ext = 1
  <2>1. CASE call[p].pc \in Asking
    BY <1>2, <2>1, AskingFacts
  <2>2. CASE call[p].pc = "settle"
    BY <1>2, <1>3, <2>2 DEF Sound, SoundSettle, TaskOf, WithClaim, Asking
  <2>3. QED
    BY <1>1, <2>1, <2>2
<1>5. t = IF call[p].pc = "settle" THEN call[p].task ELSE call[p].claim.task
  BY <1>1, <1>2 DEF TaskOf, WithClaim, Asking
<1>6. PICK d : d = [pc |-> "unexpected", auth |-> Auth(p), task |-> t]
  OBVIOUS
<1>7. Goto(p, d) /\ UNCHANGED <<journalVars, live, ledger, kept, marked, spent>>
  BY <1>5, <1>6 DEF Unexpected
<1>8. d \in Calls /\ d.pc = "unexpected" /\ d.task = t /\ TaskOf(d) = t
  BY <1>3, <1>6, CallsMade DEF TaskOf, WithClaim, Asking
<1>9. Takes(p, d)
  BY <1>1, <1>2, <1>8 DEF Takes
<1>10. call'[p] = d => Sound(p, call[p])'
  <2> SUFFICES ASSUME call'[p] = d PROVE Sound(p, call[p])'
    OBVIOUS
  <2>1. call'[p].pc = "unexpected" /\ call'[p].task = t /\ TaskOf(call[p])' = t
    BY <1>8 DEF TaskOf
  <2>2. tasks' = tasks
    BY <1>7 DEF journalVars
  <2>3. SoundHolds(call[p])' /\ SoundUnexpected(call[p])'
    BY <1>3, <1>4, <1>7, <2>1, <2>2 DEF SoundHolds, SoundUnexpected, Reserved
  <2>4. QED
    BY <2>1, <2>3 DEF Sound, SoundDispatch, SoundAsking, SoundUsage, SoundSettle, Asking
<1>11. QED
  BY <1>3, <1>7, <1>8, <1>9, <1>10, QuietMoves

LEMMA SettleUnexpectedStep ==
  ASSUME IInv, NEW p \in Pids, SettleUnexpected(p)
  PROVE  IInv'
<1>1. call[p].pc = "unexpected" /\ call[p].pc \in Holding
  BY DEF SettleUnexpected, At, Holding
<1>2. PICK t : t = TaskOf(call[p])
  OBVIOUS
<1>3. /\ t = call[p].task /\ Sound(p, call[p]) /\ Auth(p) \in Auths /\ p \in live
  BY <1>1, <1>2, HolderFacts DEF TaskOf, WithClaim, Asking, Auth
<1>4. tasks[t].ext = 1
  BY <1>1, <1>3 DEF Sound, SoundUnexpected
<1>5. /\ Goto(p, Idle(Auth(p))) /\ UNCHANGED <<journalVars, live, kept, marked, spent>>
  BY DEF SettleUnexpected
<1>6. CASE Settle(t, "failed", None)
  <2>1. "failed" \in Statuses \ {"reserved"} /\ None \in Amounts \cup {None}
    BY DEF Statuses
  <2>2. QED
    BY <1>1, <1>2, <1>4, <1>5, <1>6, <2>1, SettlingMoves
<1>7. CASE UNCHANGED ledger
  <2>1. PICK d : d = Idle(Auth(p))
    OBVIOUS
  <2>2. d \in Calls /\ d.pc \notin Holding /\ Goto(p, d)
    BY <1>3, <1>5, <2>1, CallsMade, IdleFree
  <2>3. Takes(p, d) /\ (call'[p] = d => Sound(p, call[p])')
    BY <2>2, FreeSound DEF Takes
  <2>4. QED
    BY <1>3, <1>5, <1>7, <2>2, <2>3, QuietMoves
<1>8. QED
  BY <1>3, <1>6, <1>7 DEF SettleUnexpected

-----------------------------------------------------------------------------
(* The first state: every mission of an earlier version is closed.         *)

PastOf(t) == {n \in DOMAIN History : History[n].task = t}

LEMMA PastUnique ==
  ASSUME NEW t \in Old
  PROVE  \E n \in DOMAIN History :
           /\ History[n].task = t /\ PastOf(t) = {n}
           /\ (CHOOSE m \in PastOf(t) : TRUE) = n
<1>1. PICK n \in DOMAIN History : History[n].task = t
  BY DEF Old
<1>2. PastOf(t) = {n}
  BY <1>1, HistoryAssumption DEF PastOf
<1>3. QED
  BY <1>1, <1>2

(* The tables in the first state, mission by mission. *)
LEMMA InitTables ==
  ASSUME Init
  PROVE  /\ \A n \in DOMAIN History :
              /\ tasks[History[n].task] =
                   [state |-> History[n].outcome, token |-> n, worker |-> Gateway,
                    pid |-> None, input |-> InputDigest[History[n].task],
                    output |-> None, ext |-> 1]
              /\ ledger[History[n].task] =
                   IF History[n].scope = None THEN None
                   ELSE [status |-> History[n].outcome, scope |-> History[n].scope,
                         reserved |-> History[n].reserved, usage |-> History[n].usage]
              /\ kept[History[n].task] = History[n].usage
              /\ spent[History[n].task] = History[n].spent
         /\ \A t \in Tasks \ Old :
              tasks[t] = NoRow /\ ledger[t] = None /\ kept[t] = None /\ spent[t] = Zero
         /\ DOMAIN tasks = Tasks /\ DOMAIN ledger = Tasks
         /\ DOMAIN kept = Tasks /\ DOMAIN spent = Tasks
<1>1. /\ tasks = [t \in Tasks |->
           IF PastOf(t) = {} THEN NoRow
           ELSE [state |-> History[CHOOSE n \in PastOf(t) : TRUE].outcome,
                 token |-> CHOOSE n \in PastOf(t) : TRUE,
                 worker |-> Gateway, pid |-> None, input |-> InputDigest[t],
                 output |-> None, ext |-> 1]]
      /\ ledger = [t \in Tasks |->
           IF \A n \in PastOf(t) : History[n].scope = None THEN None
           ELSE [status |-> History[CHOOSE n \in PastOf(t) : TRUE].outcome,
                 scope |-> History[CHOOSE n \in PastOf(t) : TRUE].scope,
                 reserved |-> History[CHOOSE n \in PastOf(t) : TRUE].reserved,
                 usage |-> History[CHOOSE n \in PastOf(t) : TRUE].usage]]
      /\ kept = [t \in Tasks |-> IF PastOf(t) = {} THEN None
                                 ELSE History[CHOOSE n \in PastOf(t) : TRUE].usage]
      /\ spent = [t \in Tasks |-> IF PastOf(t) = {} THEN Zero
                                  ELSE History[CHOOSE n \in PastOf(t) : TRUE].spent]
  BY DEF Init, PastOf
<1>2. ASSUME NEW n \in DOMAIN History, NEW t, t = History[n].task
      PROVE  /\ tasks[t] = [state |-> History[n].outcome, token |-> n,
                            worker |-> Gateway, pid |-> None, input |-> InputDigest[t],
                            output |-> None, ext |-> 1]
             /\ ledger[t] = IF History[n].scope = None THEN None
                            ELSE [status |-> History[n].outcome,
                                  scope |-> History[n].scope,
                                  reserved |-> History[n].reserved,
                                  usage |-> History[n].usage]
             /\ kept[t] = History[n].usage /\ spent[t] = History[n].spent
  <2>1. t \in Tasks /\ t \in Old
    BY <1>2, PastFacts DEF Old
  <2>2. PICK m \in DOMAIN History : /\ History[m].task = t /\ PastOf(t) = {m}
                                    /\ (CHOOSE k \in PastOf(t) : TRUE) = m
    BY <2>1, PastUnique
  <2>3. m = n
    BY <1>2, <2>2, HistoryAssumption
  <2>4. PastOf(t) = {n} /\ (CHOOSE k \in PastOf(t) : TRUE) = n
    BY <2>2, <2>3
  <2>5. PastOf(t) # {} /\ ((\A k \in PastOf(t) : History[k].scope = None)
                           <=> History[n].scope = None)
    BY <2>4
  <2> HIDE DEF PastOf
  <2>6. QED
    BY <1>1, <2>1, <2>4, <2>5
<1>3. ASSUME NEW t \in Tasks \ Old
      PROVE  tasks[t] = NoRow /\ ledger[t] = None /\ kept[t] = None /\ spent[t] = Zero
  <2>1. PastOf(t) = {}
    BY <1>3 DEF PastOf, Old
  <2>2. QED
    BY <1>1, <2>1
<1>4. DOMAIN tasks = Tasks /\ DOMAIN ledger = Tasks /\ DOMAIN kept = Tasks /\ DOMAIN spent = Tasks
  BY <1>1
<1>5. QED
  BY <1>2, <1>3, <1>4

LEMMA OldOrNew ==
  ASSUME NEW t \in Tasks
  PROVE  t \notin Old \/ \E n \in DOMAIN History : History[n].task = t
BY DEF Old

LEMMA InitJournal == Init => JournalInv
<1> SUFFICES ASSUME Init PROVE JournalInv
  OBVIOUS
<1>1. /\ attempts = [n \in DOMAIN History |->
           [task |-> History[n].task, token |-> n, worker |-> Gateway, pid |-> None,
            input |-> InputDigest[History[n].task], outcome |-> History[n].outcome]]
      /\ lastToken = Len(History)
  BY DEF Init
<1>2. /\ Len(History) \in 0..MaxTokens /\ DOMAIN History = 1..Len(History)
      /\ DOMAIN attempts = 1..Len(History) /\ MaxTokens \in Nat
  BY <1>1, PastFacts, TokensSuffice, MaxTokensAssumption
<1>3. \A t \in Tasks : InputDigest[t] \in Inputs
  BY InputDigestAssumption
<1>4. ASSUME NEW n \in DOMAIN History
      PROVE  /\ n \in 1..MaxTokens /\ n # 0 /\ History[n].task \in Tasks
             /\ attempts[n].task = History[n].task /\ attempts[n].token = n
             /\ attempts[n].worker = Gateway /\ attempts[n].pid = None
             /\ attempts[n].input = InputDigest[History[n].task]
             /\ attempts[n].outcome = History[n].outcome
             /\ attempts[n] \in Attempt
             /\ History[n].outcome \in {"succeeded", "failed", "outcome_unknown"}
  <2>1. n \in 1..MaxTokens /\ n # 0
    BY <1>2
  <2>2. /\ History[n].task \in Tasks
        /\ History[n].outcome \in {"succeeded", "failed", "outcome_unknown"}
    BY PastFacts
  <2>3. QED
    BY <1>1, <1>3, <2>1, <2>2, InitTables, GatewayAssumption DEF Attempt, Outcomes
<1>5. ASSUME NEW n \in DOMAIN History, NEW t, t = History[n].task
      PROVE  /\ t \in Tasks /\ tasks[t] \in Row
             /\ tasks[t].state = History[n].outcome /\ tasks[t].token = n
             /\ tasks[t].worker = Gateway /\ tasks[t].pid = None
             /\ tasks[t].input = InputDigest[t] /\ tasks[t].ext = 1
  <2>1. tasks[t] = [state |-> History[n].outcome, token |-> n, worker |-> Gateway,
                    pid |-> None, input |-> InputDigest[t], output |-> None, ext |-> 1]
    BY <1>5, InitTables
  <2>2. /\ t \in Tasks /\ InputDigest[t] \in Inputs /\ n \in 0..MaxTokens
        /\ History[n].outcome \in States
    BY <1>2, <1>3, <1>4, <1>5 DEF States
  <2>3. QED
    BY <2>1, <2>2, GatewayAssumption DEF Row
<1>6. ASSUME NEW t \in Tasks \ Old
      PROVE  /\ tasks[t] \in Row /\ tasks[t].token = 0 /\ tasks[t].ext = 0
             /\ tasks[t].state = "absent"
  BY <1>2, InitTables DEF NoRow, Row, States
<1>7. JournalTypeOK
  <2>1. attempts \in [1..Len(History) -> Attempt]
    BY <1>1, <1>2, <1>4
  <2>2. attempts \in Seq(Attempt)
    BY <1>2, <2>1
  <2>3. QED
    <3>1. \A t \in Tasks : tasks[t] \in Row
      BY <1>5, <1>6, OldOrNew
    <3>2. tasks = [t \in Tasks |-> tasks[t]]
      BY DEF Init
    <3>3. tasks \in [Tasks -> Row]
      BY <3>1, <3>2
    <3>4. QED
      BY <1>1, <1>2, <2>2, <3>3 DEF JournalTypeOK
<1>8. TokensNumberAttempts
  <2>1. Len(attempts) = Len(History)
    BY <1>2, <1>7 DEF JournalTypeOK
  <2>2. QED
    BY <1>1, <1>2, <1>4, <2>1 DEF TokensNumberAttempts
<1>9. RowMatchesAttempt
  <2> SUFFICES ASSUME NEW t \in Tasks, tasks[t].token # 0, NEW n, n = tasks[t].token
               PROVE  /\ n \in DOMAIN attempts
                      /\ attempts[n].task = t
                      /\ attempts[n].outcome = tasks[t].state
                      /\ attempts[n].worker = tasks[t].worker
                      /\ attempts[n].pid = tasks[t].pid
                      /\ attempts[n].input = tasks[t].input
                      /\ \A m \in DOMAIN attempts : attempts[m].task = t => m <= n
    BY DEF RowMatchesAttempt
  <2>1. PICK k \in DOMAIN History : History[k].task = t
    BY <1>6, OldOrNew
  <2>2. k = n
    BY <1>5, <2>1
  <2>3. \A m \in DOMAIN attempts : attempts[m].task = t => m = n
    BY <1>2, <1>4, <2>1, <2>2, HistoryAssumption
  <2>4. \A m \in DOMAIN attempts : attempts[m].task = t => m <= n
    BY <1>2, <2>1, <2>2, <2>3
  <2>5. QED
    BY <1>2, <1>4, <1>5, <2>1, <2>2, <2>4
<1>10. DispatchedOnce
  <2> SUFFICES ASSUME NEW t \in Tasks
               PROVE  /\ tasks[t].ext \in {0, 1}
                      /\ tasks[t].ext = 1 =>
                           tasks[t].state \notin {"absent", "planned", "claimed"}
                      /\ tasks[t].state = "dispatch_recorded" => tasks[t].ext = 1
    BY DEF DispatchedOnce
  <2>1. CASE t \notin Old
    BY <1>6, <2>1
  <2>2. CASE \E n \in DOMAIN History : History[n].task = t
    BY <1>4, <1>5, <2>2
  <2>3. QED
    BY <2>1, <2>2, OldOrNew
<1>11. SupersededNeverDispatched /\ AttemptsOwned
  <2>1. \A n \in DOMAIN attempts :
          n \in Nat /\ tasks[attempts[n].task].token = n
    BY <1>2, <1>4, <1>5
  <2>2. QED
    BY <2>1 DEF SupersededNeverDispatched, AttemptsOwned
<1>12. InputKnown
  <2> SUFFICES ASSUME NEW t \in Tasks, tasks[t].state # "absent"
               PROVE  tasks[t].input \in Inputs
    BY DEF InputKnown
  <2>1. PICK n \in DOMAIN History : History[n].task = t
    BY <1>6, OldOrNew
  <2>2. QED
    BY <1>3, <1>5, <2>1
<1>13. QED
  BY <1>7, <1>8, <1>9, <1>10, <1>11, <1>12 DEF JournalInv

LEMMA InitInv == Init => IInv
<1> SUFFICES ASSUME Init PROVE IInv
  OBVIOUS
<1>1. JournalInv /\ JournalTypeOK
  BY InitJournal DEF JournalInv
<1>2. live = {} /\ marked = {} /\ call = [p \in Pids |-> Closed]
  BY DEF Init
<1>3. Closed \in Calls /\ Closed.pc \notin Holding
  BY CallsMade DEF Closed, Holding, WithClaim, Asking
<1>4. ASSUME NEW n \in DOMAIN History, NEW t, t = History[n].task
      PROVE  /\ t \in Tasks /\ t \in Old /\ FinalRow(tasks[t]) /\ tasks[t].ext = 1
             /\ tasks[t].state = History[n].outcome
             /\ kept[t] = History[n].usage /\ spent[t] = History[n].spent
             /\ kept[t] \in Amounts \cup {None} /\ spent[t] \in Amounts
             /\ ledger[t] \in LedgerRow \cup {None}
             /\ ledger[t] # None =>
                  /\ ledger[t].status = History[n].outcome
                  /\ ledger[t].status \in {"succeeded", "failed", "outcome_unknown"}
                  /\ ledger[t].usage = History[n].usage
  <2>1. /\ t \in Tasks /\ t \in Old
        /\ History[n].outcome \in {"succeeded", "failed", "outcome_unknown"}
        /\ History[n].usage \in Amounts \cup {None}
        /\ History[n].spent \in Amounts
        /\ History[n].scope \in Scopes \cup {None}
        /\ History[n].reserved \in Amounts
    BY <1>4, PastFacts DEF Old
  <2>2. /\ tasks[t].state = History[n].outcome /\ tasks[t].ext = 1
        /\ kept[t] = History[n].usage /\ spent[t] = History[n].spent
        /\ ledger[t] = IF History[n].scope = None THEN None
                       ELSE [status |-> History[n].outcome,
                             scope |-> History[n].scope,
                             reserved |-> History[n].reserved,
                             usage |-> History[n].usage]
    <3>1. tasks[t] = [state |-> History[n].outcome, token |-> n, worker |-> Gateway,
                      pid |-> None, input |-> InputDigest[t], output |-> None, ext |-> 1]
      BY <1>4, InitTables
    <3>2. /\ kept[t] = History[n].usage /\ spent[t] = History[n].spent
          /\ ledger[t] = IF History[n].scope = None THEN None
                         ELSE [status |-> History[n].outcome,
                               scope |-> History[n].scope,
                               reserved |-> History[n].reserved,
                               usage |-> History[n].usage]
      BY <1>4, InitTables
    <3>3. QED
      BY <3>1, <3>2
  <2>3. FinalRow(tasks[t])
    BY <2>1, <2>2 DEF FinalRow
  <2>4. ledger[t] \in LedgerRow \cup {None}
    BY <2>1, <2>2 DEF LedgerRow, Statuses
  <2>5. QED
    BY <2>1, <2>2, <2>3, <2>4
<1>5. \A t \in Tasks \ Old : ledger[t] = None /\ kept[t] = None /\ spent[t] = Zero
  BY InitTables
<1>6. Zero \in Amounts
  BY DEF Zero, Amounts
<1>7. TypeOK
  <2>1. ASSUME NEW t \in Tasks
        PROVE  /\ ledger[t] \in LedgerRow \cup {None}
               /\ kept[t] \in Amounts \cup {None} /\ spent[t] \in Amounts
    BY <1>4, <1>5, <1>6, OldOrNew
  <2>2. /\ ledger \in [Tasks -> LedgerRow \cup {None}]
        /\ kept \in [Tasks -> Amounts \cup {None}]
        /\ spent \in [Tasks -> Amounts]
    <3>1. DOMAIN ledger = Tasks /\ DOMAIN kept = Tasks /\ DOMAIN spent = Tasks
      BY InitTables
    <3>2. ledger = [t \in Tasks |-> ledger[t]] /\ kept = [t \in Tasks |-> kept[t]]
          /\ spent = [t \in Tasks |-> spent[t]]
      BY DEF Init
    <3>3. QED
      BY <2>1, <3>2
  <2>3. QED
    BY <1>1, <1>2, <1>3, <2>2 DEF TypeOK
<1>8. CallsSound /\ Apart /\ DeadClosed
  BY <1>2, <1>3 DEF CallsSound, Apart, DeadClosed, Sound, SoundHolds, SoundDispatch,
     SoundAsking, SoundUsage, SoundSettle, SoundUnexpected, Holding, WithClaim
<1>9. RowsGood
  <2> SUFFICES ASSUME NEW t \in Tasks PROVE RowGood(t)
    BY DEF RowsGood
  <2>1. CASE t \notin Old
    BY <1>5, <2>1 DEF RowGood, RowTrue, FollowsAt, AskedAt
  <2>2. CASE \E n \in DOMAIN History : History[n].task = t
    BY <1>4, <2>2 DEF RowGood, RowTrue, FollowsAt, AskedAt
  <2>3. QED
    BY <2>1, <2>2, OldOrNew
<1>10. PastKept
  <2>1. \A n \in DOMAIN History :
          /\ n \in DOMAIN attempts /\ attempts[n].task = History[n].task
          /\ attempts[n].outcome = History[n].outcome
    BY DEF Init
  <2>2. QED
    BY <1>4, <2>1 DEF PastKept
<1>11. QED
  BY <1>1, <1>7, <1>8, <1>9, <1>10 DEF IInv

LEMMA StutterInv == IInv /\ UNCHANGED vars => IInv'
<1> SUFFICES ASSUME IInv, UNCHANGED vars PROVE IInv'
  OBVIOUS
<1>1. UNCHANGED <<tasks, attempts, lastToken, takeovers, live, ledger, kept, marked,
                  spent, call>>
  BY DEF vars
<1>2. JournalInv'
  BY <1>1, UnchangedPreserves DEF IInv, journalVars, Preserved
<1>3. TypeOK'
  BY <1>1, <1>2 DEF IInv, TypeOK, JournalInv
<1>4. CallsSound'
  BY <1>1 DEF IInv, CallsSound, Sound, SoundHolds, SoundDispatch, SoundAsking,
     SoundUsage, SoundSettle, SoundUnexpected, Mine, Genuine, Fenced, Reserved
<1>5. Apart' /\ DeadClosed'
  BY <1>1 DEF IInv, Apart, DeadClosed
<1>6. RowsGood'
  BY <1>1 DEF IInv, RowsGood, RowGood, RowTrue, FollowsAt, AskedAt
<1>7. PastKept'
  BY <1>1 DEF IInv, PastKept
<1>8. QED
  BY <1>2, <1>3, <1>4, <1>5, <1>6, <1>7 DEF IInv

LEMMA StepInv == IInv /\ [Next]_vars => IInv'
<1> SUFFICES ASSUME IInv, [Next]_vars PROVE IInv'
  OBVIOUS
<1>1. CASE UNCHANGED vars
  BY <1>1, StutterInv
<1>2. ASSUME NEW p \in Pids,
             \/ Start(p) \/ Exit(p) \/ Open(p)
             \/ Dispatch(p) \/ ReadKeys(p) \/ ReadMissions(p) \/ ReadMapped(p)
             \/ ReserveBudget(p) \/ Ensure(p) \/ ClaimTask(p) \/ Send(p) \/ Transport(p)
             \/ RecordTimeout(p) \/ RecordReject(p)
             \/ SealLedger(p) \/ SealMissions(p) \/ SealCommit(p) \/ SettleUsage(p)
             \/ Unexpected(p) \/ SettleUnexpected(p)
      PROVE  IInv'
  BY <1>2, LifeStep, OpenStep, DispatchStep, ReadKeysStep, ReadMissionsStep,
     ReadMappedStep, ReserveStep, EnsureStep, ClaimStep, SendStep, TransportStep,
     TimeoutStep, RejectStep, SealLedgerStep, SealMissionsStep, SealCommitStep,
     SettleStep, UnexpectedStep, SettleUnexpectedStep, Zenon
<1>3. QED
  BY <1>1, <1>2 DEF Next

-----------------------------------------------------------------------------
(***************************************************************************)
(* What holds for every set of tasks, processes, authorisations and uses.  *)
(***************************************************************************)

(* The invariant holds in every reachable state. *)
THEOREM Inductive == Spec => []IInv
<1>1. QED
  BY InitInv, StepInv, PTL DEF Spec

(* Every table and every local value of a running dispatch keeps its type  *)
(* (the columns of tasks and provider_usage_ledger, the usage blobs).      *)
THEOREM TypeCorrect == Spec => []TypeOK
<1>1. IInv => TypeOK
  BY DEF IInv
<1>2. QED
  BY <1>1, Inductive, PTL

(* A provider that used anything was asked under a row of the usage ledger *)
(* and a dispatch on record, whatever exits or runs in between             *)
(* (ProviderDispatcher.dispatch).                                          *)
THEOREM AskedReserved == Spec => []AskedUnderReservation
<1>1. IInv => AskedUnderReservation
  BY DEF IInv, RowsGood, RowGood, AskedAt, AskedUnderReservation
<1>2. QED
  BY <1>1, Inductive, PTL

(* A settled row says what the task ledger and the sealed blob say, though *)
(* the two ledgers are written in different transactions.                  *)
THEOREM LedgerFollows == Spec => []LedgerFollowsJournal
<1>1. IInv => LedgerFollowsJournal
  BY DEF IInv, RowsGood, RowGood, FollowsAt, LedgerFollowsJournal, InLedger
<1>2. QED
  BY <1>1, Inductive, PTL

(* Which actions write which table. *)
LEMMA Frames ==
  ASSUME [Next]_vars
  PROVE  /\ kept' = kept \/ \E p \in Pids : RecordReject(p) \/ SealCommit(p)
         /\ spent' = spent \/ \E p \in Pids : Transport(p)
         /\ \/ ledger' = ledger
            \/ \E p \in Pids : ReserveBudget(p) \/ SettleUsage(p) \/ SettleUnexpected(p)
<1>1. ASSUME NEW p \in Pids,
             \/ Start(p) \/ Exit(p) \/ Open(p)
             \/ Dispatch(p) \/ ReadKeys(p) \/ ReadMissions(p) \/ ReadMapped(p)
             \/ Ensure(p) \/ ClaimTask(p) \/ Send(p) \/ RecordTimeout(p)
             \/ SealLedger(p) \/ SealMissions(p) \/ Unexpected(p)
      PROVE  ledger' = ledger /\ kept' = kept /\ spent' = spent
  BY <1>1, Zenon DEF Start, Exit, Open, Dispatch, ReadKeys, ReadMissions, ReadMapped,
     Ensure, ClaimTask, Send, RecordTimeout, SealLedger, SealMissions, Unexpected
<1>2. ASSUME NEW p \in Pids, ReserveBudget(p) \/ SettleUsage(p) \/ SettleUnexpected(p)
      PROVE  kept' = kept /\ spent' = spent
  BY <1>2 DEF ReserveBudget, SettleUsage, SettleUnexpected
<1>3. ASSUME NEW p \in Pids, RecordReject(p) \/ SealCommit(p)
      PROVE  ledger' = ledger /\ spent' = spent
  BY <1>3 DEF RecordReject, SealCommit
<1>4. ASSUME NEW p \in Pids, Transport(p)
      PROVE  ledger' = ledger /\ kept' = kept
  BY <1>4 DEF Transport
<1>5. CASE UNCHANGED vars
  BY <1>5 DEF vars
<1>6. CASE Next
  BY <1>1, <1>2, <1>3, <1>4, <1>6 DEF Next
<1>7. QED
  BY <1>5, <1>6

LEMMA LedgerMoves ==
  ASSUME IInv, [Next]_vars
  PROVE  \/ ledger' = ledger
         \/ \E p \in Pids : ReserveBudget(p)
         \/ \E u \in Tasks, s \in Statuses, x \in Amounts \cup {None} : Settle(u, s, x)
<1>1. ASSUME NEW p \in Pids, SettleUsage(p)
      PROVE  \E u \in Tasks, s \in Statuses, x \in Amounts \cup {None} : Settle(u, s, x)
  BY <1>1, CallFacts, CallShapes DEF SettleUsage, At
<1>2. ASSUME NEW p \in Pids, SettleUnexpected(p)
      PROVE  \/ ledger' = ledger
             \/ \E u \in Tasks, s \in Statuses, x \in Amounts \cup {None} : Settle(u, s, x)
  <2>1. call[p].task \in Tasks /\ "failed" \in Statuses
    BY <1>2, CallFacts, CallShapes DEF SettleUnexpected, At, Statuses
  <2>2. QED
    BY <1>2, <2>1 DEF SettleUnexpected
<1>3. QED
  BY <1>1, <1>2, Frames

LEMMA SettlesOnce == IInv /\ [Next]_vars => SettleOnceStep
<1> SUFFICES ASSUME IInv, [Next]_vars, NEW t \in Tasks, ledger[t] # None
             PROVE  /\ ledger'[t] # None
                    /\ ledger'[t].scope = ledger[t].scope
                    /\ ledger'[t].reserved = ledger[t].reserved
                    /\ ledger[t].status # "reserved" => ledger'[t] = ledger[t]
  BY DEF SettleOnceStep, InLedger
<1>1. CASE ledger' = ledger
  BY <1>1
<1>2. ASSUME NEW u \in Tasks, NEW s \in Statuses, NEW x \in Amounts \cup {None},
             Settle(u, s, x)
      PROVE  /\ ledger'[t] # None
             /\ ledger'[t].scope = ledger[t].scope
             /\ ledger'[t].reserved = ledger[t].reserved
             /\ ledger[t].status # "reserved" => ledger'[t] = ledger[t]
  BY <1>2, Settled DEF Reserved
<1>3. ASSUME NEW p \in Pids, ReserveBudget(p)
      PROVE  ledger'[t] = ledger[t]
  <2>1. DOMAIN ledger = Tasks
    BY TableFacts
  <2>2. QED
    BY <1>3, <2>1 DEF ReserveBudget, Reserve
<1>4. QED
  BY <1>1, <1>2, <1>3, LedgerMoves

(* A row of the usage ledger is written once and settled once: it never    *)
(* disappears and never changes its scope or its bound, and what is        *)
(* settled stays (reserve_provider_usage, settle_provider_usage).          *)
THEOREM SettledOnce == Spec => RowsSettleOnce
<1>1. IInv /\ [Next]_vars => [SettleOnceStep]_vars
  BY SettlesOnce
<1>2. QED
  BY <1>1, Inductive, PTL DEF Spec, RowsSettleOnce

-----------------------------------------------------------------------------
(***************************************************************************)
(* The caps.  They hold for one budget: authorisations that share scope,   *)
(* lineage, caps and reconciled missions (a revised scope breaks them, see *)
(* the run provider_revised_scope).                                        *)
(***************************************************************************)
OneBudget ==
  \A a, b \in Auths :
    /\ a.scope = b.scope /\ a.mapped = b.mapped /\ a.caps = b.caps
    /\ a.requestCap = b.requestCap /\ a.prior = b.prior

(* A mission both kept and reconciled is not reconciled at more.           *)
AgreedPast ==
  \A n \in DOMAIN History, a \in Auths :
    /\ History[n].usage # None /\ a.prior[History[n].task] # None
    => Within(a.prior[History[n].task], History[n].usage)

(* No record of an old mission says less than it used.                     *)
TruthfulPast ==
  \A n \in DOMAIN History, a \in Auths :
    \A u \in {History[n].usage, a.prior[History[n].task]} :
      u # None => Within(History[n].spent, u)

(* What a task counts for: its row, else the item of its old mission.      *)
Reconciled(a) == {t \in Tasks : a.prior[t] # None}
Item(a, t) == IF kept[t] # None THEN kept[t] ELSE a.prior[t]
Counted(a, t) ==
  IF t \in InLedger THEN Charge(t)
  ELSE IF t \in Old \cup Reconciled(a) THEN Item(a, t) ELSE Zero
Counts(a, q) == [t \in Tasks |-> Counted(a, t)[q]]

(* What a call has to have read before it reserves. *)
Carried(a) == (Old \cup Reconciled(a)) \ InLedger
Behind(a, pc) == IF pc = "reserve" THEN Carried(a) \cup MappedRows(a) ELSE Carried(a)
Proven(a) == Unproven(a, Old \ InLedger) = {}

Reading == {"keys", "missions", "mapped", "reserve"}
Covers(a, c) ==
  /\ c.pc \in Reading => NoOrphans(a)
  /\ c.pc = "missions" => c.keys \subseteq InLedger
  /\ c.pc \in {"mapped", "reserve"} =>
       /\ Proven(a)
       /\ Cardinality(Behind(a, c.pc)) <= c.historic.requests
       /\ \A q \in Tokens : Sum(Counts(a, q), Behind(a, c.pc)) <= c.historic.tokens[q]

(* What a call has read stays an upper bound, because the rows of earlier  *)
(* scopes are settled, old missions are closed, and a task is written only *)
(* under a row.                                                            *)
OthersSettled(a) ==
  \A t \in InLedger : ledger[t].scope # a.scope => ledger[t].status # "reserved"
KeptOwned == \A t \in Tasks : kept[t] # None => t \in Old \cup InLedger
AskedOwned == \A t \in Tasks : tasks[t].ext = 1 => t \in Old \cup InLedger
SentUnused ==
  \A p \in Pids : call[p].pc = "sent" => spent[call[p].claim.task] = Zero

Covered ==
  /\ KeptOwned /\ AskedOwned /\ SentUnused
  /\ \A a \in Auths : OthersSettled(a) /\ \A p \in Pids : Covers(a, call[p])

(* Once this version has reserved, what counts fits the caps.              *)
Balanced(a) ==
  /\ Proven(a) /\ NoOrphans(a)
  /\ Overran = {} => \A q \in Tokens : Sum(Counts(a, q), Tasks) <= a.caps[q]
  /\ Cardinality(Old \cup InLedger) <= a.requestCap
WithinBudget ==
  \/ InLedger \subseteq Old /\ SpendWithinCaps
  \/ \A a \in Auths : Balanced(a)

-----------------------------------------------------------------------------
(* Who writes what.                                                        *)

LEMMA KeptByHolder ==
  ASSUME IInv, [Next]_vars, NEW t \in Tasks, kept'[t] # kept[t]
  PROVE  t \in InLedger /\ t \notin Old
<1>1. PICK p \in Pids : RecordReject(p) \/ SealCommit(p)
  BY Frames
<1>2. call[p].pc \in Asking /\ kept' = [kept EXCEPT ![call[p].claim.task] = call[p].usage]
  BY <1>1 DEF RecordReject, SealCommit, At, Asking
<1>3. t = call[p].claim.task
  BY <1>2, TableFacts
<1>4. QED
  BY <1>2, <1>3, AskingFacts DEF Reserved, InLedger

LEMMA SpentByHolder ==
  ASSUME IInv, [Next]_vars, NEW t \in Tasks, spent'[t] # spent[t]
  PROVE  /\ t \in InLedger /\ t \notin Old
         /\ \E p \in Pids : /\ call[p].pc = "sent" /\ call[p].claim.task = t
                           /\ call'[p].pc # "sent"
<1>1. PICK p \in Pids : Transport(p)
  BY Frames
<1>2. PICK u : spent' = [spent EXCEPT ![call[p].claim.task] = u]
  BY <1>1 DEF Transport
<1>3. t = call[p].claim.task /\ call[p].pc = "sent" /\ call[p].pc \in Asking
  BY <1>1, <1>2, TableFacts DEF Transport, At, Asking
<1>4. PICK pc \in {"timeout", "reject", "used"}, usage \in Usages \cup {Zero, None} :
        Goto(p, [pc |-> pc, auth |-> Auth(p), claim |-> call[p].claim, usage |-> usage])
  BY <1>1 DEF Transport
<1>5. call'[p].pc # "sent"
  BY <1>4, CallFacts DEF Goto
<1>6. QED
  BY <1>3, <1>5, AskingFacts DEF Reserved, InLedger

LEMMA NewRow ==
  ASSUME IInv, [Next]_vars, NEW t \in Tasks, ledger[t] = None, ledger'[t] # None
  PROVE  \E p \in Pids :
           /\ ReserveBudget(p) /\ call[p].task = t /\ call[p].pc = "reserve"
           /\ Auth(p) \in Auths /\ call[p].bound \in Amounts
           /\ call[p].historic \in Historic
           /\ Reserve(Auth(p), t, call[p].bound, call[p].historic)
<1>1. PICK p \in Pids : ReserveBudget(p)
  <2>1. ASSUME NEW u \in Tasks, NEW s \in Statuses, NEW x \in Amounts \cup {None},
               Settle(u, s, x)
        PROVE  FALSE
    BY <2>1, Settled DEF Reserved
  <2>2. QED
    BY <2>1, LedgerMoves
<1>2. /\ call[p].pc = "reserve" /\ Auth(p) \in Auths /\ call[p].bound \in Amounts
      /\ call[p].historic \in Historic /\ call[p].task \in Tasks
  BY <1>1, CallFacts, CallShapes DEF ReserveBudget, At, Auth
<1>3. Reserve(Auth(p), call[p].task, call[p].bound, call[p].historic)
  BY <1>1 DEF ReserveBudget
<1>4. call[p].task = t
  BY <1>2, <1>3, TableFacts DEF Reserve
<1>5. QED
  BY <1>1, <1>2, <1>3, <1>4

(* A row is changed only by its settlement, and then to no more than was   *)
(* used.                                                                   *)
LEMMA RowMoves ==
  ASSUME IInv, [Next]_vars, NEW t \in InLedger
  PROVE  /\ t \in InLedger' /\ ledger'[t].scope = ledger[t].scope
         /\ ledger'[t].reserved = ledger[t].reserved
         /\ \/ ledger'[t] = ledger[t]
            \/ /\ ledger[t].status = "reserved" /\ ledger[t].usage = None
               /\ ledger'[t].usage # None => ledger'[t].usage = spent[t]
<1>1. /\ ledger'[t] # None /\ ledger'[t].scope = ledger[t].scope
      /\ ledger'[t].reserved = ledger[t].reserved
      /\ ledger[t].status # "reserved" => ledger'[t] = ledger[t]
  BY SettlesOnce DEF SettleOnceStep
<1>2. ledger[t].status = "reserved" => ledger[t].usage = None
  BY DEF InLedger, IInv, RowsGood, RowGood, RowTrue
<1>3. ASSUME ledger'[t] # ledger[t], ledger'[t].usage # None
      PROVE  ledger'[t].usage = spent[t]
  <2>1. PICK p \in Pids : SettleUsage(p) \/ SettleUnexpected(p)
    <3>1. ASSUME NEW p \in Pids, ReserveBudget(p) PROVE FALSE
      BY <1>3, <3>1, TableFacts DEF ReserveBudget, Reserve, InLedger
    <3>2. QED
      BY <1>3, <3>1, Frames
  <2>2. call[p].pc \in Holding /\ call[p].pc \in {"settle", "unexpected"}
    BY <2>1 DEF SettleUsage, SettleUnexpected, At, Holding
  <2>3. /\ TaskOf(call[p]) = call[p].task /\ call[p].task \in Tasks
        /\ call[p] \in Calls /\ Sound(p, call[p])
    BY <2>2, HolderFacts DEF TaskOf, WithClaim, Asking
  <2>4. CASE SettleUsage(p)
    <3>1. /\ call[p].pc = "settle"
          /\ Settle(call[p].task, call[p].status, call[p].usage)
      BY <2>4 DEF SettleUsage, At
    <3>2. call[p].status \in Statuses /\ call[p].usage \in Amounts \cup {None}
      BY <2>3, <3>1, CallShapes
    <3>3. t = call[p].task /\ ledger'[t].usage = call[p].usage
      BY <1>3, <2>3, <3>1, <3>2, Settled DEF InLedger
    <3>4. QED
      BY <1>3, <2>3, <3>1, <3>3 DEF Sound, SoundUsage
  <2>5. CASE SettleUnexpected(p)
    <3>1. Settle(call[p].task, "failed", None)
      BY <1>3, <2>5 DEF SettleUnexpected
    <3>2. "failed" \in Statuses /\ None \in Amounts \cup {None}
      BY DEF Statuses
    <3>3. t = call[p].task /\ ledger'[t].usage = None
      BY <1>3, <2>3, <3>1, <3>2, Settled DEF InLedger
    <3>4. QED
      BY <1>3, <3>3
  <2>6. QED
    BY <2>1, <2>4, <2>5
<1>4. t \in InLedger'
  BY <1>1 DEF InLedger
<1>5. QED
  BY <1>1, <1>2, <1>3, <1>4

(* The external action of a task goes on record under a row. *)
LEMMA AskedByHolder ==
  ASSUME IInv, [Next]_vars, NEW t \in Tasks, tasks'[t].ext = 1, tasks[t].ext # 1
  PROVE  t \in InLedger
<1>1. tasks \in [Tasks -> Row]
  BY DEF IInv, JournalInv, JournalTypeOK
<1>2. CASE UNCHANGED vars
  BY <1>2 DEF vars
<1>3. ASSUME NEW p \in Pids,
             \/ Start(p) \/ Exit(p) \/ Dispatch(p) \/ ReadKeys(p) \/ ReadMissions(p)
             \/ ReadMapped(p) \/ ReserveBudget(p) \/ Transport(p) \/ SealLedger(p)
             \/ SealMissions(p) \/ SettleUsage(p) \/ Unexpected(p) \/ SettleUnexpected(p)
      PROVE  tasks' = tasks
  <2>1. journalVars' = journalVars
    BY <1>3, Zenon DEF Start, Exit, Dispatch, ReadKeys, ReadMissions, ReadMapped,
       ReserveBudget, Transport, SealLedger, SealMissions, SettleUsage, Unexpected,
       SettleUnexpected
  <2>2. QED
    BY <2>1 DEF journalVars
<1>4. ASSUME NEW p \in Pids, Open(p)
      PROVE  tasks'[t].ext = tasks[t].ext
  <2>1. PICK exited \in ReportedExited : RecoverDispatchedUnknown(Tasks, exited, FALSE)
    BY <1>4 DEF Open
  <2>2. tasks'[t] = tasks[t] \/ tasks'[t] = [tasks[t] EXCEPT !.state = "outcome_unknown"]
    BY <2>1 DEF RecoverDispatchedUnknown
  <2>3. QED
    BY <1>1, <2>2 DEF Row
<1>5. ASSUME NEW p \in Pids,
             \/ Ensure(p) \/ ClaimTask(p) \/ Send(p)
             \/ RecordTimeout(p) \/ RecordReject(p) \/ SealCommit(p)
      PROVE  /\ call[p].pc \in Holding
             /\ tasks' = tasks \/ \E v : tasks' = [tasks EXCEPT ![TaskOf(call[p])] = v]
  <2>1. CASE Ensure(p) \/ ClaimTask(p)
    <3>1. call[p].pc \in Holding /\ TaskOf(call[p]) = call[p].task
      BY <2>1 DEF Ensure, ClaimTask, At, Holding, TaskOf, WithClaim, Asking
    <3>2. tasks' = tasks \/ \E v : tasks' = [tasks EXCEPT ![call[p].task] = v]
      BY <2>1 DEF Ensure, ClaimTask, EnsureTask, Claim, Issue, journalVars
    <3>3. QED
      BY <3>1, <3>2
  <2>2. CASE Send(p) \/ RecordTimeout(p) \/ RecordReject(p) \/ SealCommit(p)
    <3>1. call[p].pc \in Holding /\ TaskOf(call[p]) = call[p].claim.task
      BY <2>2 DEF Send, RecordTimeout, RecordReject, SealCommit, At, Holding, TaskOf,
         WithClaim, Asking
    <3>2. PICK c : c = call[p].claim
      OBVIOUS
    <3>3. \/ RecordDispatch(c) \/ \E s : RecordFailure(c, s)
          \/ \E o \in Outputs : Commit(c, o)
      BY <2>2, <3>2 DEF Send, RecordTimeout, RecordReject, SealCommit
    <3>4. \E v : tasks' = [tasks EXCEPT ![c.task] = v]
      BY <3>3 DEF RecordDispatch, RecordFailure, Commit
    <3>5. QED
      BY <3>1, <3>2, <3>4
  <2>3. QED
    BY <1>5, <2>1, <2>2
<1>6. ASSUME NEW p \in Pids, call[p].pc \in Holding,
             NEW v, tasks' = [tasks EXCEPT ![TaskOf(call[p])] = v]
      PROVE  t \in InLedger
  <2>1. t = TaskOf(call[p])
    BY <1>1, <1>6
  <2>2. QED
    BY <1>6, <2>1, HolderFacts DEF InLedger
<1>7. CASE Next
  BY <1>3, <1>4, <1>5, <1>6, <1>7 DEF Next
<1>8. QED
  BY <1>2, <1>7

(* Which actions put a call where it reads, or sends. *)
LEMMA CallMoves ==
  ASSUME IInv, [Next]_vars, NEW p \in Pids
  PROVE  \/ call'[p] = call[p]
         \/ call'[p].pc \notin Reading \cup {"sent"}
         \/ Dispatch(p) \/ ReadKeys(p) \/ ReadMissions(p) \/ ReadMapped(p) \/ Send(p)
<1>1. DOMAIN call = Pids
  BY CallFacts
<1>2. ASSUME NEW r \in Pids, NEW d, Goto(r, d), d.pc \notin Reading \cup {"sent"}
      PROVE  call'[p] = call[p] \/ call'[p].pc \notin Reading \cup {"sent"}
  BY <1>1, <1>2 DEF Goto
<1>3. ASSUME NEW r \in Pids, Start(r) \/ Exit(r)
      PROVE  \E d : Goto(r, d) /\ d.pc \notin Reading \cup {"sent"}
  BY <1>3 DEF Start, Exit, Closed, Reading
<1>4. ASSUME NEW r \in Pids,
             \/ Open(r) \/ ReserveBudget(r) \/ ClaimTask(r)
             \/ SettleUsage(r) \/ SettleUnexpected(r)
      PROVE  \E d : Goto(r, d) /\ d.pc \notin Reading \cup {"sent"}
  <2>1. \A x : Idle(x).pc \notin Reading \cup {"sent"}
    BY DEF Idle, Reading
  <2>2. CASE Open(r) \/ SettleUsage(r) \/ SettleUnexpected(r)
    BY <2>1, <2>2 DEF Open, SettleUsage, SettleUnexpected
  <2>3. CASE ReserveBudget(r)
    <3>1. \/ Goto(r, Idle(Auth(r)))
          \/ Goto(r, [pc |-> "ensure", auth |-> Auth(r), task |-> call[r].task])
      BY <2>3 DEF ReserveBudget
    <3>2. QED
      BY <2>1, <3>1 DEF Reading
  <2>4. CASE ClaimTask(r)
    <3>1. PICK c : c = IssuedClaim(call[r].task, Gateway, InputDigest[call[r].task])
      OBVIOUS
    <3>2. \/ Goto(r, Idle(Auth(r)))
          \/ Goto(r, [pc |-> "dispatch", auth |-> Auth(r), claim |-> c])
      BY <2>4, <3>1 DEF ClaimTask
    <3>3. QED
      BY <2>1, <3>2 DEF Reading
  <2>5. QED
    BY <1>4, <2>2, <2>3, <2>4
<1>5. ASSUME NEW r \in Pids, Ensure(r)
      PROVE  \E d : Goto(r, d) /\ d.pc \notin Reading \cup {"sent"}
  <2>1. /\ call[r].pc = "ensure" /\ call[r] \in Calls
        /\ Goto(r, [call[r] EXCEPT !.pc = "claim"])
    BY <1>5, CallFacts DEF Ensure, At
  <2>2. call[r] = [pc |-> "ensure", auth |-> call[r].auth, task |-> call[r].task]
    BY <2>1, CallShapes
  <2>3. [call[r] EXCEPT !.pc = "claim"].pc = "claim"
    BY <2>2
  <2>4. QED
    BY <2>1, <2>3 DEF Reading
<1>6. ASSUME NEW r \in Pids, Transport(r)
      PROVE  \E d : Goto(r, d) /\ d.pc \notin Reading \cup {"sent"}
  <2>1. PICK pc \in {"timeout", "reject", "used"}, usage \in Usages \cup {Zero, None} :
          Goto(r, [pc |-> pc, auth |-> Auth(r), claim |-> call[r].claim, usage |-> usage])
    BY <1>6 DEF Transport
  <2>2. QED
    BY <2>1 DEF Reading
<1>7. ASSUME NEW r \in Pids,
             \/ RecordTimeout(r) \/ RecordReject(r) \/ SealCommit(r)
             \/ SealLedger(r) \/ SealMissions(r) \/ Unexpected(r)
      PROVE  \E d : Goto(r, d) /\ d.pc \notin Reading \cup {"sent"}
  BY <1>7 DEF RecordTimeout, RecordReject, SealCommit, ToSettle, SealLedger,
     SealMissions, Unexpected, Reading
<1>8. ASSUME NEW r \in Pids,
             Dispatch(r) \/ ReadKeys(r) \/ ReadMissions(r) \/ ReadMapped(r) \/ Send(r)
      PROVE  \E d : Goto(r, d)
  BY <1>8 DEF Dispatch, ReadKeys, ReadMissions, ReadMapped, Send
<1>9. ASSUME NEW r \in Pids, r # p, NEW d, Goto(r, d)
      PROVE  call'[p] = call[p]
  BY <1>1, <1>9 DEF Goto
<1>10. CASE UNCHANGED vars
  BY <1>10 DEF vars
<1>11. CASE Next
  <2>1. PICK r \in Pids :
          \/ Start(r) \/ Exit(r) \/ Open(r)
          \/ Dispatch(r) \/ ReadKeys(r) \/ ReadMissions(r) \/ ReadMapped(r)
          \/ ReserveBudget(r) \/ Ensure(r) \/ ClaimTask(r) \/ Send(r) \/ Transport(r)
          \/ RecordTimeout(r) \/ RecordReject(r)
          \/ SealLedger(r) \/ SealMissions(r) \/ SealCommit(r) \/ SettleUsage(r)
          \/ Unexpected(r) \/ SettleUnexpected(r)
    BY <1>11 DEF Next
  <2>2. \/ \E d : Goto(r, d) /\ d.pc \notin Reading \cup {"sent"}
        \/ /\ Dispatch(r) \/ ReadKeys(r) \/ ReadMissions(r) \/ ReadMapped(r) \/ Send(r)
           /\ \E d : Goto(r, d)
    BY <2>1, <1>3, <1>4, <1>5, <1>6, <1>7, <1>8, Zenon
  <2>3. QED
    BY <2>2, <1>2, <1>9
<1>12. QED
  BY <1>10, <1>11

-----------------------------------------------------------------------------
(* What a call has read stays an upper bound.                              *)

LEMMA CountedType ==
  ASSUME IInv, NEW a \in Auths, Proven(a), NEW t \in Tasks
  PROVE  /\ Counted(a, t) \in Amounts
         /\ \A q \in Tokens : Counts(a, q)[t] = Counted(a, t)[q] /\ Counts(a, q)[t] \in Nat
<1>1. CASE t \in InLedger
  BY <1>1, ChargeType DEF Counted, Counts, Amounts
<1>2. CASE t \in (Old \cup Reconciled(a)) \ InLedger
  <2>1. Item(a, t) \in Amounts
    BY <1>2, TableFacts, AuthFacts DEF Item, Proven, Unproven, Reconciled
  <2>2. QED
    BY <1>2, <2>1 DEF Counted, Counts, Amounts
<1>3. CASE t \notin InLedger /\ t \notin Old \cup Reconciled(a)
  BY <1>3 DEF Counted, Counts, Amounts, Zero
<1>4. QED
  BY <1>1, <1>2, <1>3

(* A new row is one of the budget. *)
LEMMA NewScope ==
  ASSUME IInv, [Next]_vars, OneBudget, NEW a \in Auths, NEW t \in InLedger', t \notin InLedger
  PROVE  ledger'[t].scope = a.scope
<1>1. t \in Tasks /\ ledger[t] = None /\ ledger'[t] # None
  BY DEF InLedger
<1>2. PICK p \in Pids :
        /\ Auth(p) \in Auths
        /\ Reserve(Auth(p), t, call[p].bound, call[p].historic)
  BY <1>1, NewRow
<1>3. ledger'[t].scope = Auth(p).scope
  BY <1>1, <1>2, TableFacts DEF Reserve
<1>4. QED
  BY <1>2, <1>3 DEF OneBudget

LEMMA ScopesStay ==
  ASSUME IInv, [Next]_vars, OneBudget, NEW a \in Auths, OthersSettled(a)
  PROVE  /\ InLedger \subseteq InLedger'
         /\ NoOrphans(a) => NoOrphans(a)'
         /\ MappedRows(a)' = MappedRows(a)
         /\ \A t \in MappedRows(a) : ledger'[t] = ledger[t]
         /\ OthersSettled(a)'
<1>1. ASSUME NEW t \in InLedger
      PROVE  t \in InLedger' /\ ledger'[t].scope = ledger[t].scope
  BY RowMoves
<1>2. ASSUME NEW t \in InLedger, ledger[t].scope # a.scope
      PROVE  ledger'[t] = ledger[t]
  BY <1>2, RowMoves DEF OthersSettled
<1>3. \A t \in InLedger' : t \in InLedger \/ ledger'[t].scope = a.scope
  BY NewScope
<1>4. InLedger \subseteq Tasks /\ InLedger' \subseteq Tasks
  BY DEF InLedger
<1>5. InLedger \subseteq InLedger'
  BY <1>1
<1>6. NoOrphans(a) => NoOrphans(a)'
  BY <1>1, <1>3 DEF NoOrphans
<1>7. MappedRows(a)' = MappedRows(a)
  BY <1>1, <1>3 DEF MappedRows
<1>8. \A t \in MappedRows(a) : ledger'[t] = ledger[t]
  BY <1>2 DEF MappedRows
<1>9. OthersSettled(a)'
  BY <1>1, <1>2, <1>3 DEF OthersSettled
<1>10. QED
  BY <1>5, <1>6, <1>7, <1>8, <1>9

LEMMA CarriedStays ==
  ASSUME IInv, [Next]_vars, NEW a \in Auths
  PROVE  /\ Carried(a)' \subseteq Carried(a)
         /\ \A t \in Carried(a)' : kept'[t] = kept[t] /\ t \in Tasks
         /\ Proven(a) => Proven(a)'
<1>1. \A t \in InLedger : t \in InLedger'
  BY RowMoves
<1>2. Old \subseteq Tasks /\ Reconciled(a) \subseteq Tasks
  BY TableFacts DEF Reconciled
<1>3. \A t \in Tasks \ InLedger : kept'[t] = kept[t]
  BY KeptByHolder
<1>4. /\ Carried(a)' \subseteq Carried(a)
      /\ \A t \in Carried(a)' : kept'[t] = kept[t] /\ t \in Tasks
  BY <1>1, <1>2, <1>3 DEF Carried, Old, Reconciled
<1>5. Proven(a) => Proven(a)'
  BY <1>1, <1>2, <1>3 DEF Proven, Unproven, Old
<1>6. QED
  BY <1>4, <1>5

LEMMA CoversStay ==
  ASSUME IInv, IInv', [Next]_vars, OneBudget, NEW a \in Auths, OthersSettled(a),
         NEW c \in Calls, Covers(a, c)
  PROVE  Covers(a, c)'
<1>1. /\ InLedger \subseteq InLedger' /\ (NoOrphans(a) => NoOrphans(a)')
      /\ MappedRows(a)' = MappedRows(a)
      /\ \A t \in MappedRows(a) : ledger'[t] = ledger[t]
  BY ScopesStay
<1>2. /\ Carried(a)' \subseteq Carried(a)
      /\ \A t \in Carried(a)' : kept'[t] = kept[t] /\ t \in Tasks
      /\ Proven(a) => Proven(a)'
  BY CarriedStays
<1>3. PICK B : B = Behind(a, c.pc)
  OBVIOUS
<1>4. PICK N : N = Behind(a, c.pc)'
  OBVIOUS
<1>5. N \subseteq B /\ B \subseteq Tasks
  <2>1. Carried(a) \subseteq Tasks /\ MappedRows(a) \subseteq Tasks
    BY TableFacts DEF Carried, Reconciled, MappedRows, InLedger
  <2>2. QED
    BY <1>1, <1>2, <1>3, <1>4, <2>1 DEF Behind
<1>6. ASSUME NEW t \in N
      PROVE  Counted(a, t)' = Counted(a, t)
  <2>1. CASE t \in Carried(a)'
    <3>1. t \notin InLedger /\ t \notin InLedger' /\ t \in Old \cup Reconciled(a)
      BY <1>1, <1>2, <2>1 DEF Carried
    <3>2. Counted(a, t) = Item(a, t)
      BY <3>1 DEF Counted
    <3>3. Counted(a, t)' = Item(a, t)'
      BY <3>1 DEF Counted, Old, Reconciled
    <3>4. QED
      BY <1>2, <2>1, <3>2, <3>3 DEF Item
  <2>2. CASE t \in MappedRows(a)
    <3>1. t \in InLedger /\ t \in InLedger' /\ ledger'[t] = ledger[t]
      BY <1>1, <2>2 DEF MappedRows
    <3>2. QED
      BY <3>1 DEF Counted, Charge
  <2>3. QED
    BY <1>1, <1>4, <2>1, <2>2 DEF Behind
<1>7. ASSUME c.pc \in {"mapped", "reserve"}
      PROVE  /\ Cardinality(N) <= c.historic.requests
             /\ Cardinality(Behind(a, c.pc)') <= c.historic.requests
  <2>1. Cardinality(B) <= c.historic.requests /\ c.historic.requests \in Nat
    BY <1>3, <1>7, CallShapes DEF Covers, Historic
  <2>2. IsFiniteSet(B) /\ Cardinality(B) \in Nat /\ Cardinality(N) \in Nat
    BY <1>5, SubsetOfTasks
  <2>3. Cardinality(N) <= Cardinality(B)
    BY <1>5, <2>2, FS_Subset
  <2>4. QED
    BY <1>4, <2>1, <2>2, <2>3
<1>8. ASSUME c.pc \in {"mapped", "reserve"}, NEW q \in Tokens
      PROVE  Sum(Counts(a, q), Behind(a, c.pc))' <= c.historic.tokens[q]
  <2>1. PICK f : f = Counts(a, q)
    OBVIOUS
  <2>2. PICK g : g = Counts(a, q)'
    OBVIOUS
  <2>3. Sum(f, B) <= c.historic.tokens[q] /\ c.historic.tokens[q] \in Nat
    BY <1>3, <1>8, <2>1, CallShapes DEF Covers, Historic, Amounts
  <2>4. \A t \in Tasks : f[t] \in Nat
    BY <1>8, <2>1, CountedType DEF Covers
  <2>5. \A t \in N : g[t] = f[t]
    BY <1>5, <1>6, <2>1, <2>2 DEF Counts
  <2>6. IsFiniteSet(B) /\ IsFiniteSet(N)
    BY <1>5, SubsetOfTasks
  <2>7. Sum(g, N) = Sum(f, N)
    BY <2>5, <2>6, SumSame
  <2>8. Sum(f, N) <= Sum(f, B) /\ Sum(f, N) \in Nat /\ Sum(f, B) \in Nat
    BY <1>5, <2>4, <2>6, SumSubset, SumType
  <2>9. Sum(g, N) <= c.historic.tokens[q]
    BY <2>3, <2>7, <2>8
  <2>10. QED
    BY <1>4, <2>2, <2>9
<1>9. c.pc \in Reading => NoOrphans(a)'
  BY <1>1 DEF Covers
<1>10. c.pc = "missions" => c.keys \subseteq InLedger'
  BY <1>1 DEF Covers
<1>11. c.pc \in {"mapped", "reserve"} => Proven(a)'
  BY <1>2 DEF Covers
<1>12. QED
  BY <1>7, <1>8, <1>9, <1>10, <1>11 DEF Covers

-----------------------------------------------------------------------------
(* A call that reads gets to know enough.                                  *)

LEMMA SameBudget ==
  ASSUME OneBudget, NEW a \in Auths, NEW b \in Auths
  PROVE  /\ a.scope = b.scope /\ a.mapped = b.mapped /\ a.caps = b.caps
         /\ a.requestCap = b.requestCap /\ a.prior = b.prior
         /\ NoOrphans(a) = NoOrphans(b) /\ MappedRows(a) = MappedRows(b)
         /\ \A S : Unproven(a, S) = Unproven(b, S) /\ Items(a, S) = Items(b, S)
BY DEF OneBudget, NoOrphans, MappedRows, Unproven, Items

(* Every old mission is among those the task ledger saw dispatched. *)
LEMMA OldDispatched ==
  ASSUME IInv
  PROVE  Old \subseteq Dispatched
<1>1. ASSUME NEW n \in DOMAIN History, NEW t, t = History[n].task
      PROVE  t \in Dispatched
  <2>1. /\ n \in DOMAIN attempts /\ attempts[n].task = t
        /\ attempts[n].outcome = History[n].outcome /\ tasks[t].ext = 1
    BY <1>1 DEF IInv, PastKept
  <2>2. t \in Tasks /\ History[n].outcome \in {"succeeded", "failed", "outcome_unknown"}
    BY <1>1, PastFacts
  <2>3. QED
    BY <2>1, <2>2 DEF Dispatched
<1>2. QED
  BY <1>1 DEF Old

LEMMA FreeCovers ==
  ASSUME NEW a, NEW c, c.pc \notin Reading
  PROVE  Covers(a, c)
BY DEF Covers, Reading

LEMMA MissionsCover ==
  ASSUME IInv, KeptOwned, NEW a \in Auths, NEW keys, keys \subseteq InLedger,
         NEW found, found = Dispatched \ keys, Unproven(a, found) = {},
         NoOrphans(a), NEW d, d.pc = "mapped",
         d.historic = [requests |-> Cardinality(DOMAIN Items(a, found)),
                       tokens |-> Total(Items(a, found))]
  PROVE  Covers(a, d)
<1>1. PICK f : f = Items(a, found)
  OBVIOUS
<1>2. DOMAIN f = found \cup Reconciled(a) /\ DOMAIN f \subseteq Tasks
  BY <1>1 DEF Items, Reconciled, Dispatched
<1>3. Proven(a)
  BY OldDispatched DEF Proven, Unproven
<1>4. Carried(a) \subseteq DOMAIN f
  BY <1>2, OldDispatched DEF Carried
<1>5. ASSUME NEW t \in Carried(a)
      PROVE  f[t] = Counted(a, t)
  <2>1. t \in Tasks /\ t \in found \cup Reconciled(a) /\ t \notin InLedger
        /\ t \in Old \cup Reconciled(a)
    BY <1>2, <1>4 DEF Carried
  <2>2. Counted(a, t) = Item(a, t)
    BY <2>1 DEF Counted
  <2>3. f[t] = IF t \in found /\ kept[t] # None THEN kept[t] ELSE a.prior[t]
    BY <1>1, <2>1 DEF Items, Reconciled
  <2>4. t \notin found => kept[t] = None
    BY <2>1, OldDispatched DEF KeptOwned
  <2>5. QED
    BY <2>2, <2>3, <2>4 DEF Item
<1>6. \A t \in DOMAIN f : f[t] \in Amounts
  BY <1>1, <1>2, TableFacts, AuthFacts DEF Items, Unproven, Reconciled
<1>7. IsFiniteSet(DOMAIN f) /\ IsFiniteSet(Carried(a))
  BY <1>2, <1>4, SubsetOfTasks, FS_Subset
<1>8. Cardinality(Carried(a)) <= Cardinality(DOMAIN f)
  BY <1>4, <1>7, FS_Subset
<1>9. ASSUME NEW q \in Tokens
      PROVE  Sum(Counts(a, q), Carried(a)) <= Total(f)[q]
  <2>1. PICK g : g = [t \in DOMAIN f |-> f[t][q]]
    OBVIOUS
  <2>2. PICK h : h = Counts(a, q)
    OBVIOUS
  <2>3. \A t \in DOMAIN f : g[t] \in Nat
    BY <1>6, <2>1 DEF Amounts
  <2>4. \A t \in Carried(a) : h[t] = g[t]
    BY <1>2, <1>4, <1>5, <2>1, <2>2 DEF Counts
  <2>5. Total(f)[q] = Sum(g, DOMAIN f)
    BY <1>7, <2>1, TotalIs
  <2>6. Sum(h, Carried(a)) = Sum(g, Carried(a))
    BY <1>7, <2>4, SumSame
  <2>7. Sum(g, Carried(a)) <= Sum(g, DOMAIN f)
    BY <1>4, <1>7, <2>3, SumSubset
  <2>8. QED
    BY <2>2, <2>5, <2>6, <2>7
<1>10. d.historic.requests = Cardinality(DOMAIN f) /\ d.historic.tokens = Total(f)
  BY <1>1
<1>11. Behind(a, d.pc) = Carried(a)
  BY DEF Behind
<1>12. QED
  BY <1>3, <1>8, <1>9, <1>10, <1>11 DEF Covers

LEMMA ChargedIs ==
  ASSUME IInv, NEW a \in Auths, NEW rows, rows \subseteq InLedger, NEW q \in Tokens
  PROVE  Charged(rows)[q] = Sum(Counts(a, q), rows)
<1>1. PICK f : f = [t \in rows |-> Charge(t)]
  OBVIOUS
<1>2. PICK g : g = [t \in rows |-> f[t][q]]
  OBVIOUS
<1>3. PICK h : h = Counts(a, q)
  OBVIOUS
<1>4. IsFiniteSet(rows) /\ rows \subseteq Tasks
  BY SubsetOfTasks DEF InLedger
<1>5. Charged(rows)[q] = Sum(g, rows)
  BY <1>1, <1>2, <1>4, TotalIs DEF Charged
<1>6. \A t \in rows : g[t] = h[t]
  BY <1>1, <1>2, <1>3, <1>4 DEF Counts, Counted
<1>7. QED
  BY <1>3, <1>4, <1>5, <1>6, SumSame

LEMMA MappedCover ==
  ASSUME IInv, NEW a \in Auths, NEW c \in Calls, c.pc = "mapped", Covers(a, c),
         NEW d, d.pc = "reserve",
         d.historic = [requests |-> c.historic.requests + Cardinality(MappedRows(a)),
                       tokens |-> Plus(c.historic.tokens, Charged(MappedRows(a)))]
  PROVE  Covers(a, d)
<1>1. PICK C : C = Carried(a)
  OBVIOUS
<1>2. PICK M : M = MappedRows(a)
  OBVIOUS
<1>3. /\ M \subseteq InLedger /\ C \cap M = {}
      /\ IsFiniteSet(C) /\ IsFiniteSet(M)
      /\ Cardinality(C) \in Nat /\ Cardinality(M) \in Nat /\ C \cup M \subseteq Tasks
  <2>1. M \subseteq InLedger /\ C \cap M = {}
    BY <1>1, <1>2 DEF MappedRows, Carried
  <2>2. C \subseteq Tasks /\ M \subseteq Tasks
    BY <1>1, <1>2, <2>1, TableFacts DEF Carried, Reconciled, InLedger
  <2>3. QED
    BY <2>1, <2>2, SubsetOfTasks
<1>4. Behind(a, d.pc) = C \cup M /\ Behind(a, c.pc) = C
  BY <1>1, <1>2 DEF Behind
<1>5. NoOrphans(a) /\ Proven(a) /\ c.historic \in Historic
  BY CallShapes DEF Covers, Reading
<1>6. Cardinality(C \cup M) <= d.historic.requests
  <2>1. Cardinality(C \cup M) = Cardinality(C) + Cardinality(M) - Cardinality(C \cap M)
    BY <1>3, FS_Union
  <2>2. Cardinality(C) <= c.historic.requests /\ c.historic.requests \in Nat
    BY <1>4, <1>5 DEF Covers, Historic
  <2>3. Cardinality(C \cap M) = 0
    BY <1>3, FS_EmptySet
  <2>4. d.historic.requests = c.historic.requests + Cardinality(M)
    BY <1>2
  <2>5. QED
    BY <1>3, <2>1, <2>2, <2>3, <2>4
<1>7. ASSUME NEW q \in Tokens
      PROVE  Sum(Counts(a, q), C \cup M) <= d.historic.tokens[q]
  <2>1. PICK f : f = Counts(a, q)
    OBVIOUS
  <2>2. \A t \in C \cup M : f[t] \in Nat
    BY <1>3, <1>5, <2>1, CountedType
  <2>3. Sum(f, C \cup M) = Sum(f, C) + Sum(f, M)
    BY <1>3, <2>2, SumUnion
  <2>4. Sum(f, C) <= c.historic.tokens[q]
    BY <1>4, <2>1 DEF Covers
  <2>5. Sum(f, M) = Charged(M)[q]
    BY <1>3, <2>1, ChargedIs
  <2>6. d.historic.tokens[q] = c.historic.tokens[q] + Charged(M)[q]
    BY <1>2 DEF Plus
  <2>7. Sum(f, C) \in Nat /\ Sum(f, M) \in Nat /\ c.historic.tokens[q] \in Nat
    BY <1>3, <1>5, <2>2, SumType DEF Historic, Amounts
  <2>8. Sum(f, C \cup M) <= d.historic.tokens[q]
    BY <2>3, <2>4, <2>5, <2>6, <2>7
  <2>9. QED
    BY <2>1, <2>8
<1>8. QED
  BY <1>4, <1>5, <1>6, <1>7 DEF Covers

LEMMA CallsCovered ==
  ASSUME IInv, IInv', [Next]_vars, OneBudget, KeptOwned, NEW a \in Auths,
         OthersSettled(a), NEW p \in Pids, Covers(a, call[p])
  PROVE  Covers(a, call[p])'
<1>1. call[p] \in Calls /\ call'[p] \in Calls /\ DOMAIN call = Pids
  <2>1. call' \in [Pids -> Calls]
    BY DEF IInv, TypeOK
  <2>2. QED
    BY <2>1, CallFacts
<1>2. ASSUME NEW d \in Calls, call'[p] = d, Covers(a, d)
      PROVE  Covers(a, call[p])'
  <2>1. Covers(a, d)'
    BY <1>2, CoversStay
  <2>2. QED
    BY <1>2, <2>1 DEF Covers
<1>3. CASE call'[p] = call[p]
  BY <1>1, <1>2, <1>3
<1>4. CASE call'[p].pc \notin Reading \cup {"sent"}
  BY <1>1, <1>2, <1>4, FreeCovers
<1>5. CASE Dispatch(p)
  <2>1. PICK t, b : Goto(p, [pc |-> "keys", auth |-> Auth(p), task |-> t, bound |-> b])
    BY <1>5 DEF Dispatch
  <2>2. Auth(p) \in Auths /\ NoOrphans(Auth(p))
    BY <1>5, <1>1, CallShapes DEF Dispatch, At, Auth
  <2>3. NoOrphans(a)
    BY <2>2, SameBudget
  <2>4. PICK d : d = [pc |-> "keys", auth |-> Auth(p), task |-> t, bound |-> b]
    OBVIOUS
  <2>5. call'[p] = d /\ d.pc = "keys"
    BY <1>1, <2>1, <2>4 DEF Goto
  <2>6. Covers(a, d)
    BY <2>3, <2>5 DEF Covers
  <2>7. QED
    BY <1>1, <1>2, <2>5, <2>6
<1>6. CASE ReadKeys(p)
  <2>1. PICK d : d = [pc |-> "missions", auth |-> Auth(p), task |-> call[p].task,
                      bound |-> call[p].bound, keys |-> InLedger]
    OBVIOUS
  <2>2. call'[p] = d /\ d.pc = "missions" /\ d.keys = InLedger /\ call[p].pc = "keys"
    BY <1>1, <1>6, <2>1 DEF ReadKeys, Goto, At
  <2>3. Covers(a, d)
    BY <2>2 DEF Covers, Reading
  <2>4. QED
    BY <1>1, <1>2, <2>2, <2>3
<1>7. CASE ReadMissions(p)
  <2>1. PICK found : found = Dispatched \ call[p].keys
    OBVIOUS
  <2>2. /\ call[p].pc = "missions" /\ Auth(p) \in Auths /\ NoOrphans(a)
        /\ call[p].keys \subseteq InLedger
    BY <1>1, <1>7, CallShapes DEF ReadMissions, At, Auth, Covers, Reading
  <2>3. CASE Goto(p, Idle(Auth(p)))
    <3>1. PICK d : d = Idle(Auth(p))
      OBVIOUS
    <3>2. call'[p] = d /\ d.pc \notin Reading
      BY <1>1, <2>3, <3>1, IdleFree DEF Goto, Reading
    <3>3. QED
      BY <1>1, <1>2, <3>2, FreeCovers
  <2>4. ASSUME Unproven(Auth(p), found) = {},
               NEW h, h = [requests |-> Cardinality(DOMAIN Items(Auth(p), found)),
                           tokens |-> Total(Items(Auth(p), found))],
               NEW d, d = [pc |-> "mapped", auth |-> Auth(p), task |-> call[p].task,
                           bound |-> call[p].bound, historic |-> h],
               Goto(p, d)
        PROVE  Covers(a, call[p])'
    <3>1. call'[p] = d /\ d.pc = "mapped" /\ d.historic = h
      BY <1>1, <2>4 DEF Goto
    <3>2. Unproven(a, found) = {} /\ Items(a, found) = Items(Auth(p), found)
      BY <2>2, <2>4, SameBudget
    <3>3. Covers(a, d)
      BY <2>1, <2>2, <2>4, <3>1, <3>2, MissionsCover
    <3>4. QED
      BY <1>1, <1>2, <3>1, <3>3
  <2>5. QED
    BY <1>7, <2>1, <2>3, <2>4, ReadMissionsGoes
<1>8. CASE ReadMapped(p)
  <2>1. /\ call[p].pc = "mapped" /\ Auth(p) \in Auths /\ call[p].historic \in Historic
    BY <1>1, <1>8, CallShapes DEF ReadMapped, At, Auth
  <2>2. MappedRows(Auth(p)) = MappedRows(a)
    BY <2>1, SameBudget
  <2>3. PICK h : h = [requests |-> call[p].historic.requests + Cardinality(MappedRows(a)),
                      tokens |-> Plus(call[p].historic.tokens, Charged(MappedRows(a)))]
    OBVIOUS
  <2>4. PICK e : e = [call[p] EXCEPT !.pc = "reserve"]
    OBVIOUS
  <2>5. PICK d : d = [call[p] EXCEPT !.pc = "reserve", !.historic = h]
    OBVIOUS
  <2>6. call[p] = [pc |-> "mapped", auth |-> call[p].auth, task |-> call[p].task,
                   bound |-> call[p].bound, historic |-> call[p].historic]
    BY <1>1, <2>1, CallShapes
  <2>7. e = [pc |-> "reserve", auth |-> call[p].auth, task |-> call[p].task,
             bound |-> call[p].bound, historic |-> call[p].historic]
    BY <2>4, <2>6
  <2>8. d = [e EXCEPT !.historic = h]
    BY <2>4, <2>5
  <2>9. d.pc = "reserve" /\ d.historic = h
    BY <2>7, <2>8
  <2>10. Goto(p, d)
    BY <1>8, <2>2, <2>3, <2>5 DEF ReadMapped
  <2>11. call'[p] = d
    BY <1>1, <2>10 DEF Goto
  <2>12. Covers(a, d)
    BY <1>1, <2>1, <2>3, <2>9, MappedCover
  <2>13. QED
    BY <1>1, <1>2, <2>11, <2>12
<1>9. CASE Send(p)
  <2>1. /\ call[p].pc = "dispatch" /\ Goto(p, [call[p] EXCEPT !.pc = "sent"])
    BY <1>9 DEF Send, At
  <2>2. call[p] = [pc |-> "dispatch", auth |-> call[p].auth, claim |-> call[p].claim]
    BY <1>1, <2>1, CallShapes
  <2>3. call'[p].pc = "sent"
    BY <1>1, <2>1, <2>2 DEF Goto
  <2>4. QED
    BY <1>1, <1>2, <2>3, FreeCovers DEF Reading
<1>10. QED
  BY <1>3, <1>4, <1>5, <1>6, <1>7, <1>8, <1>9, CallMoves

LEMMA CoveredStep ==
  ASSUME IInv, IInv', [Next]_vars, OneBudget, Covered
  PROVE  Covered'
<1>1. \A t \in InLedger : t \in InLedger'
  BY RowMoves
<1>2. KeptOwned'
  <2> SUFFICES ASSUME NEW t \in Tasks, kept'[t] # None
               PROVE  t \in Old \/ t \in InLedger'
    BY DEF KeptOwned, Old
  <2>1. CASE kept'[t] = kept[t]
    BY <1>1, <2>1 DEF Covered, KeptOwned
  <2>2. CASE kept'[t] # kept[t]
    BY <1>1, <2>2, KeptByHolder
  <2>3. QED
    BY <2>1, <2>2
<1>3. AskedOwned'
  <2> SUFFICES ASSUME NEW t \in Tasks, tasks'[t].ext = 1
               PROVE  t \in Old \/ t \in InLedger'
    BY DEF AskedOwned, Old
  <2>1. CASE tasks[t].ext = 1
    BY <1>1, <2>1 DEF Covered, AskedOwned
  <2>2. CASE tasks[t].ext # 1
    BY <1>1, <2>2, AskedByHolder
  <2>3. QED
    BY <2>1, <2>2
<1>4. SentUnused'
  <2> SUFFICES ASSUME NEW p \in Pids, call'[p].pc = "sent"
               PROVE  spent'[call'[p].claim.task] = Zero
    BY DEF SentUnused, Zero
  <2>1. CASE call'[p] = call[p]
    <3>1. PICK t : t = call[p].claim.task
      OBVIOUS
    <3>2. call[p].pc = "sent" /\ call[p].pc \in Asking
      BY <2>1 DEF Asking
    <3>3. spent[t] = Zero /\ t \in Tasks
      BY <3>1, <3>2, AskingFacts DEF Covered, SentUnused
    <3>4. ASSUME spent'[t] # spent[t] PROVE FALSE
      <4>1. PICK r \in Pids : /\ call[r].pc = "sent" /\ call[r].claim.task = t
                              /\ call'[r].pc # "sent"
        BY <3>3, <3>4, SpentByHolder
      <4>2. r # p
        BY <4>1
      <4>3. /\ call[r].pc \in Holding /\ call[p].pc \in Holding
            /\ TaskOf(call[r]) = t /\ TaskOf(call[p]) = t
        BY <3>1, <3>2, <4>1 DEF Holding, TaskOf, WithClaim, Asking
      <4>4. QED
        BY <4>2, <4>3 DEF IInv, Apart
    <3>5. QED
      BY <2>1, <3>1, <3>3, <3>4
  <2>2. CASE Send(p)
    <3>1. /\ call[p].pc = "dispatch" /\ Goto(p, [call[p] EXCEPT !.pc = "sent"])
          /\ spent' = spent
      BY <2>2 DEF Send, At
    <3>2. call[p] \in Calls /\ DOMAIN call = Pids /\ Sound(p, call[p])
      BY CallFacts
    <3>3. call[p] = [pc |-> "dispatch", auth |-> call[p].auth, claim |-> call[p].claim]
      BY <3>1, <3>2, CallShapes
    <3>4. call'[p].claim = call[p].claim
      BY <3>1, <3>2, <3>3 DEF Goto
    <3>5. PICK t : t = call[p].claim.task
      OBVIOUS
    <3>6. t \in Tasks /\ tasks[t].state = "claimed"
      BY <3>1, <3>2, <3>5, CallShapes DEF Sound, SoundDispatch, WithClaim
    <3>7. tasks[t].ext # 1
      BY <3>6 DEF IInv, JournalInv, DispatchedOnce
    <3>8. t \notin Old
      BY <3>6 DEF IInv, PastKept, FinalRow, Old
    <3>9. spent[t] = Zero
      BY <3>6, <3>7, <3>8 DEF IInv, RowsGood, RowGood, AskedAt
    <3>10. QED
      BY <3>1, <3>4, <3>5, <3>9
  <2>3. CASE \/ Dispatch(p) \/ ReadKeys(p) \/ ReadMissions(p) \/ ReadMapped(p)
    <3>1. call[p] \in Calls /\ DOMAIN call = Pids
      BY CallFacts
    <3>2. \E d : Goto(p, d) /\ d.pc # "sent"
      <4>1. CASE Dispatch(p)
        <5>1. PICK t, b : Goto(p, [pc |-> "keys", auth |-> Auth(p), task |-> t, bound |-> b])
          BY <4>1 DEF Dispatch
        <5>2. QED
          BY <5>1
      <4>2. CASE ReadKeys(p)
        BY <4>2 DEF ReadKeys
      <4>3. CASE ReadMissions(p)
        <5>1. PICK found : found = Dispatched \ call[p].keys
          OBVIOUS
        <5>2. PICK h : h = [requests |-> Cardinality(DOMAIN Items(Auth(p), found)),
                            tokens |-> Total(Items(Auth(p), found))]
          OBVIOUS
        <5>3. \/ Goto(p, Idle(Auth(p)))
              \/ Goto(p, [pc |-> "mapped", auth |-> Auth(p), task |-> call[p].task,
                          bound |-> call[p].bound, historic |-> h])
          BY <4>3, <5>1, <5>2, ReadMissionsGoes
        <5>4. Idle(Auth(p)).pc # "sent"
          BY IdleFree
        <5>5. QED
          BY <5>3, <5>4
      <4>4. CASE ReadMapped(p)
        <5>1. call[p].pc = "mapped"
          BY <4>4 DEF ReadMapped, At
        <5>2. PICK h : Goto(p, [call[p] EXCEPT !.pc = "reserve", !.historic = h])
          BY <4>4 DEF ReadMapped
        <5>3. PICK e : e = [call[p] EXCEPT !.pc = "reserve"]
          OBVIOUS
        <5>4. call[p] = [pc |-> "mapped", auth |-> call[p].auth, task |-> call[p].task,
                         bound |-> call[p].bound, historic |-> call[p].historic]
          BY <3>1, <5>1, CallShapes
        <5>5. e = [pc |-> "reserve", auth |-> call[p].auth, task |-> call[p].task,
                   bound |-> call[p].bound, historic |-> call[p].historic]
          BY <5>3, <5>4
        <5>6. Goto(p, [e EXCEPT !.historic = h])
          BY <5>2, <5>3
        <5>7. [e EXCEPT !.historic = h].pc = "reserve"
          BY <5>5
        <5>8. QED
          BY <5>6, <5>7
      <4>5. QED
        BY <2>3, <4>1, <4>2, <4>3, <4>4
    <3>3. QED
      BY <3>1, <3>2 DEF Goto
  <2>4. QED
    BY <2>1, <2>2, <2>3, CallMoves
<1>5. ASSUME NEW a \in Auths PROVE OthersSettled(a)'
  BY ScopesStay DEF Covered
<1>6. ASSUME NEW a \in Auths, NEW p \in Pids PROVE Covers(a, call[p])'
  <2>1. KeptOwned /\ OthersSettled(a) /\ Covers(a, call[p])
    BY DEF Covered
  <2>2. QED
    BY <2>1, CallsCovered
<1>7. QED
  BY <1>2, <1>3, <1>4, <1>5, <1>6 DEF Covered

LEMMA InitCovered == Init => Covered
<1> SUFFICES ASSUME Init PROVE Covered
  OBVIOUS
<1>1. call = [p \in Pids |-> Closed]
  BY DEF Init
<1>2. \A t \in Tasks \ Old : tasks[t].ext = 0 /\ kept[t] = None /\ ledger[t] = None
  <2>1. \A t \in Tasks \ Old : tasks[t] = NoRow /\ kept[t] = None /\ ledger[t] = None
    BY InitTables
  <2>2. NoRow.ext = 0
    BY DEF NoRow
  <2>3. QED
    BY <2>1, <2>2
<1>3. KeptOwned /\ AskedOwned
  BY <1>2 DEF KeptOwned, AskedOwned
<1>4. SentUnused
  BY <1>1 DEF SentUnused, Closed
<1>5. ASSUME NEW a \in Auths, NEW t \in InLedger
      PROVE  ledger[t].status # "reserved"
  <2>1. t \in Tasks /\ ledger[t] # None
    BY <1>5 DEF InLedger
  <2>2. PICK n \in DOMAIN History : History[n].task = t
    BY <1>2, <2>1, OldOrNew
  <2>3. ledger[t] = [status |-> History[n].outcome, scope |-> History[n].scope,
                     reserved |-> History[n].reserved, usage |-> History[n].usage]
    BY <2>1, <2>2, InitTables
  <2>4. QED
    BY <2>3, PastFacts
<1>6. \A a \in Auths : OthersSettled(a)
  BY <1>5 DEF OthersSettled
<1>7. \A a \in Auths, p \in Pids : Covers(a, call[p])
  BY <1>1, FreeCovers DEF Closed, Reading
<1>8. QED
  BY <1>3, <1>4, <1>6, <1>7 DEF Covered

-----------------------------------------------------------------------------
(* What a reservation is checked against.                                  *)

(* All that may count: the rows, the old missions, the reconciled ones.    *)
Known(a) == InLedger \cup Old \cup Reconciled(a)

LEMMA KnownSplits ==
  ASSUME IInv, NEW a \in Auths, NoOrphans(a)
  PROVE  /\ Known(a) = InScope(a.scope) \cup Behind(a, "reserve")
         /\ InScope(a.scope) \cap Behind(a, "reserve") = {}
         /\ Known(a) \subseteq Tasks
<1>1. Known(a) \subseteq Tasks
  BY TableFacts DEF Known, InLedger, Reconciled
<1>2. InLedger = InScope(a.scope) \cup MappedRows(a)
  BY DEF NoOrphans, InScope, MappedRows
<1>3. InScope(a.scope) \cap MappedRows(a) = {}
  BY DEF InScope, MappedRows
<1>4. Behind(a, "reserve") = Carried(a) \cup MappedRows(a)
  BY DEF Behind
<1>5. QED
  BY <1>1, <1>2, <1>3, <1>4 DEF Known, Carried

(* The check of the reserving transaction, with what the call read before. *)
LEMMA ReservationFits ==
  ASSUME IInv, NEW a \in Auths, NEW c \in Calls, c.pc = "reserve", Covers(a, c),
         NEW bound \in Amounts, Fits(a, bound, c.historic)
  PROVE  /\ NoOrphans(a) /\ Proven(a)
         /\ \A q \in Tokens : Sum(Counts(a, q), Known(a)) + bound[q] <= a.caps[q]
         /\ Cardinality(Known(a)) + 1 <= a.requestCap
<1>1. NoOrphans(a) /\ Proven(a) /\ c.historic \in Historic
  BY CallShapes DEF Covers, Reading
<1>2. PICK X : X = InScope(a.scope)
  OBVIOUS
<1>3. PICK H : H = Behind(a, "reserve")
  OBVIOUS
<1>4. /\ Known(a) = X \cup H /\ X \cap H = {} /\ X \cup H \subseteq Tasks
      /\ X \subseteq InLedger
  BY <1>1, <1>2, <1>3, KnownSplits DEF InScope
<1>5. /\ IsFiniteSet(X) /\ IsFiniteSet(H)
      /\ Cardinality(X) \in Nat /\ Cardinality(H) \in Nat
  BY <1>4, SubsetOfTasks
<1>6. ASSUME NEW q \in Tokens
      PROVE  Sum(Counts(a, q), Known(a)) + bound[q] <= a.caps[q]
  <2>1. PICK f : f = Counts(a, q)
    OBVIOUS
  <2>2. \A t \in X \cup H : f[t] \in Nat
    BY <1>1, <1>4, <2>1, CountedType
  <2>3. Sum(f, X \cup H) = Sum(f, X) + Sum(f, H)
    BY <1>4, <1>5, <2>2, SumUnion
  <2>4. Sum(f, X) \in Nat /\ Sum(f, H) \in Nat
    BY <1>5, <2>2, SumType
  <2>5. Sum(f, H) <= c.historic.tokens[q]
    BY <1>3, <2>1 DEF Covers
  <2>6. Sum(f, X) = Charged(X)[q]
    BY <1>4, <2>1, ChargedIs
  <2>7. Charged(X)[q] + c.historic.tokens[q] + bound[q] <= a.caps[q]
    BY <1>2 DEF Fits, Within, Plus
  <2>8. c.historic.tokens[q] \in Nat /\ bound[q] \in Nat /\ a.caps[q] \in Nat
    BY <1>1, AuthFacts DEF Historic, Amounts
  <2>9. Sum(f, X \cup H) + bound[q] <= a.caps[q]
    BY <2>3, <2>4, <2>5, <2>6, <2>7, <2>8
  <2>10. QED
    BY <1>4, <2>1, <2>9
<1>7. Cardinality(Known(a)) + 1 <= a.requestCap
  <2>1. Cardinality(X \cup H) = Cardinality(X) + Cardinality(H) - Cardinality(X \cap H)
    BY <1>5, FS_Union
  <2>2. Cardinality(X \cap H) = 0
    BY <1>4, FS_EmptySet
  <2>3. Cardinality(H) <= c.historic.requests
    BY <1>3 DEF Covers
  <2>4. Cardinality(X) + c.historic.requests + 1 <= a.requestCap
    BY <1>2 DEF Fits
  <2>5. c.historic.requests \in Nat /\ a.requestCap \in Nat
    BY <1>1, AuthFacts DEF Historic
  <2>6. QED
    BY <1>4, <1>5, <2>1, <2>2, <2>3, <2>4, <2>5
<1>8. QED
  BY <1>1, <1>6, <1>7

(* Only its own reservation takes a call past the check. *)
LEMMA FromReserve ==
  ASSUME IInv, [Next]_vars, NEW p \in Pids,
         call[p].pc = "reserve", call'[p].pc = "ensure"
  PROVE  /\ Auth(p) \in Auths /\ call[p] \in Calls /\ call[p].bound \in Amounts
         /\ Fits(Auth(p), call[p].bound, call[p].historic)
<1>1. /\ DOMAIN call = Pids /\ call[p] \in Calls /\ Auth(p) \in Auths
      /\ call[p].bound \in Amounts
  BY CallFacts, CallShapes DEF Auth
<1>2. ASSUME NEW r \in Pids, r # p, NEW d, Goto(r, d) PROVE FALSE
  BY <1>1, <1>2 DEF Goto
<1>3. ASSUME NEW r \in Pids, Start(r) \/ Exit(r) PROVE FALSE
  BY <1>1, <1>3 DEF Start, Exit, Goto, Closed
<1>4. ASSUME NEW r \in Pids,
             Open(r) \/ Dispatch(r) \/ ReadKeys(r) \/ ReadMissions(r) \/ ReadMapped(r)
      PROVE  FALSE
  <2>1. call[r].pc # "reserve" /\ \E d : Goto(r, d)
    BY <1>4 DEF Open, Dispatch, ReadKeys, ReadMissions, ReadMapped, At
  <2>2. QED
    BY <1>2, <2>1
<1>5. ASSUME NEW r \in Pids,
             Ensure(r) \/ ClaimTask(r) \/ Send(r) \/ Transport(r)
      PROVE  FALSE
  <2>1. call[r].pc # "reserve" /\ \E d : Goto(r, d)
    BY <1>5 DEF Ensure, ClaimTask, Send, Transport, At
  <2>2. QED
    BY <1>2, <2>1
<1>6. ASSUME NEW r \in Pids,
             \/ RecordTimeout(r) \/ RecordReject(r) \/ SealLedger(r)
             \/ SealMissions(r) \/ SealCommit(r) \/ SettleUsage(r)
             \/ Unexpected(r) \/ SettleUnexpected(r)
      PROVE  FALSE
  <2>1. call[r].pc # "reserve" /\ \E d : Goto(r, d)
    BY <1>6 DEF RecordTimeout, RecordReject, SealLedger, SealMissions, SealCommit,
       SettleUsage, Unexpected, SettleUnexpected, ToSettle, At
  <2>2. QED
    BY <1>2, <2>1
<1>7. ASSUME UNCHANGED vars PROVE FALSE
  BY <1>7 DEF vars
<1>8. PICK r \in Pids : ReserveBudget(r)
  BY <1>3, <1>4, <1>5, <1>6, <1>7, Zenon DEF Next
<1>9. \/ /\ Reserve(Auth(r), call[r].task, call[r].bound, call[r].historic)
         /\ Goto(r, [pc |-> "ensure", auth |-> Auth(r), task |-> call[r].task])
      \/ Goto(r, Idle(Auth(r)))
  BY <1>8 DEF ReserveBudget
<1>10. r = p
  BY <1>2, <1>9
<1>11. ~ Goto(p, Idle(Auth(p)))
  BY <1>1, IdleFree DEF Goto
<1>12. QED
  BY <1>1, <1>9, <1>10, <1>11 DEF Reserve

(* What the tables and an authorisation say of an old mission.             *)
LEMMA PastTold ==
  ASSUME IInv, NEW t \in Old, NEW a \in Auths
  PROVE  /\ t \in Tasks /\ tasks[t].ext = 1
         /\ AgreedPast /\ kept[t] # None /\ a.prior[t] # None
              => Within(a.prior[t], kept[t])
         /\ TruthfulPast =>
              \A u \in {kept[t], a.prior[t]} : u # None => Within(spent[t], u)
<1>1. PICK n \in DOMAIN History : History[n].task = t
  BY DEF Old
<1>2. kept[t] = History[n].usage /\ spent[t] = History[n].spent /\ tasks[t].ext = 1
  BY <1>1 DEF IInv, PastKept
<1>3. t \in Tasks
  BY TableFacts
<1>4. QED
  BY <1>1, <1>2, <1>3 DEF TruthfulPast, AgreedPast

LEMMA FitsStep ==
  ASSUME IInv, Covered, [Next]_vars, AgreedPast
  PROVE  ReservationStep
<1> SUFFICES ASSUME NEW p \in Pids, call[p].pc = "reserve", call'[p].pc = "ensure",
                    NEW a, a = Auth(p),
                    NEW rows, rows = InScope(a.scope) \cup MappedRows(a),
                    NEW R, R = {u \in Tasks \ InLedger : a.prior[u] # None},
                    NEW q \in Tokens
             PROVE  Plus(Plus(Charged(rows), Total([u \in R |-> a.prior[u]])),
                         call[p].bound)[q] <= a.caps[q]
  BY DEF ReservationStep, At, Within
<1>1. /\ a \in Auths /\ call[p] \in Calls /\ call[p].bound \in Amounts
      /\ Fits(a, call[p].bound, call[p].historic)
  BY FromReserve
<1>2. Covers(a, call[p]) /\ KeptOwned
  BY <1>1 DEF Covered
<1>3. PICK f : f = Counts(a, q)
  OBVIOUS
<1>4. PICK prior : prior = [u \in R |-> a.prior[u]]
  OBVIOUS
<1>5. PICK g : g = [u \in R |-> prior[u][q]]
  OBVIOUS
<1>6. PICK K : K = Known(a)
  OBVIOUS
<1>7. NoOrphans(a) /\ Proven(a) /\ Sum(f, K) + call[p].bound[q] <= a.caps[q]
  BY <1>1, <1>2, <1>3, <1>6, ReservationFits
<1>8. /\ rows \subseteq InLedger /\ rows \cap R = {} /\ rows \cup R \subseteq K
      /\ K \subseteq Tasks
  <2>1. rows \subseteq InLedger /\ R \subseteq Reconciled(a) /\ R \cap InLedger = {}
    BY DEF InScope, MappedRows, Reconciled
  <2>2. K \subseteq Tasks
    BY <1>1, <1>6, <1>7, KnownSplits
  <2>3. QED
    BY <1>6, <2>1, <2>2 DEF Known
<1>9. IsFiniteSet(rows) /\ IsFiniteSet(R) /\ IsFiniteSet(K)
  BY <1>8, SubsetOfTasks
<1>10. \A t \in K : f[t] \in Nat
  BY <1>1, <1>3, <1>7, <1>8, CountedType
<1>11. ASSUME NEW u \in R
       PROVE  f[u] \in Nat /\ g[u] \in Nat /\ g[u] <= f[u]
  <2>1. u \in Tasks /\ u \notin InLedger /\ a.prior[u] # None /\ u \in K
    BY <1>8
  <2>2. Counted(a, u) = Item(a, u)
    BY <2>1 DEF Counted, Reconciled
  <2>3. kept[u] # None => Within(a.prior[u], kept[u])
    BY <1>1, <1>2, <2>1, PastTold DEF KeptOwned
  <2>4. f[u] = Item(a, u)[q] /\ g[u] = a.prior[u][q]
    BY <1>3, <1>4, <1>5, <2>1, <2>2 DEF Counts
  <2>5. g[u] \in Nat
    BY <1>1, <2>1, <2>4, AuthFacts DEF Amounts
  <2>6. f[u] \in Nat
    BY <1>10, <2>1
  <2>7. QED
    BY <2>3, <2>4, <2>5, <2>6 DEF Item, Within
<1>12. Charged(rows)[q] = Sum(f, rows)
  BY <1>1, <1>3, <1>8, ChargedIs
<1>13. Total(prior)[q] \in Nat /\ Total(prior)[q] <= Sum(f, R)
  <2>1. Total(prior)[q] = Sum(g, R)
    BY <1>4, <1>5, <1>9, TotalIs
  <2>2. Sum(g, R) <= Sum(f, R)
    BY <1>9, <1>11, SumMonotone
  <2>3. Sum(g, R) \in Nat
    BY <1>9, <1>11, SumType
  <2>4. QED
    BY <2>1, <2>2, <2>3
<1>14. Sum(f, rows) + Sum(f, R) <= Sum(f, K)
  <2>1. Sum(f, rows \cup R) = Sum(f, rows) + Sum(f, R)
    BY <1>8, <1>9, <1>10, SumUnion
  <2>2. PICK S : S = rows \cup R
    OBVIOUS
  <2>3. Sum(f, S) <= Sum(f, K)
    BY <1>8, <1>9, <1>10, <2>2, SumSubset
  <2>4. QED
    BY <2>1, <2>2, <2>3
<1>15. /\ Sum(f, rows) \in Nat /\ Sum(f, R) \in Nat /\ Sum(f, K) \in Nat
       /\ call[p].bound[q] \in Nat /\ a.caps[q] \in Nat
  BY <1>1, <1>8, <1>9, <1>10, SumType, AuthFacts DEF Amounts
<1>16. Plus(Plus(Charged(rows), Total(prior)), call[p].bound)[q]
         = Sum(f, rows) + Total(prior)[q] + call[p].bound[q]
  BY <1>12 DEF Plus
<1>17. QED
  BY <1>4, <1>7, <1>13, <1>14, <1>15, <1>16

-----------------------------------------------------------------------------
(* What counts stays within the caps.                                      *)

LEMMA SumZero ==
  ASSUME NEW S, IsFiniteSet(S), NEW f, \A x \in S : f[x] = 0
  PROVE  Sum(f, S) = 0
<1> DEFINE T == {R \in SUBSET S : Sum(f, R) # 0}
<1> SUFFICES ASSUME T # {} PROVE FALSE
  OBVIOUS
<1>1. PICK R \in T : \A U \in T : U \subseteq R => U = R
  <2>1. T \subseteq SUBSET S
    OBVIOUS
  <2> HIDE DEF T
  <2>2. QED
    BY <2>1, LeastSubset
<1>2. IsFiniteSet(R) /\ R # {}
  BY <1>1, FS_Subset, SumEmpty
<1>3. Pick(R) \in R
  BY <1>2, PickIn
<1>4. Sum(f, R \ {Pick(R)}) = 0
  BY <1>1, <1>3
<1>5. Sum(f, R) = f[Pick(R)] + Sum(f, R \ {Pick(R)})
  BY <1>2, SumPicks
<1>6. QED
  BY <1>1, <1>3, <1>4, <1>5

(* A task nobody knows of counts for nothing. *)
LEMMA AllCounted ==
  ASSUME IInv, NEW a \in Auths, Proven(a), NEW q \in Tokens
  PROVE  Sum(Counts(a, q), Tasks) = Sum(Counts(a, q), Known(a))
<1>1. PICK f : f = Counts(a, q)
  OBVIOUS
<1>2. PICK K : K = Known(a)
  OBVIOUS
<1>3. PICK R : R = Tasks \ K
  OBVIOUS
<1>4. K \subseteq Tasks /\ K \cup R = Tasks /\ K \cap R = {}
  BY <1>2, <1>3, TableFacts DEF Known, InLedger, Reconciled
<1>5. IsFiniteSet(K) /\ IsFiniteSet(R)
  BY <1>4, SubsetOfTasks
<1>6. \A t \in K \cup R : f[t] \in Nat
  BY <1>1, <1>4, CountedType
<1>7. \A t \in R : f[t] = 0
  BY <1>1, <1>2, <1>3 DEF Counts, Counted, Known, Zero
<1>8. Sum(f, R) = 0
  BY <1>5, <1>7, SumZero
<1>9. Sum(f, K \cup R) = Sum(f, K) + Sum(f, R)
  BY <1>4, <1>5, <1>6, SumUnion
<1>10. Sum(f, K) \in Nat
  BY <1>5, <1>6, SumType
<1>11. QED
  BY <1>1, <1>2, <1>4, <1>8, <1>9, <1>10

LEMMA ProvenStays ==
  ASSUME IInv, Covered, [Next]_vars, OneBudget, NEW a \in Auths, Proven(a), NoOrphans(a)
  PROVE  Proven(a)' /\ NoOrphans(a)'
<1>1. OthersSettled(a)
  BY DEF Covered
<1>2. QED
  BY <1>1, CarriedStays, ScopesStay

(* A reservation that was checked leaves the balance in order.             *)
LEMMA BalancedByReserve ==
  ASSUME IInv, IInv', Covered, [Next]_vars, OneBudget, NEW a \in Auths,
         NEW t \in Tasks, ledger[t] = None, ledger'[t] # None
  PROVE  Balanced(a)'
<1>1. PICK p \in Pids :
        /\ call[p].pc = "reserve" /\ Auth(p) \in Auths /\ call[p].bound \in Amounts
        /\ Reserve(Auth(p), t, call[p].bound, call[p].historic)
  BY NewRow
<1>2. call[p] \in Calls /\ Covers(a, call[p])
  BY CallFacts DEF Covered
<1>3. PICK bound \in Amounts : bound = call[p].bound
  BY <1>1
<1>4. Fits(a, bound, call[p].historic)
  <2>1. /\ a.scope = Auth(p).scope /\ a.caps = Auth(p).caps
        /\ a.requestCap = Auth(p).requestCap
    BY <1>1, SameBudget
  <2>2. Fits(Auth(p), bound, call[p].historic)
    BY <1>1, <1>3 DEF Reserve
  <2>3. QED
    BY <2>1, <2>2 DEF Fits
<1>5. /\ NoOrphans(a) /\ Proven(a)
      /\ \A q \in Tokens : Sum(Counts(a, q), Known(a)) + bound[q] <= a.caps[q]
      /\ Cardinality(Known(a)) + 1 <= a.requestCap
  BY <1>1, <1>2, <1>4, ReservationFits
<1>6. Proven(a)' /\ NoOrphans(a)'
  BY <1>5, ProvenStays
<1>7. /\ \A u \in Tasks : u # t => ledger'[u] = ledger[u]
      /\ ledger'[t].usage = None /\ ledger'[t].reserved = bound
  BY <1>1, <1>3, TableFacts DEF Reserve
<1>8. InLedger' = InLedger \cup {t}
  BY <1>7 DEF InLedger
<1>9. \A u \in Tasks : kept'[u] = kept[u] \/ u = t \/ u \in InLedger
  BY KeptByHolder
<1>10. kept' = kept
  <2>1. PICK r \in Pids : ReserveBudget(r)
    BY NewRow
  <2>2. QED
    BY <2>1 DEF ReserveBudget
<1>11. ASSUME NEW q \in Tokens
       PROVE  Sum(Counts(a, q), Tasks)' <= a.caps[q]
  <2>1. PICK f : f = Counts(a, q)
    OBVIOUS
  <2>2. PICK g : g = Counts(a, q)'
    OBVIOUS
  <2>3. PICK R : R = Tasks \ {t}
    OBVIOUS
  <2>4. \A u \in Tasks : f[u] \in Nat
    BY <1>5, <2>1, CountedType
  <2>5. \A u \in R : g[u] = f[u]
    <3> SUFFICES ASSUME NEW u \in R PROVE g[u] = f[u]
      OBVIOUS
    <3>1. u \in Tasks /\ u # t /\ ledger'[u] = ledger[u] /\ (u \in InLedger' <=> u \in InLedger)
      BY <1>7, <1>8, <2>3
    <3>2. Counted(a, u)' = Counted(a, u)
      BY <1>10, <3>1 DEF Counted, Charge, Item, Old, Reconciled, Zero
    <3>3. QED
      BY <2>1, <2>2, <3>1, <3>2 DEF Counts
  <2>6. g[t] = bound[q] /\ bound[q] \in Nat
    <3>1. Counted(a, t)' = bound
      BY <1>7, <1>8 DEF Counted, Charge
    <3>2. QED
      BY <2>2, <3>1 DEF Counts, Amounts
  <2>7. IsFiniteSet(Tasks) /\ IsFiniteSet(R) /\ R \subseteq Tasks
    BY <2>3, SubsetOfTasks
  <2>8. \A u \in Tasks : g[u] \in Nat
    BY <2>3, <2>4, <2>5, <2>6
  <2>9. Sum(g, Tasks) = bound[q] + Sum(g, R)
    BY <2>3, <2>6, <2>7, <2>8, SumPoint
  <2>10. Sum(g, R) = Sum(f, R)
    BY <2>5, <2>7, SumSame
  <2>11. Sum(f, R) <= Sum(f, Tasks) /\ Sum(f, R) \in Nat /\ Sum(f, Tasks) \in Nat
    BY <2>4, <2>7, SumSubset, SumType
  <2>12. Sum(f, Tasks) + bound[q] <= a.caps[q] /\ a.caps[q] \in Nat
    BY <1>5, <2>1, AllCounted, AuthFacts DEF Amounts
  <2>13. Sum(g, Tasks) <= a.caps[q]
    BY <2>6, <2>9, <2>10, <2>11, <2>12
  <2>14. QED
    BY <2>2, <2>13
<1>12. Cardinality(Old \cup InLedger') <= a.requestCap
  <2>1. PICK S : S = Old \cup InLedger'
    OBVIOUS
  <2>2. PICK K : K = Known(a)
    OBVIOUS
  <2>3. K \subseteq Tasks /\ S \subseteq K \cup {t}
    BY <1>8, <2>1, <2>2, TableFacts DEF Known, InLedger, Reconciled
  <2>4. IsFiniteSet(K) /\ Cardinality(K) \in Nat
    BY <2>3, SubsetOfTasks
  <2>5. IsFiniteSet(K \cup {t}) /\ Cardinality(K \cup {t}) <= Cardinality(K) + 1
    BY <2>4, FS_AddElement
  <2>6. Cardinality(S) <= Cardinality(K \cup {t}) /\ Cardinality(S) \in Nat
    BY <2>3, <2>5, FS_Subset, FS_CardinalityType
  <2>7. Cardinality(K) + 1 <= a.requestCap /\ a.requestCap \in Nat
    BY <1>5, <2>2, AuthFacts
  <2>8. Cardinality(K \cup {t}) \in Nat
    BY <2>5, FS_CardinalityType
  <2>9. QED
    BY <2>1, <2>4, <2>5, <2>6, <2>7, <2>8
<1>13. QED
  BY <1>6, <1>11, <1>12 DEF Balanced, Old

(* What a call uses beyond its reservation is never taken back.            *)
LEMMA OverranStays ==
  ASSUME IInv, Covered, [Next]_vars
  PROVE  Overran \subseteq Overran'
<1> SUFFICES ASSUME NEW t \in InLedger, ~ Within(spent[t], ledger[t].reserved)
             PROVE  t \in Overran'
  BY DEF Overran
<1>1. t \in Tasks /\ t \in InLedger' /\ ledger'[t].reserved = ledger[t].reserved
  BY RowMoves DEF InLedger
<1>2. CASE spent'[t] = spent[t]
  BY <1>1, <1>2 DEF Overran
<1>3. CASE spent'[t] # spent[t]
  <2>1. PICK p \in Pids : call[p].pc = "sent" /\ call[p].claim.task = t
    BY <1>1, <1>3, SpentByHolder
  <2>2. spent[t] = Zero
    BY <2>1 DEF Covered, SentUnused
  <2>3. ledger[t].reserved \in Amounts
    BY <1>1, TableFacts DEF InLedger, LedgerRow
  <2>4. QED
    BY <2>2, <2>3 DEF Zero, Within, Amounts
<1>4. QED
  BY <1>2, <1>3

(* Without a new row, nothing counts for more than before.                 *)
LEMMA BalancedStays ==
  ASSUME IInv, IInv', Covered, [Next]_vars, OneBudget, NEW a \in Auths, Balanced(a),
         InLedger' = InLedger
  PROVE  Balanced(a)'
<1>1. Proven(a) /\ NoOrphans(a)
  BY DEF Balanced
<1>2. Proven(a)' /\ NoOrphans(a)'
  BY <1>1, ProvenStays
<1>3. ASSUME Overran' = {}, NEW q \in Tokens
      PROVE  Sum(Counts(a, q), Tasks)' <= a.caps[q]
  <2>1. PICK f : f = Counts(a, q)
    OBVIOUS
  <2>2. PICK g : g = Counts(a, q)'
    OBVIOUS
  <2>3. Overran = {}
    BY <1>3, OverranStays
  <2>4. Sum(f, Tasks) <= a.caps[q]
    BY <2>1, <2>3 DEF Balanced
  <2>5. ASSUME NEW t \in Tasks
        PROVE  f[t] \in Nat /\ g[t] \in Nat /\ g[t] <= f[t]
    <3>1. f[t] = Counted(a, t)[q] /\ f[t] \in Nat
      BY <1>1, <2>1, CountedType
    <3>2. g[t] = Counted(a, t)'[q]
      BY <2>2 DEF Counts
    <3>3. CASE t \in InLedger
      <4>1. Counted(a, t) = Charge(t) /\ Counted(a, t)' = Charge(t)'
        BY <3>3 DEF Counted
      <4>2. ledger[t] \in LedgerRow /\ spent[t] \in Amounts
        BY <3>3, TableFacts DEF InLedger
      <4>3. Within(spent[t], ledger[t].reserved)
        BY <2>3, <3>3 DEF Overran
      <4>4. CASE ledger'[t] = ledger[t]
        BY <3>1, <3>2, <4>1, <4>4 DEF Charge
      <4>5. CASE ledger'[t] # ledger[t]
        <5>1. /\ ledger[t].usage = None /\ ledger'[t].reserved = ledger[t].reserved
              /\ ledger'[t].usage # None => ledger'[t].usage = spent[t]
          BY <3>3, <4>5, RowMoves
        <5>2. Charge(t) = ledger[t].reserved
          BY <5>1 DEF Charge
        <5>3. Charge(t)' = spent[t] \/ Charge(t)' = ledger[t].reserved
          BY <5>1 DEF Charge
        <5>4. ledger[t].reserved[q] \in Nat /\ spent[t][q] \in Nat
          BY <4>2 DEF LedgerRow, Amounts
        <5>5. spent[t][q] <= ledger[t].reserved[q]
          BY <4>3 DEF Within
        <5>6. QED
          BY <3>1, <3>2, <4>1, <5>2, <5>3, <5>4, <5>5
      <4>6. QED
        BY <4>4, <4>5
    <3>4. CASE t \notin InLedger
      <4>1. kept'[t] = kept[t]
        BY <3>4, KeptByHolder
      <4>2. Counted(a, t)' = Counted(a, t)
        BY <3>4, <4>1 DEF Counted, Item, Old, Reconciled, Zero
      <4>3. QED
        BY <3>1, <3>2, <4>2
    <3>5. QED
      BY <3>3, <3>4
  <2>6. IsFiniteSet(Tasks)
    BY TasksAssumption
  <2>7. Sum(g, Tasks) <= Sum(f, Tasks) /\ Sum(g, Tasks) \in Nat /\ Sum(f, Tasks) \in Nat
    BY <2>5, <2>6, SumMonotone, SumType
  <2>8. a.caps[q] \in Nat
    BY AuthFacts DEF Amounts
  <2>9. Sum(g, Tasks) <= a.caps[q]
    BY <2>4, <2>7, <2>8
  <2>10. QED
    BY <2>2, <2>9
<1>4. Cardinality(Old \cup InLedger') <= a.requestCap
  BY DEF Balanced
<1>5. QED
  BY <1>2, <1>3, <1>4 DEF Balanced, Old

(* While this version has reserved nothing, it uses nothing either.        *)
LEMMA UnspentStays ==
  ASSUME IInv, IInv', Covered, [Next]_vars, InLedger \subseteq Old, SpendWithinCaps
  PROVE  SpendWithinCaps'
<1>1. \A t \in Tasks : spent'[t] = spent[t]
  BY SpentByHolder
<1>2. spent' = spent
  <2>1. DOMAIN spent = Tasks
    BY TableFacts
  <2>2. spent' = spent \/ \E p \in Pids : Transport(p)
    BY Frames
  <2>3. ASSUME NEW p \in Pids, Transport(p) PROVE spent' = spent
    <3>1. PICK t, u : spent' = [spent EXCEPT ![t] = u]
      BY <2>3 DEF Transport
    <3>2. DOMAIN spent' = Tasks /\ spent' = [x \in Tasks |-> spent'[x]]
      BY <2>1, <3>1
    <3>3. spent = [x \in Tasks |-> spent[x]]
      BY DEF IInv, TypeOK
    <3>4. QED
      BY <1>1, <3>2, <3>3
  <2>4. QED
    BY <2>2, <2>3
<1>3. PICK A : A = {t \in Tasks : tasks[t].ext > 0}
  OBVIOUS
<1>4. PICK B : B = {t \in Tasks : tasks'[t].ext > 0}
  OBVIOUS
<1>5. B \subseteq A
  <2> SUFFICES ASSUME NEW t \in Tasks, tasks'[t].ext > 0 PROVE tasks[t].ext > 0
    BY <1>3, <1>4
  <2>1. tasks'[t].ext = 1
    BY DEF IInv, JournalInv, DispatchedOnce
  <2>2. tasks[t].ext = 1 \/ t \in InLedger
    BY <2>1, AskedByHolder
  <2>3. t \in Old => tasks[t].ext = 1
    BY DEF Old, IInv, PastKept
  <2>4. QED
    BY <2>2, <2>3
<1>6. IsFiniteSet(A) /\ Cardinality(A) \in Nat /\ Cardinality(B) \in Nat
  BY <1>3, <1>4, SubsetOfTasks
<1>7. Cardinality(B) <= Cardinality(A)
  BY <1>5, <1>6, FS_Subset
<1>8. ASSUME NEW a \in Auths
      PROVE  /\ Overran' = {} => Within(Total(spent'), a.caps)
             /\ Cardinality(B) <= a.requestCap
  <2>1. a.requestCap \in Nat
    BY AuthFacts
  <2>2. Cardinality(A) <= a.requestCap
    BY <1>3 DEF SpendWithinCaps
  <2>3. Overran = {} => Within(Total(spent), a.caps)
    BY DEF SpendWithinCaps
  <2>4. Overran' = {} => Overran = {}
    BY OverranStays
  <2>5. QED
    BY <1>2, <1>6, <1>7, <2>1, <2>2, <2>3, <2>4
<1>9. QED
  BY <1>4, <1>8 DEF SpendWithinCaps

LEMMA WithinBudgetStep ==
  ASSUME IInv, IInv', Covered, [Next]_vars, OneBudget, WithinBudget
  PROVE  WithinBudget'
<1>1. InLedger \subseteq InLedger'
  <2>1. \A t \in InLedger : t \in InLedger'
    BY RowMoves
  <2>2. QED
    BY <2>1
<1>2. CASE InLedger' # InLedger
  <2>1. PICK t \in Tasks : ledger[t] = None /\ ledger'[t] # None
    BY <1>1, <1>2 DEF InLedger
  <2>2. ASSUME NEW a \in Auths PROVE Balanced(a)'
    BY <2>1, BalancedByReserve
  <2>3. QED
    BY <2>2 DEF WithinBudget
<1>3. CASE InLedger' = InLedger /\ InLedger \subseteq Old /\ SpendWithinCaps
  BY <1>3, UnspentStays DEF WithinBudget, Old
<1>4. CASE InLedger' = InLedger /\ \A a \in Auths : Balanced(a)
  <2>1. ASSUME NEW a \in Auths PROVE Balanced(a)'
    BY <1>4, BalancedStays
  <2>2. QED
    BY <2>1 DEF WithinBudget
<1>5. QED
  BY <1>2, <1>3, <1>4 DEF WithinBudget

(* What counts is at least what was used.                                  *)
LEMMA SpentCounted ==
  ASSUME IInv, TruthfulPast, NEW a \in Auths, Proven(a), Overran = {},
         NEW t \in Tasks, NEW q \in Tokens
  PROVE  spent[t][q] <= Counted(a, t)[q]
<1>1. spent[t] \in Amounts /\ RowGood(t)
  BY TableFacts DEF IInv, RowsGood
<1>2. CASE t \in InLedger
  <2>1. Counted(a, t) = Charge(t)
    BY <1>2 DEF Counted
  <2>2. CASE ledger[t].usage = None
    BY <1>2, <2>1, <2>2 DEF Charge, Overran, Within
  <2>3. CASE ledger[t].usage # None
    <3>1. Charge(t) = ledger[t].usage /\ kept[t] = ledger[t].usage
      BY <1>1, <1>2, <2>3 DEF Charge, RowGood, FollowsAt, InLedger
    <3>2. CASE t \in Old
      <4>1. Within(spent[t], kept[t])
        BY <2>3, <3>1, <3>2, PastTold
      <4>2. QED
        BY <2>1, <3>1, <4>1 DEF Within
    <3>3. CASE t \notin Old
      <4>1. ledger[t].usage = spent[t]
        BY <1>1, <1>2, <2>3, <3>3 DEF RowGood, RowTrue, InLedger
      <4>2. QED
        BY <1>1, <2>1, <3>1, <4>1 DEF Amounts
    <3>4. QED
      BY <3>2, <3>3
  <2>4. QED
    BY <2>2, <2>3
<1>3. CASE t \in Old \ InLedger
  <2>1. Counted(a, t) = Item(a, t) /\ Item(a, t) \in {kept[t], a.prior[t]}
    BY <1>3 DEF Counted, Item
  <2>2. Item(a, t) # None
    BY <1>3 DEF Item, Proven, Unproven
  <2>3. Within(spent[t], Item(a, t))
    BY <1>3, <2>1, <2>2, PastTold
  <2>4. QED
    BY <2>1, <2>3 DEF Within
<1>4. CASE t \notin Old \cup InLedger
  <2>1. spent[t] = Zero
    BY <1>1, <1>4 DEF RowGood, AskedAt, InLedger
  <2>2. Counted(a, t)[q] \in Nat
    BY CountedType
  <2>3. QED
    BY <2>1, <2>2 DEF Zero
<1>5. QED
  BY <1>2, <1>3, <1>4

LEMMA BalancedEnough ==
  ASSUME IInv, Covered, TruthfulPast, NEW a \in Auths, Balanced(a)
  PROVE  /\ Overran = {} => Within(Total(spent), a.caps)
         /\ Cardinality({t \in Tasks : tasks[t].ext > 0}) <= a.requestCap
<1>1. ASSUME Overran = {}, NEW q \in Tokens
      PROVE  Total(spent)[q] <= a.caps[q]
  <2>1. PICK f : f = [t \in Tasks |-> spent[t][q]]
    OBVIOUS
  <2>2. PICK g : g = Counts(a, q)
    OBVIOUS
  <2>3. \A t \in Tasks : f[t] \in Nat /\ g[t] \in Nat /\ f[t] <= g[t]
    <3> SUFFICES ASSUME NEW t \in Tasks
                 PROVE  f[t] \in Nat /\ g[t] \in Nat /\ f[t] <= g[t]
      OBVIOUS
    <3>1. f[t] = spent[t][q] /\ f[t] \in Nat
      BY <2>1, TableFacts DEF Amounts
    <3>2. g[t] = Counted(a, t)[q] /\ g[t] \in Nat
      BY <2>2, CountedType DEF Balanced
    <3>3. spent[t][q] <= Counted(a, t)[q]
      BY <1>1, SpentCounted DEF Balanced
    <3>4. QED
      BY <3>1, <3>2, <3>3
  <2>4. IsFiniteSet(Tasks) /\ DOMAIN spent = Tasks
    BY TasksAssumption, TableFacts
  <2>5. Total(spent)[q] = Sum(f, Tasks)
    BY <2>1, <2>4, TotalIs
  <2>6. Sum(f, Tasks) <= Sum(g, Tasks)
    BY <2>3, <2>4, SumMonotone
  <2>7. Sum(f, Tasks) \in Nat /\ Sum(g, Tasks) \in Nat
    BY <2>3, <2>4, SumType
  <2>8. Sum(g, Tasks) <= a.caps[q]
    BY <1>1, <2>2 DEF Balanced
  <2>9. a.caps[q] \in Nat
    BY AuthFacts DEF Amounts
  <2>10. QED
    BY <2>5, <2>6, <2>7, <2>8, <2>9
<1>2. PICK E : E = {t \in Tasks : tasks[t].ext > 0}
  OBVIOUS
<1>3. PICK S : S = Old \cup InLedger
  OBVIOUS
<1>4. E \subseteq S
  <2> SUFFICES ASSUME NEW t \in Tasks, tasks[t].ext > 0 PROVE t \in S
    BY <1>2
  <2>1. tasks[t].ext = 1
    BY DEF IInv, JournalInv, DispatchedOnce
  <2>2. QED
    BY <1>3, <2>1 DEF Covered, AskedOwned
<1>5. /\ IsFiniteSet(S) /\ Cardinality(S) \in Nat /\ Cardinality(E) \in Nat
      /\ a.requestCap \in Nat
  <2>1. S \subseteq Tasks /\ E \subseteq Tasks
    BY <1>2, <1>3, TableFacts DEF InLedger
  <2>2. QED
    BY <2>1, SubsetOfTasks, AuthFacts
<1>6. Cardinality(E) <= Cardinality(S) /\ Cardinality(S) <= a.requestCap
  BY <1>3, <1>4, <1>5, FS_Subset DEF Balanced
<1>7. Cardinality(E) <= a.requestCap
  BY <1>5, <1>6
<1>8. QED
  BY <1>1, <1>2, <1>7 DEF Within

-----------------------------------------------------------------------------
(* A new reservation fits the caps of its authorisation together with the  *)
(* rows of its scope, digest and lineage as they stand in the reserving    *)
(* transaction and the reconciled missions, although the call read those   *)
(* in earlier steps (_historic_usage_items, reserve_provider_usage).       *)
THEOREM ReservationsFit ==
  ASSUME OneBudget, AgreedPast
  PROVE  Spec => FitsTheLedger
<1>1. IInv /\ Covered /\ [Next]_vars => IInv' /\ Covered'
  BY StepInv, CoveredStep
<1>2. Init => IInv /\ Covered
  BY InitInv, InitCovered
<1>3. IInv /\ Covered /\ [Next]_vars => [ReservationStep]_vars
  BY FitsStep
<1>4. QED
  BY <1>1, <1>2, <1>3, PTL DEF Spec, FitsTheLedger

(* What the provider really used stays within the caps, and so does the    *)
(* number of requests, unless a single call uses more than it reserved:    *)
(* whatever crashes, freezes or is answered without its usage. The caps    *)
(* have to hold for the earlier missions to begin with.                    *)
THEOREM SpendStays ==
  ASSUME OneBudget, TruthfulPast
  PROVE  Spec /\ SpendWithinCaps => []SpendWithinCaps
<1> DEFINE Inv == IInv /\ Covered /\ WithinBudget
<1>1. Init /\ SpendWithinCaps => Inv
  <2> SUFFICES ASSUME Init, SpendWithinCaps PROVE Inv
    OBVIOUS
  <2>1. \A t \in Tasks \ Old : ledger[t] = None
    BY InitTables
  <2>2. InLedger \subseteq Old
    BY <2>1 DEF InLedger
  <2>3. QED
    BY <2>2, InitInv, InitCovered DEF WithinBudget
<1>2. Inv /\ [Next]_vars => Inv'
  BY StepInv, CoveredStep, WithinBudgetStep
<1>3. Inv => SpendWithinCaps
  BY BalancedEnough DEF WithinBudget, SpendWithinCaps
<1>4. QED
  BY <1>1, <1>2, <1>3, PTL DEF Spec
=============================================================================
