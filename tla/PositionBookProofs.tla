------------------------- MODULE PositionBookProofs -------------------------
(***************************************************************************)
(* Proofs about PositionBook, for every finite set of orders and           *)
(* settlements and every size, price and payout:                           *)
(*  - every amount stays typed (PositionTyped) and no lots are priced that *)
(*    are not held (WithinInventoryHolds), from Inv;                       *)
(*  - the book ends at the wallet's inventory (InventoryTruthHolds), from  *)
(*    BalanceInv: wallet and position differ by what is yet unheard of and *)
(*    by what was counted twice;                                           *)
(*  - no money is lost or invented (MoneyConservedHolds), from MoneyInv.   *)
(*                                                                         *)
(* Balance and money are sums over orders; the first section proves what   *)
(* is needed of sums over finite sets.                                     *)
(***************************************************************************)
EXTENDS PositionBook, FiniteSetTheorems, TLAPS

\* Nothing costs nothing: a size of 0 has no notional but 0.
ZeroIsFree(e) == e.size = 0 => e.notional \in {0, Unpriced}

\* What every report of apply_cumulative_execution is, whoever sends it.
Report == {e \in [size : Nat, notional : Nat \cup {Unpriced}, quality : {Bound, Exact}] :
               ZeroIsFree(e)}

\* The part of the invariant that is about the book's own row.
RowInv(r) == r \in Record /\ r.priced <= r.quantity /\ (r.quantity = 0 => r.cost = 0)

\* WithinInventory alone is not inductive: a correction of a size of 0 would give a
\* flat position a cost, so neither the venue nor the book may hold one.
Inv == /\ TypeOK
       /\ WithinInventory
       /\ \A o \in Order : ZeroIsFree(exec[o])
       /\ \A o \in Order : \A e \in venue[o] : ZeroIsFree(e)

-----------------------------------------------------------------------------
(* Sums over finite sets *)

\* Induction over the finite subsets of a set: one of the smallest exceptions.
LEMMA SmallestSet ==
    ASSUME NEW S, NEW T \in SUBSET FiniteSubsetsOf(S), T # {}
    PROVE  \E X \in T : \A Y \in T : ~(Y \subseteq X /\ Y # X)
<1>1. IsWellFoundedOn(StrictSubsetOrdering(S), FiniteSubsetsOf(S))
  BY FS_StrictSubsetOrderingWellFounded
<1>2. T \subseteq FiniteSubsetsOf(S)
  OBVIOUS
<1>3. \E X \in T : \A Y \in T : ~ (<<Y, X>> \in StrictSubsetOrdering(S))
  BY <1>1, <1>2, WFMin
<1>. QED BY <1>2, <1>3 DEF StrictSubsetOrdering, FiniteSubsetsOf

\* The recursion that SumFunctionOnSet(f, S) stands for.
First(s) == CHOOSE x \in s : TRUE
Summation(f, S, g) ==
    g = [s \in SUBSET S |-> IF s = {} THEN 0 ELSE f[First(s)] + g[s \ {First(s)}]]

LEMMA SumIsRecursion ==
    ASSUME NEW f, NEW S
    PROVE  SumFunctionOnSet(f, S) = (CHOOSE g : Summation(f, S, g))[S]
BY DEF SumFunctionOnSet, FoldFunctionOnSet, MapThenFoldSet, Summation, First

LEMMA SummationAt ==
    ASSUME NEW f, NEW S, NEW g, Summation(f, S, g), NEW s \in SUBSET S
    PROVE  g[s] = IF s = {} THEN 0 ELSE f[First(s)] + g[s \ {First(s)}]
BY DEF Summation

LEMMA FirstIn == ASSUME NEW s, s # {} PROVE First(s) \in s
BY DEF First

\* Two recursions agree where both are defined.
LEMMA SummationUnique ==
    ASSUME NEW f, NEW S, IsFiniteSet(S), NEW T \in SUBSET S,
           NEW g, NEW h, Summation(f, S, g), Summation(f, T, h), NEW s \in SUBSET T
    PROVE  g[s] = h[s]
<1> DEFINE Bad == {u \in SUBSET T : g[u] # h[u]}
<1> SUFFICES ASSUME s \in Bad PROVE FALSE
  OBVIOUS
<1>1. Bad \in SUBSET FiniteSubsetsOf(T)
  BY FS_Subset DEF FiniteSubsetsOf
<1>2. PICK X \in Bad : \A Y \in Bad : ~(Y \subseteq X /\ Y # X)
  <2> HIDE DEF Bad
  <2>. QED BY <1>1, SmallestSet
<1>3. X \in SUBSET T /\ X \in SUBSET S /\ g[X] # h[X]
  OBVIOUS
<1>4. /\ g[X] = IF X = {} THEN 0 ELSE f[First(X)] + g[X \ {First(X)}]
      /\ h[X] = IF X = {} THEN 0 ELSE f[First(X)] + h[X \ {First(X)}]
  <2> HIDE DEF Bad
  <2>1. g[X] = IF X = {} THEN 0 ELSE f[First(X)] + g[X \ {First(X)}]
    BY <1>3, SummationAt
  <2>2. h[X] = IF X = {} THEN 0 ELSE f[First(X)] + h[X \ {First(X)}]
    BY <1>3, SummationAt
  <2>. QED BY <2>1, <2>2
<1>5. X # {} /\ g[X \ {First(X)}] # h[X \ {First(X)}]
  BY <1>3, <1>4
<1>6. X \ {First(X)} \in Bad
  BY <1>3, <1>5
<1>7. X \ {First(X)} # X
  BY <1>5, FirstIn
<1>. QED BY <1>2, <1>6, <1>7

LEMMA SummationExists ==
    ASSUME NEW f, NEW S, IsFiniteSet(S)
    PROVE  \E g : Summation(f, S, g)
<1> DEFINE Bad == {u \in SUBSET S : ~\E g : Summation(f, u, g)}
<1> SUFFICES ASSUME S \in Bad PROVE FALSE
  OBVIOUS
<1>1. Bad \in SUBSET FiniteSubsetsOf(S)
  BY FS_Subset DEF FiniteSubsetsOf
<1>2. PICK X \in Bad : \A Y \in Bad : ~(Y \subseteq X /\ Y # X)
  <2> HIDE DEF Bad
  <2>. QED BY <1>1, SmallestSet
<1>3. X \in SUBSET S /\ ~\E g : Summation(f, X, g)
  OBVIOUS
<1> DEFINE of(u) == CHOOSE g : Summation(f, u, g)
           G == [s \in SUBSET X |-> IF s = {} THEN 0
                                    ELSE f[First(s)] + of(s \ {First(s)})[s \ {First(s)}]]
<1>4. ASSUME NEW u \in SUBSET X, u # X
      PROVE  Summation(f, u, of(u))
  BY <1>2, <1>3, <1>4
<1>5. ASSUME NEW s \in SUBSET X, s # X
      PROVE  G[s] = of(s)[s]
  <2>1. Summation(f, s, of(s)) /\ s \in SUBSET s /\ IsFiniteSet(s)
    BY <1>3, <1>4, <1>5, FS_Subset
  <2> HIDE DEF of
  <2>2. of(s)[s] = IF s = {} THEN 0 ELSE f[First(s)] + of(s)[s \ {First(s)}]
    BY <2>1, SummationAt
  <2>3. ASSUME s # {}
        PROVE  of(s)[s \ {First(s)}] = of(s \ {First(s)})[s \ {First(s)}]
    <3>1. First(s) \in s
      BY <2>3, FirstIn
    <3>2. Summation(f, s \ {First(s)}, of(s \ {First(s)}))
      BY <1>4, <3>1
    <3>3. s \ {First(s)} \in SUBSET s /\ s \ {First(s)} \in SUBSET (s \ {First(s)})
      OBVIOUS
    <3>. QED BY <2>1, <3>2, <3>3, SummationUnique
  <2>. QED BY <2>2, <2>3
<1>6. \A s \in SUBSET X : s # {} => G[s \ {First(s)}] = of(s \ {First(s)})[s \ {First(s)}]
  <2> SUFFICES ASSUME NEW s \in SUBSET X, s # {}
               PROVE  G[s \ {First(s)}] = of(s \ {First(s)})[s \ {First(s)}]
    OBVIOUS
  <2>1. First(s) \in s
    BY FirstIn
  <2>2. s \ {First(s)} \in SUBSET X /\ s \ {First(s)} # X
    BY <2>1
  <2> HIDE DEF G, of
  <2>. QED BY <1>5, <2>2
<1>7. Summation(f, X, G)
  <2> HIDE DEF of
  <2>1. \A s \in SUBSET X : G[s] = IF s = {} THEN 0 ELSE f[First(s)] + G[s \ {First(s)}]
    BY <1>6
  <2>2. G = [s \in SUBSET X |-> G[s]]
    OBVIOUS
  <2> HIDE DEF G
  <2>. QED BY <2>1, <2>2 DEF Summation
<1>. QED BY <1>3, <1>7

LEMMA SumStep ==
    ASSUME NEW f, NEW S, IsFiniteSet(S)
    PROVE  /\ SumFunctionOnSet(f, {}) = 0
           /\ S # {} => SumFunctionOnSet(f, S) = f[First(S)] + SumFunctionOnSet(f, S \ {First(S)})
<1> DEFINE of(u) == CHOOSE g : Summation(f, u, g)
<1>1. ASSUME NEW u, IsFiniteSet(u)
      PROVE  Summation(f, u, of(u)) /\ SumFunctionOnSet(f, u) = of(u)[u]
  BY <1>1, SummationExists, SumIsRecursion
<1> HIDE DEF of
<1>2. SumFunctionOnSet(f, {}) = 0
  <2>1. IsFiniteSet({})
    BY FS_EmptySet
  <2>. QED BY <1>1, <2>1, SummationAt
<1>3. ASSUME S # {}
      PROVE  SumFunctionOnSet(f, S) = f[First(S)] + SumFunctionOnSet(f, S \ {First(S)})
  <2> DEFINE R == S \ {First(S)}
  <2>1. R \in SUBSET S /\ IsFiniteSet(R) /\ R \in SUBSET R
    BY FS_Subset
  <2>2. SumFunctionOnSet(f, S) = of(S)[S] /\ Summation(f, S, of(S))
        /\ SumFunctionOnSet(f, R) = of(R)[R] /\ Summation(f, R, of(R))
    BY <1>1, <2>1
  <2>3. of(S)[S] = f[First(S)] + of(S)[R]
    BY <1>3, <2>2, SummationAt
  <2>4. of(S)[R] = of(R)[R]
    <3> HIDE DEF R
    <3>. QED BY <2>1, <2>2, SummationUnique
  <2>. QED BY <2>2, <2>3, <2>4
<1>. QED BY <1>2, <1>3

\* Any element may be taken first.
LEMMA SumRemove ==
    ASSUME NEW S, IsFiniteSet(S), NEW f, \A x \in S : f[x] \in Int
    PROVE  /\ SumFunctionOnSet(f, S) \in Int
           /\ \A y \in S : SumFunctionOnSet(f, S) = f[y] + SumFunctionOnSet(f, S \ {y})
<1> DEFINE V(u) == SumFunctionOnSet(f, u)
           Good(u) == V(u) \in Int /\ \A y \in u : V(u) = f[y] + V(u \ {y})
           Bad == {u \in SUBSET S : ~Good(u)}
<1> SUFFICES ASSUME S \in Bad PROVE FALSE
  OBVIOUS
<1>1. Bad \in SUBSET FiniteSubsetsOf(S)
  BY FS_Subset DEF FiniteSubsetsOf
<1>2. PICK X \in Bad : \A Y \in Bad : ~(Y \subseteq X /\ Y # X)
  <2> HIDE DEF Bad
  <2>. QED BY <1>1, SmallestSet
<1>3. X \in SUBSET S /\ ~Good(X) /\ IsFiniteSet(X)
  BY FS_Subset
<1>4. ASSUME NEW u \in SUBSET X, u # X
      PROVE  V(u) \in Int /\ \A y \in u : V(u) = f[y] + V(u \ {y})
  BY <1>2, <1>3, <1>4
<1>5. V({}) = 0 /\ (X # {} => V(X) = f[First(X)] + V(X \ {First(X)}))
  BY <1>3, SumStep
<1>6. X # {}
  <2>1. ASSUME X = {} PROVE V(X) = 0
    BY <1>5, <2>1
  <2>2. ASSUME X = {} PROVE Good(X)
    <3> HIDE DEF V
    <3>. QED BY <2>1, <2>2
  <2>. QED BY <1>3, <2>2
<1> DEFINE a == First(X)
           va == V(X \ {a})
<1>7. a \in X /\ f[a] \in Int
  BY <1>3, <1>6, FirstIn
<1>8. V(X) = f[a] + va /\ va \in Int
  BY <1>4, <1>5, <1>6, <1>7
<1>9. ASSUME NEW y \in X, y # a
      PROVE  V(X) = f[y] + V(X \ {y})
  <2> DEFINE w == V((X \ {a}) \ {y})
             vy == V(X \ {y})
             v == V(X)
  <2>1. va = f[y] + w
    BY <1>4, <1>7, <1>9
  <2>2. vy = f[a] + V((X \ {y}) \ {a})
    BY <1>4, <1>7, <1>9
  <2>3. (X \ {a}) \ {y} = (X \ {y}) \ {a}
    OBVIOUS
  <2>4. vy = f[a] + w
    BY <2>2, <2>3
  <2>5. w \in Int /\ f[y] \in Int
    BY <1>3, <1>4, <1>7
  <2>6. v = f[a] + va
    BY <1>8
  <2> HIDE DEF w, vy, va, v, a
  <2>7. v = f[y] + vy
    BY <1>7, <2>1, <2>4, <2>5, <2>6
  <2>. QED BY <2>7 DEF v, vy
<1>10. V(X) \in Int
  <2> HIDE DEF va, a
  <2>. QED BY <1>7, <1>8
<1>11. \A y \in X : V(X) = f[y] + V(X \ {y})
  BY <1>8, <1>9
<1>12. Good(X)
  <2> HIDE DEF V
  <2>. QED BY <1>10, <1>11
<1>. QED BY <1>3, <1>12

LEMMA SumEmpty == ASSUME NEW f PROVE SumFunctionOnSet(f, {}) = 0
BY FS_EmptySet, SumStep

LEMMA SumAdd ==
    ASSUME NEW S, IsFiniteSet(S), NEW f, \A x \in S : f[x] \in Int,
           NEW y, y \notin S, f[y] \in Int
    PROVE  SumFunctionOnSet(f, S \cup {y}) = f[y] + SumFunctionOnSet(f, S)
<1> DEFINE T == S \cup {y}
<1>1. IsFiniteSet(T) /\ (\A x \in T : f[x] \in Int) /\ T \ {y} = S /\ y \in T
  BY FS_AddElement
<1> HIDE DEF T
<1>2. SumFunctionOnSet(f, T) = f[y] + SumFunctionOnSet(f, T \ {y})
  BY <1>1, SumRemove
<1>. QED BY <1>1, <1>2 DEF T

\* Terms that grow make a sum that grows.
LEMMA SumGrows ==
    ASSUME NEW S, IsFiniteSet(S), NEW f, NEW g,
           \A x \in S : f[x] \in Int /\ g[x] \in Int /\ f[x] <= g[x]
    PROVE  SumFunctionOnSet(f, S) <= SumFunctionOnSet(g, S)
<1> DEFINE V(h, u) == SumFunctionOnSet(h, u)
           Bad == {u \in SUBSET S : ~(V(f, u) <= V(g, u))}
<1> SUFFICES ASSUME S \in Bad PROVE FALSE
  OBVIOUS
<1>1. Bad \in SUBSET FiniteSubsetsOf(S)
  BY FS_Subset DEF FiniteSubsetsOf
<1>2. PICK X \in Bad : \A Y \in Bad : ~(Y \subseteq X /\ Y # X)
  <2> HIDE DEF Bad
  <2>. QED BY <1>1, SmallestSet
<1>3. X \in SUBSET S /\ ~(V(f, X) <= V(g, X)) /\ IsFiniteSet(X)
  BY FS_Subset
<1>4. X # {}
  BY <1>3, SumEmpty
<1>5. PICK y \in X : TRUE
  BY <1>4
<1>6. V(f, X) = f[y] + V(f, X \ {y}) /\ V(g, X) = g[y] + V(g, X \ {y})
  BY <1>3, SumRemove
<1>7. V(f, X \ {y}) \in Int /\ V(g, X \ {y}) \in Int
  BY <1>3, FS_Subset, SumRemove
<1>8. ~(V(f, X \ {y}) <= V(g, X \ {y}))
  <2>1. f[y] \in Int /\ g[y] \in Int /\ f[y] <= g[y]
    BY <1>3
  <2> HIDE DEF V
  <2>. QED BY <1>3, <1>6, <1>7, <2>1
<1>. QED BY <1>2, <1>3, <1>8

LEMMA SumSame ==
    ASSUME NEW S, IsFiniteSet(S), NEW f, NEW g, \A x \in S : f[x] \in Int /\ g[x] = f[x]
    PROVE  SumFunctionOnSet(f, S) = SumFunctionOnSet(g, S)
<1>1. /\ SumFunctionOnSet(f, S) <= SumFunctionOnSet(g, S)
      /\ SumFunctionOnSet(g, S) <= SumFunctionOnSet(f, S)
  BY SumGrows
<1>2. SumFunctionOnSet(f, S) \in Int /\ SumFunctionOnSet(g, S) \in Int
  BY SumRemove
<1>. QED BY <1>1, <1>2

\* One term changes.
LEMMA SumChange ==
    ASSUME NEW S, IsFiniteSet(S), NEW f, NEW g, NEW y \in S,
           \A x \in S : f[x] \in Int /\ g[x] \in Int,
           \A x \in S \ {y} : g[x] = f[x]
    PROVE  SumFunctionOnSet(g, S) = SumFunctionOnSet(f, S) + (g[y] - f[y])
<1> DEFINE R == S \ {y}
           F == SumFunctionOnSet(f, R)
           G == SumFunctionOnSet(g, R)
<1>1. SumFunctionOnSet(f, S) = f[y] + F /\ SumFunctionOnSet(g, S) = g[y] + G
  BY SumRemove
<1>2. IsFiniteSet(R)
  BY FS_Subset
<1>3. F = G /\ F \in Int
  BY <1>2, SumSame, SumRemove
<1>4. f[y] \in Int /\ g[y] \in Int
  OBVIOUS
<1> HIDE DEF F, G
<1>. QED BY <1>1, <1>3, <1>4

LEMMA SumReplace ==
    ASSUME NEW S, IsFiniteSet(S), NEW f \in [S -> Int], NEW y \in S, NEW v \in Int
    PROVE  SumFunctionOnSet([f EXCEPT ![y] = v], S) = SumFunctionOnSet(f, S) + (v - f[y])
<1> DEFINE g == [f EXCEPT ![y] = v]
<1>1. /\ \A x \in S : f[x] \in Int /\ g[x] \in Int
      /\ \A x \in S \ {y} : g[x] = f[x]
      /\ g[y] = v
  OBVIOUS
<1> HIDE DEF g
<1>2. SumFunctionOnSet(g, S) = SumFunctionOnSet(f, S) + (g[y] - f[y])
  BY <1>1, SumChange
<1>. QED BY <1>1, <1>2 DEF g

\* Nothing but zeros.
LEMMA SumZero ==
    ASSUME NEW S, IsFiniteSet(S), NEW f, \A x \in S : f[x] = 0
    PROVE  SumFunctionOnSet(f, S) = 0
<1> DEFINE Bad == {u \in SUBSET S : SumFunctionOnSet(f, u) # 0}
<1> SUFFICES ASSUME S \in Bad PROVE FALSE
  OBVIOUS
<1>1. Bad \in SUBSET FiniteSubsetsOf(S)
  BY FS_Subset DEF FiniteSubsetsOf
<1>2. PICK X \in Bad : \A Y \in Bad : ~(Y \subseteq X /\ Y # X)
  <2> HIDE DEF Bad
  <2>. QED BY <1>1, SmallestSet
<1>3. X \in SUBSET S /\ SumFunctionOnSet(f, X) # 0 /\ IsFiniteSet(X)
  BY FS_Subset
<1>4. X # {}
  BY <1>3, SumEmpty
<1>5. PICK y \in X : TRUE
  BY <1>4
<1>6. SumFunctionOnSet(f, X) = f[y] + SumFunctionOnSet(f, X \ {y})
  BY <1>3, SumRemove
<1>7. SumFunctionOnSet(f, X \ {y}) = 0
  BY <1>2, <1>3
<1>. QED BY <1>3, <1>6, <1>7

\* A sum of naturals is at least each of its terms.
LEMMA SumNat ==
    ASSUME NEW S, IsFiniteSet(S), NEW f, \A x \in S : f[x] \in Nat
    PROVE  /\ SumFunctionOnSet(f, S) \in Nat
           /\ \A y \in S : f[y] <= SumFunctionOnSet(f, S)
<1>1. ASSUME NEW u \in SUBSET S
      PROVE  SumFunctionOnSet(f, u) \in Nat
  <2> DEFINE z == [x \in u |-> 0]
  <2>1. IsFiniteSet(u) /\ \A x \in u : f[x] \in Int /\ z[x] \in Int /\ z[x] <= f[x]
    BY FS_Subset
  <2>2. SumFunctionOnSet(z, u) = 0
    BY <2>1, SumZero
  <2> HIDE DEF z
  <2>3. 0 <= SumFunctionOnSet(f, u) /\ SumFunctionOnSet(f, u) \in Int
    BY <2>1, <2>2, SumGrows, SumRemove
  <2>. QED BY <2>3
<1>2. ASSUME NEW y \in S
      PROVE  f[y] <= SumFunctionOnSet(f, S)
  <2>1. SumFunctionOnSet(f, S) = f[y] + SumFunctionOnSet(f, S \ {y})
    BY SumRemove
  <2>2. SumFunctionOnSet(f, S \ {y}) \in Nat /\ f[y] \in Nat
    BY <1>1
  <2>. QED BY <2>1, <2>2
<1>. QED BY <1>1, <1>2

-----------------------------------------------------------------------------
(* Arithmetic *)

LEMMA ProductNat == ASSUME NEW a \in Nat, NEW b \in Nat PROVE a * b \in Nat
  OBVIOUS

LEMMA QuotientNat == ASSUME NEW a \in Nat, NEW b \in Nat, b > 0 PROVE a \div b \in Nat
  OBVIOUS

-----------------------------------------------------------------------------
(* Rows *)

LEMMA EnsuredRow == ASSUME RowInv(record) PROVE RowInv(Ensured)
  BY DEF RowInv, Record, Ensured

LEMMA ReopenedRow == ASSUME NEW r, RowInv(r) PROVE RowInv(Reopened(r))
  BY DEF RowInv, Record, Reopened

LEMMA FlattenedRow == ASSUME NEW r \in Record, r.priced <= r.quantity
                      PROVE  RowInv(Flattened(r))
<1> DEFINE f == [r EXCEPT !.priced = 0, !.cost = 0, !.closed = TRUE]
<1>1. /\ f \in Record /\ f.quantity = r.quantity /\ f.priced = 0 /\ f.cost = 0
  BY DEF Record
<1>2. r.quantity \in Nat
  BY DEF Record
<1> HIDE DEF f
<1>3. CASE r.quantity = 0
  BY <1>1, <1>3 DEF Flattened, RowInv, f
<1>4. CASE r.quantity # 0
  BY <1>4 DEF Flattened, RowInv
<1> QED BY <1>3, <1>4

\* Whatever is taken off, for whatever proceeds, a row of the book remains.
LEMMA ReducedRow ==
  ASSUME RowInv(record), NEW r, r = record \/ r = Ensured,
         NEW lots \in Nat, lots <= record.quantity,
         NEW proceeds \in Int, NEW priced \in BOOLEAN
  PROVE  RowInv(Reduced(r, lots, proceeds, priced))
<1> DEFINE removed == RemovedCost(lots)
           q == record.quantity - lots
           p == IF HasAverage THEN Larger(0, r.priced - lots) ELSE 0
           c == IF HasAverage THEN Larger(0, r.cost - removed) ELSE 0
           g == IF priced THEN r.proceeds + proceeds ELSE r.proceeds
           n == IF HasAverage /\ priced THEN r.pnl + proceeds - removed ELSE r.pnl
           k == r.pnlComplete /\ HasAverage /\ priced
           s == [r EXCEPT !.quantity = @ - lots, !.priced = p, !.cost = c,
                          !.proceeds = g, !.pnl = n, !.pnlComplete = k]
<1>1. /\ r \in Record /\ r.quantity = record.quantity /\ r.priced = record.priced
      /\ r.cost = record.cost /\ r.proceeds \in Int /\ r.pnl \in Int
      /\ r.pnlComplete \in BOOLEAN
  BY DEF RowInv, Record, Ensured
<1>2. /\ record.quantity \in Nat /\ record.priced \in Nat /\ record.cost \in Nat
      /\ record.priced <= record.quantity
  BY DEF RowInv, Record
<1>3. HasAverage => record.quantity > 0 /\ record.priced = record.quantity
  BY <1>2 DEF HasAverage, CompleteBasis
<1>4. HasAverage => removed \in Nat
  BY <1>2, <1>3, ProductNat, QuotientNat DEF RemovedCost
<1>5. q \in Nat /\ p \in Nat /\ c \in Nat /\ p <= q
  <2>1. CASE HasAverage
    BY <2>1, <1>1, <1>2, <1>3, <1>4 DEF Larger
  <2>2. CASE ~HasAverage
    BY <2>2, <1>2
  <2> QED BY <2>1, <2>2
<1>6. g \in Int /\ n \in Int
  <2>1. CASE HasAverage
    BY <2>1, <1>1, <1>4
  <2>2. CASE ~HasAverage
    BY <2>2, <1>1
  <2> QED BY <2>1, <2>2
<1>7. k \in BOOLEAN
  BY <1>1
<1> HIDE DEF p, c, g, n, k
<1>8. /\ s \in Record /\ s.quantity = q /\ s.priced = p /\ s.cost = c
  BY <1>1, <1>5, <1>6, <1>7 DEF Record
<1>9. Reduced(r, lots, proceeds, priced) = Flattened(s)
  BY DEF Reduced, p, c, g, n, k
<1> HIDE DEF s, q
<1>10. RowInv(Flattened(s))
  BY <1>8, <1>5, FlattenedRow
<1> QED BY <1>9, <1>10

-----------------------------------------------------------------------------
(* A report is booked *)

LEMMA BoughtRow ==
  ASSUME Inv, NEW o \in Order, NEW e \in Report
  PROVE  RowInv(Bought(o, e))
<1> DEFINE lots == AddedSize(o, e)
           priced == lots > 0 /\ AddedPriced(o, e) /\ AddedNotional(o, e) >= 0
           p == IF priced THEN record.priced + lots ELSE record.priced
           c == IF priced THEN record.cost + AddedNotional(o, e) ELSE record.cost
           q == record.quantity + lots
           s == [Ensured EXCEPT !.quantity = q, !.priced = p, !.cost = c]
<1>1. RowInv(record) /\ exec[o] \in Execution
  BY DEF Inv, TypeOK, WithinInventory, RowInv
<1>2. lots \in Nat
  BY <1>1 DEF AddedSize, Larger, Report, Execution
<1>3. /\ record.quantity \in Nat /\ record.priced \in Nat /\ record.cost \in Nat
      /\ record.priced <= record.quantity /\ (record.quantity = 0 => record.cost = 0)
  BY <1>1 DEF RowInv, Record
<1>4. AddedNotional(o, e) \in Int
  BY <1>1 DEF AddedNotional, Report, Execution, Unpriced
<1>5. /\ q \in Nat /\ p \in Nat /\ c \in Nat /\ p <= q /\ (q = 0 => c = 0)
  <2>1. CASE priced
    BY <2>1, <1>2, <1>3, <1>4
  <2>2. CASE ~priced
    BY <2>2, <1>2, <1>3
  <2> QED BY <2>1, <2>2
<1>6. Ensured \in Record
  BY <1>1 DEF RowInv, Record, Ensured
<1>7. Bought(o, e) = s
  BY DEF Bought, Ensured
<1> HIDE DEF p, c, q
<1>8. RowInv(s)
  BY <1>5, <1>6 DEF RowInv, Record
<1> QED BY <1>7, <1>8

LEMMA CorrectedRow ==
  ASSUME Inv, NEW o \in Order, NEW e \in Report, Corrects(o, e)
  PROVE  RowInv(Corrected(o, e))
<1>1. RowInv(record) /\ exec[o] \in Execution
  BY DEF Inv, TypeOK, WithinInventory, RowInv
<1>2. AddedNotional(o, e) \in Int
  BY <1>1 DEF AddedNotional, Report, Execution, Unpriced
<1> DEFINE c == Larger(0, record.cost + AddedNotional(o, e))
<1>3. c \in Nat
  BY <1>1, <1>2 DEF Larger, RowInv, Record
<1>4. CASE exec[o].size <= record.priced
  <2>1. record.quantity = 0 => c = 0
    <3>1. SUFFICES ASSUME record.quantity = 0 PROVE c = 0
      OBVIOUS
    <3>2. record.cost = 0 /\ record.priced = 0
      BY <1>1, <3>1 DEF RowInv, Record
    <3>3. exec[o].size = 0 /\ e.size = 0
      BY <1>1, <1>4, <3>2 DEF Execution, Corrects, SameSize
    <3>4. exec[o].notional = 0 /\ e.notional = 0
      BY <3>3 DEF Inv, ZeroIsFree, Report, Corrects, AddedPriced
    <3> QED BY <3>2, <3>4 DEF Larger, AddedNotional
  <2>2. Corrected(o, e) = [Ensured EXCEPT !.cost = c]
    BY <1>1, <1>4 DEF Corrected, Ensured, RowInv, Record
  <2> HIDE DEF c
  <2> QED BY <1>1, <1>3, <2>1, <2>2 DEF RowInv, Record, Ensured
<1>5. CASE ~(exec[o].size <= record.priced)
  BY <1>1, <1>5, EnsuredRow DEF Corrected
<1> QED BY <1>4, <1>5

LEMMA HydratedRow ==
  ASSUME Inv, NEW o \in Order, NEW e \in Report, Hydrates(o, e)
  PROVE  RowInv(Hydrated(o, e))
<1> DEFINE lots == LotsToPrice(o)
           p == record.priced + lots
           c == record.cost + (lots * e.notional) \div e.size
<1>1. RowInv(record) /\ exec[o] \in Execution
  BY DEF Inv, TypeOK, WithinInventory, RowInv
<1>2. /\ record.quantity \in Nat /\ record.priced \in Nat /\ record.cost \in Nat
      /\ record.priced <= record.quantity
  BY <1>1 DEF RowInv, Record
<1>3. CASE lots > 0
  <2>1. /\ lots \in Nat /\ lots <= record.quantity - record.priced
        /\ e.size \in Nat /\ e.size > 0 /\ e.notional \in Nat
    BY <1>1, <1>2, <1>3 DEF LotsToPrice, Smaller, Execution, Hydrates, SameSize, Report
  <2>2. p \in Nat /\ c \in Nat /\ p <= record.quantity /\ record.quantity > 0
    <3>1. lots * e.notional \in Nat
      BY <2>1, ProductNat
    <3>2. (lots * e.notional) \div e.size \in Nat
      BY <2>1, <3>1, QuotientNat
    <3> QED BY <1>2, <1>3, <2>1, <3>2
  <2>3. Hydrated(o, e) = [Ensured EXCEPT !.priced = p, !.cost = c]
    BY <1>1, <1>3 DEF Hydrated, Ensured, RowInv, Record
  <2>4. Ensured \in Record /\ Ensured.quantity = record.quantity
    BY <1>1 DEF RowInv, Record, Ensured
  <2> DEFINE h == [Ensured EXCEPT !.priced = p, !.cost = c]
  <2> HIDE DEF p, c, lots
  <2>5. /\ h \in Record /\ h.quantity = record.quantity
        /\ h.priced = p /\ h.cost = c
    BY <2>2, <2>4 DEF Record
  <2> HIDE DEF h
  <2>6. RowInv(h)
    BY <2>2, <2>5 DEF RowInv
  <2> QED BY <2>3, <2>6 DEF h
<1>4. CASE ~(lots > 0)
  BY <1>1, <1>4, EnsuredRow DEF Hydrated
<1> QED BY <1>3, <1>4

LEMMA SellRow ==
  ASSUME Inv, NEW o \in SellOrder, NEW e \in Report, Confirmed(o, e)
  PROVE  RowInv(SellBooked(o, e))
<1>1. RowInv(record) /\ exec[o] \in Execution
  BY DEF Inv, TypeOK, WithinInventory, RowInv, Order
<1>2. /\ AddedSize(o, e) \in Nat /\ AddedNotional(o, e) \in Int
      /\ AddedPriced(o, e) \in BOOLEAN
  BY <1>1 DEF AddedSize, AddedNotional, AddedPriced, Larger, Report, Execution, Unpriced
<1>3. CASE AddedSize(o, e) > 0
  <2>1. AddedSize(o, e) <= record.quantity
    BY DEF Confirmed
  <2>2. RowInv(Reduced(Ensured, AddedSize(o, e), AddedNotional(o, e), AddedPriced(o, e)))
    BY <1>1, <1>2, <2>1, ReducedRow
  <2> QED BY <1>3, <2>2 DEF SellBooked
<1>4. CASE ~(AddedSize(o, e) > 0) /\ Corrects(o, e)
  <2>1. SellCorrected(o, e) \in Record
    <3> DEFINE g == Ensured.proceeds + AddedNotional(o, e)
               n == IF record.pnlComplete THEN Ensured.pnl + AddedNotional(o, e)
                                          ELSE Ensured.pnl
    <3>1. Ensured \in Record
      BY <1>1 DEF RowInv, Record, Ensured
    <3>2. g \in Int /\ n \in Int
      BY <1>2, <3>1 DEF Record
    <3>3. SellCorrected(o, e) = [Ensured EXCEPT !.proceeds = g, !.pnl = n]
      BY DEF SellCorrected
    <3> HIDE DEF g, n
    <3> QED BY <3>1, <3>2, <3>3 DEF Record
  <2>2. /\ SellCorrected(o, e).quantity = record.quantity
        /\ SellCorrected(o, e).priced = record.priced
        /\ SellCorrected(o, e).cost = record.cost
    BY <1>1 DEF SellCorrected, RowInv, Record, Ensured
  <2> QED BY <1>1, <1>4, <2>1, <2>2 DEF SellBooked, RowInv
<1>5. CASE ~(AddedSize(o, e) > 0) /\ ~Corrects(o, e)
  BY <1>1, <1>5, EnsuredRow DEF SellBooked
<1> QED BY <1>3, <1>4, <1>5

LEMMA BookedRow ==
  ASSUME Inv, NEW o \in Order, NEW e \in Report, Confirmed(o, e)
  PROVE  RowInv(Booked(o, e))
<1>1. ASSUME o \in BuyOrder PROVE RowInv(BuyBooked(o, e))
  <2>1. CASE Corrects(o, e)
    BY <2>1, CorrectedRow DEF BuyBooked
  <2>2. CASE ~Corrects(o, e) /\ Hydrates(o, e)
    BY <2>2, HydratedRow DEF BuyBooked
  <2>3. CASE ~Corrects(o, e) /\ ~Hydrates(o, e)
    BY <2>3, BoughtRow DEF BuyBooked
  <2> QED BY <2>1, <2>2, <2>3
<1>2. ASSUME o \notin BuyOrder PROVE RowInv(SellBooked(o, e))
  BY <1>2, SellRow DEF Order
<1> QED BY <1>1, <1>2, ReopenedRow DEF Booked

\* A report tells of a state of the order, so it is typed and costs nothing for nothing.
LEMMA ReportsAreReports == ASSUME Inv, NEW o \in Order PROVE Reports(o) \subseteq Report
<1>1. SUFFICES ASSUME NEW s \in venue[o],
                      NEW e \in [size : {s.size}, notional : {Unpriced} \cup ({s.notional} \ {0}),
                                 quality : {Exact}]
                                \cup [size : {s.size} \ {0},
                                      notional : {s.size * p : p \in BoundPrices(o)},
                                      quality : {Bound}]
               PROVE  e \in Report
  BY DEF Reports
<1>2. s.size \in Nat /\ s.notional \in Nat /\ (s.size = 0 => s.notional = 0)
  BY DEF Inv, TypeOK, ZeroIsFree, Unpriced
<1>3. CASE e \in [size : {s.size}, notional : {Unpriced} \cup ({s.notional} \ {0}),
                  quality : {Exact}]
  BY <1>2, <1>3 DEF Report, ZeroIsFree
<1>4. CASE e \in [size : {s.size} \ {0}, notional : {s.size * p : p \in BoundPrices(o)},
                  quality : {Bound}]
  <2>1. PICK p \in BoundPrices(o) : e.notional = s.size * p
    BY <1>4
  <2>2. p \in Nat
    BY PositionPricesAssumption DEF BoundPrices
  <2>3. s.size * p \in Nat /\ (s.size = 0 => s.size * p = 0)
    BY <1>2, <2>2, ProductNat
  <2> QED BY <1>2, <1>4, <2>1, <2>3 DEF Report, ZeroIsFree
<1> QED BY <1>1, <1>3, <1>4

-----------------------------------------------------------------------------
(* Steps *)

LEMMA InitInv == ASSUME Init PROVE Inv
<1>1. record \in Record /\ WithinInventory
  BY DEF Init, NoRecord, Record, WithinInventory
<1>2. exec \in [Order -> Execution] /\ \A o \in Order : ZeroIsFree(exec[o])
  BY DEF Init, NoExecution, Execution, Bound, ZeroIsFree
<1>3. /\ venue \in [Order -> SUBSET [size : Nat, notional : Nat]]
      /\ \A o \in Order : \A e \in venue[o] : ZeroIsFree(e)
  BY DEF Init, ZeroIsFree
<1>4. wallet \in Nat /\ inflow \in Nat /\ redeemed \in [Settlement -> Nat]
  BY DEF Init
<1>5. /\ settled \subseteq Settlement /\ blurred \in BOOLEAN
      /\ forgotten \in [Order -> Nat] /\ surplus \in Nat /\ shortage \in Nat
  BY DEF Init
<1> QED BY <1>1, <1>2, <1>3, <1>4, <1>5 DEF Inv, TypeOK

CountedTyped == surplus \in Nat /\ shortage \in Nat

\* A new row under an unchanged venue, with executions that keep their shape.
LEMMA BookStep ==
  ASSUME Inv, UNCHANGED outside, RowInv(record'),
         exec' \in [Order -> Execution], \A o \in Order : ZeroIsFree(exec'[o]),
         settled' \subseteq Settlement, forgotten' \in [Order -> Nat], CountedTyped',
         blurred' \in BOOLEAN
  PROVE  Inv'
  BY DEF Inv, TypeOK, WithinInventory, RowInv, outside, ZeroIsFree, CountedTyped

LEMMA ApplyStep ==
  ASSUME Inv, NEW o \in Order, ApplyCumulative(o) PROVE Inv'
<1>1. RowInv(record) /\ exec \in [Order -> Execution] /\ blurred \in BOOLEAN
      /\ settled \subseteq Settlement /\ forgotten \in [Order -> Nat]
      /\ surplus \in Nat /\ shortage \in Nat
      /\ \A b \in Order : ZeroIsFree(exec[b])
  BY DEF Inv, TypeOK, WithinInventory, RowInv
<1>2. UNCHANGED outside /\ UNCHANGED <<settled, forgotten>>
  BY DEF ApplyCumulative
<1>3. PICK e \in Report : ApplyIgnored(o, e) \/ ApplyRefused(o, e) \/ ApplyBooked(o, e)
  BY ReportsAreReports DEF ApplyCumulative
<1>4. CASE ApplyIgnored(o, e) \/ ApplyRefused(o, e)
  <2>1. record' = Ensured /\ UNCHANGED <<exec, surplus, shortage, blurred>>
    BY <1>4 DEF ApplyIgnored, ApplyRefused, counted
  <2>2. CountedTyped'
    BY <1>1, <2>1 DEF CountedTyped
  <2> QED BY <1>1, <1>2, <2>1, <2>2, EnsuredRow, BookStep
<1>5. CASE ApplyBooked(o, e)
  <2> DEFINE x == [known |-> TRUE, size |-> e.size, notional |-> e.notional,
                   quality |-> e.quality]
  <2>1. RowInv(record')
    BY <1>5, BookedRow DEF ApplyBooked
  <2>2. x \in Execution /\ ZeroIsFree(x)
    BY DEF Report, Execution, ZeroIsFree
  <2>3. exec' = [exec EXCEPT ![o] = x]
    BY <1>5 DEF ApplyBooked
  <2> HIDE DEF x
  <2>4. exec' \in [Order -> Execution] /\ \A b \in Order : ZeroIsFree(exec'[b])
    BY <1>1, <2>2, <2>3
  <2>5. blurred' \in BOOLEAN
    BY <1>5 DEF ApplyBooked
  <2>6. CountedTyped'
    <3>1. e.size \in Nat /\ exec[o].size \in Nat /\ forgotten[o] \in Nat
      BY <1>1 DEF Report, Execution
    <3>2. BookedAgain(o, e) \in Nat
      BY <3>1 DEF BookedAgain, Larger, Smaller
    <3> QED BY <1>1, <1>5, <3>2 DEF ApplyBooked, CountedTyped
  <2> QED BY <1>1, <1>2, <2>1, <2>4, <2>5, <2>6, BookStep
<1> QED BY <1>3, <1>4, <1>5

LEMMA FillStep == ASSUME Inv, NEW o \in Order, VenueFill(o) PROVE Inv'
<1>1. PICK e \in Latest(o), p \in Price[o] : \E lots \in 1..(Size[o] - e.size) :
           /\ o \in SellOrder => lots <= wallet
           /\ venue' = [venue EXCEPT ![o] = @ \cup {[size |-> e.size + lots,
                                                     notional |-> e.notional + lots * p]}]
           /\ wallet' = IF o \in BuyOrder THEN wallet + lots ELSE wallet - lots
  BY DEF VenueFill
<1>2. /\ venue \in [Order -> SUBSET [size : Nat, notional : Nat]] /\ wallet \in Nat
      /\ e \in venue[o] /\ e.size \in Nat /\ e.notional \in Nat
  BY DEF Inv, TypeOK, Latest
<1>3. p \in Nat /\ Size[o] \in Nat
  BY PositionPricesAssumption, PositionSizesAssumption
<1>4. PICK lots \in 1..(Size[o] - e.size) :
           /\ o \in SellOrder => lots <= wallet
           /\ venue' = [venue EXCEPT ![o] = @ \cup {[size |-> e.size + lots,
                                                     notional |-> e.notional + lots * p]}]
           /\ wallet' = IF o \in BuyOrder THEN wallet + lots ELSE wallet - lots
  BY <1>1
<1> DEFINE s == [size |-> e.size + lots, notional |-> e.notional + lots * p]
<1>5. lots \in Nat /\ lots > 0
  BY <1>2, <1>3
<1>6. s \in [size : Nat, notional : Nat] /\ s.size # 0
  BY <1>2, <1>3, <1>5, ProductNat
<1>7. venue' = [venue EXCEPT ![o] = @ \cup {s}]
  BY <1>4
<1> HIDE DEF s
<1>8. /\ venue' \in [Order -> SUBSET [size : Nat, notional : Nat]]
      /\ \A b \in Order : \A f \in venue'[b] : ZeroIsFree(f)
  BY <1>2, <1>6, <1>7 DEF Inv, ZeroIsFree
<1>9. wallet' \in Nat
  BY <1>2, <1>4, <1>5 DEF Order
<1> QED BY <1>8, <1>9 DEF VenueFill, Internal, counted, Inv, TypeOK, WithinInventory, ZeroIsFree

LEMMA SettleStep ==
  ASSUME Inv, NEW id \in Settlement, NEW payout \in Payout, Settle(id, payout) PROVE Inv'
<1>1. RowInv(record) /\ exec \in [Order -> Execution] /\ blurred \in BOOLEAN
      /\ settled \subseteq Settlement /\ forgotten \in [Order -> Nat]
      /\ surplus \in Nat /\ shortage \in Nat /\ redeemed \in [Settlement -> Nat]
      /\ \A b \in Order : ZeroIsFree(exec[b])
  BY DEF Inv, TypeOK, WithinInventory, RowInv
<1>2. UNCHANGED outside /\ UNCHANGED <<exec, forgotten, blurred>>
  BY DEF Settle
<1>3. CASE UNCHANGED <<record, settled, counted>>
  BY <1>1, <1>2, <1>3, BookStep DEF counted, CountedTyped
<1>4. CASE settled' = settled \cup {id}
           /\ \E lots \in SettledLots(id) :
                  /\ lots <= record.quantity
                  /\ record' = Reduced(record, lots, lots * payout, TRUE)
                  /\ Miscounted(id, lots)
  <2>1. PICK lots \in SettledLots(id) :
                  /\ lots <= record.quantity
                  /\ record' = Reduced(record, lots, lots * payout, TRUE)
                  /\ Miscounted(id, lots)
    BY <1>4
  <2>2. lots \in Nat
    BY <1>1 DEF SettledLots, Inv, TypeOK, RowInv, Record
  <2>3. lots * payout \in Int
    BY <2>2, PositionPricesAssumption, ProductNat
  <2>4. RowInv(record')
    BY <1>1, <2>1, <2>2, <2>3, ReducedRow
  <2>5. CountedTyped'
    BY <1>1, <2>1, <2>2 DEF Miscounted, Larger, CountedTyped
  <2> QED BY <1>1, <1>2, <1>4, <2>4, <2>5, BookStep
<1> QED BY <1>3, <1>4 DEF Settle

LEMMA FloorStep == ASSUME Inv, ObserveFloor PROVE Inv'
<1> DEFINE q == Larger(record.quantity, wallet)
           f == [Ensured EXCEPT !.quantity = q]
<1>1. RowInv(record) /\ exec \in [Order -> Execution] /\ blurred \in BOOLEAN
      /\ settled \subseteq Settlement /\ forgotten \in [Order -> Nat] /\ wallet \in Nat
      /\ surplus \in Nat /\ shortage \in Nat
      /\ \A b \in Order : ZeroIsFree(exec[b])
  BY DEF Inv, TypeOK, WithinInventory, RowInv
<1>2. q \in Nat /\ record.quantity <= q
  BY <1>1 DEF Larger, RowInv, Record
<1>3. Ensured \in Record /\ Ensured.quantity = record.quantity
      /\ Ensured.priced = record.priced /\ Ensured.cost = record.cost
  BY <1>1 DEF RowInv, Record, Ensured
<1>4. record' = Reopened(f)
  BY <1>3 DEF ObserveFloor
<1>5. /\ f \in Record /\ f.quantity = q /\ f.priced = record.priced /\ f.cost = record.cost
  BY <1>2, <1>3 DEF Record
<1> HIDE DEF f, q
<1>6. RowInv(f)
  BY <1>1, <1>2, <1>5 DEF RowInv, Record
<1>7. CountedTyped'
  BY <1>1 DEF ObserveFloor, Larger, RowInv, Record, CountedTyped
<1> QED BY <1>1, <1>4, <1>6, <1>7, ReopenedRow, BookStep DEF ObserveFloor

LEMMA PruneStep == ASSUME Inv, PruneClosed PROVE Inv'
<1>1. RowInv(NoRecord)
  BY DEF RowInv, NoRecord, Record
<1>2. exec' \in [Order -> Execution] /\ \A o \in Order : ZeroIsFree(exec'[o])
  BY DEF PruneClosed, NoExecution, Execution, Unpriced, Bound, Exact, ZeroIsFree
<1>3. forgotten' \in [Order -> Nat]
  <2>1. \A o \in Order : exec[o].size \in Nat /\ forgotten[o] \in Nat
    BY DEF Inv, TypeOK, Execution
  <2>2. \A o \in Order : ToldOf(o) \in Nat
    BY <2>1 DEF ToldOf, Larger
  <2> QED BY <2>2 DEF PruneClosed
<1>4. CountedTyped'
  BY DEF PruneClosed, counted, CountedTyped, Inv, TypeOK
<1> QED BY <1>1, <1>2, <1>3, <1>4, BookStep DEF PruneClosed, Inv, TypeOK

LEMMA StepInv == Inv /\ [Next]_vars => Inv'
<1> SUFFICES ASSUME Inv, [Next]_vars PROVE Inv'
  OBVIOUS
<1>1. ASSUME NEW o \in Order, VenueFill(o) PROVE Inv'
  BY <1>1, FillStep
<1>2. ASSUME NEW o \in Order, ApplyCumulative(o) PROVE Inv'
  BY <1>2, ApplyStep
<1>3. ASSUME NEW id \in Settlement, Redeem(id) PROVE Inv'
  BY <1>3 DEF Redeem, Internal, counted, Inv, TypeOK, WithinInventory, ZeroIsFree
<1>4. ASSUME NEW id \in Settlement, NEW payout \in Payout, Settle(id, payout) PROVE Inv'
  BY <1>4, SettleStep
<1>5. CASE Inflow
  BY <1>5
  DEF Inflow, Internal, counted, Inv, TypeOK, WithinInventory, ZeroIsFree
<1>6. CASE ObserveFloor
  BY <1>6, FloorStep
<1>7. CASE PruneClosed
  BY <1>7, PruneStep
<1>8. CASE UNCHANGED vars
  BY <1>8 DEF vars, Inv, TypeOK, WithinInventory, ZeroIsFree
<1> QED BY <1>1, <1>2, <1>3, <1>4, <1>5, <1>6, <1>7, <1>8 DEF Next

-----------------------------------------------------------------------------
\* The inductive invariant, for every set of orders, sizes, prices and payouts,
\* however late evidence comes and however often.
THEOREM PositionInv == Spec => []Inv
<1>1. Init => Inv
  BY InitInv
<1>2. Inv /\ [Next]_vars => Inv'
  BY StepInv
<1> QED BY <1>1, <1>2, PTL DEF Spec

\* Every amount of the book stays typed; none becomes negative.
THEOREM PositionTyped == Spec => []TypeOK
<1>1. Inv => TypeOK
  BY DEF Inv
<1> QED BY <1>1, PositionInv, PTL

\* No evidence, in whatever order, makes the book value lots that it does not hold or
\* keep a cost for a flat position.
THEOREM WithinInventoryHolds == Spec => []WithinInventory
<1>1. Inv => WithinInventory
  BY DEF Inv
<1> QED BY <1>1, PositionInv, PTL

-----------------------------------------------------------------------------
(* Evidence: what the venue executed and what of it is booked *)

Booking == Inv /\ EvidenceInv

LEMMA LatestState ==
    ASSUME Booking, NEW o \in Order
    PROVE  /\ VenueSize(o) \in Nat
           /\ \A e \in Latest(o) : e.size = VenueSize(o)
<1>1. Latest(o) # {} /\ \A e \in Latest(o) : e \in venue[o] /\ e.size \in Nat
  BY DEF Booking, EvidenceInv, Inv, TypeOK, Latest
<1>2. \A e, f \in Latest(o) : e.size = f.size
  BY <1>1 DEF Latest
<1> DEFINE c == CHOOSE e \in Latest(o) : TRUE
<1>3. c \in Latest(o)
  BY <1>1
<1>4. VenueSize(o) = c.size
  BY DEF VenueSize
<1> HIDE DEF c
<1>. QED BY <1>1, <1>2, <1>3, <1>4

LEMMA EvidenceInit == Init => EvidenceInv
<1> SUFFICES ASSUME Init PROVE EvidenceInv
  OBVIOUS
<1>1. ASSUME NEW o \in Order
      PROVE  /\ Latest(o) # {}
             /\ \A e, f \in venue[o] : e.size <= f.size => e.notional <= f.notional
             /\ \A e \in venue[o] : e.size <= Size[o]
             /\ ~exec[o].known => exec[o] = NoExecution
  <2>1. venue[o] = {[size |-> 0, notional |-> 0]} /\ exec[o] = NoExecution
    BY DEF Init
  <2>2. [size |-> 0, notional |-> 0] \in Latest(o)
    BY <2>1 DEF Latest
  <2>. QED BY <2>1, <2>2, PositionSizesAssumption
<1>. QED BY <1>1 DEF Init, EvidenceInv

\* A fill of an order leaves the states it went through and adds a later one.
LEMMA FillEvidence ==
    ASSUME Booking, NEW o \in Order, VenueFill(o)
    PROVE  /\ EvidenceInv'
           /\ \A b \in Order \ {o} : VenueSize(b)' = VenueSize(b)
           /\ wallet' = IF o \in BuyOrder THEN wallet + (VenueSize(o)' - VenueSize(o))
                        ELSE wallet - (VenueSize(o)' - VenueSize(o))
<1>1. PICK e \in Latest(o), p \in Price[o] : \E lots \in 1..(Size[o] - e.size) :
           /\ venue' = [venue EXCEPT ![o] = @ \cup {[size |-> e.size + lots,
                                                     notional |-> e.notional + lots * p]}]
           /\ wallet' = IF o \in BuyOrder THEN wallet + lots ELSE wallet - lots
  BY DEF VenueFill
<1>2. PICK lots \in 1..(Size[o] - e.size) :
           /\ venue' = [venue EXCEPT ![o] = @ \cup {[size |-> e.size + lots,
                                                     notional |-> e.notional + lots * p]}]
           /\ wallet' = IF o \in BuyOrder THEN wallet + lots ELSE wallet - lots
  BY <1>1
<1>3. /\ venue \in [Order -> SUBSET [size : Nat, notional : Nat]]
      /\ e \in venue[o] /\ e.size \in Nat /\ e.notional \in Nat
      /\ \A f \in venue[o] : f.size \in Nat /\ f.notional \in Nat /\ f.size <= e.size
  BY DEF Booking, Inv, TypeOK, Latest
<1>4. p \in Nat /\ Size[o] \in Nat
  BY PositionPricesAssumption, PositionSizesAssumption
<1>5. lots \in Nat /\ lots > 0 /\ e.size + lots <= Size[o] /\ lots * p \in Nat
  BY <1>3, <1>4, ProductNat
<1> DEFINE m == lots * p
           s == [size |-> e.size + lots, notional |-> e.notional + m]
<1>6. s.size = e.size + lots /\ s.notional = e.notional + m /\ m \in Nat
  BY <1>5
<1>7. venue' = [venue EXCEPT ![o] = @ \cup {s}]
  BY <1>2
<1> HIDE DEF s, m
<1>8. venue'[o] = venue[o] \cup {s} /\ \A b \in Order \ {o} : venue'[b] = venue[b]
  BY <1>3, <1>7
<1>9. \A f \in venue[o] : f.size < s.size /\ f.notional <= s.notional
  <2> TAKE f \in venue[o]
  <2>1. f.notional <= e.notional
    BY <1>3 DEF Booking, EvidenceInv
  <2>. QED BY <1>3, <1>5, <1>6, <2>1
<1>10. Latest(o)' = {s}
  <2>1. s.size \in Nat
    BY <1>3, <1>5, <1>6
  <2>. QED BY <1>3, <1>8, <1>9, <2>1 DEF Latest
<1>11. \A b \in Order \ {o} : Latest(b)' = Latest(b)
  BY <1>8 DEF Latest
<1>12. UNCHANGED <<exec, settled, redeemed>>
  BY DEF VenueFill, Internal
<1>13. EvidenceInv'
  <2>1. ASSUME NEW b \in Order
        PROVE  /\ Latest(b)' # {}
               /\ \A d, f \in venue'[b] : d.size <= f.size => d.notional <= f.notional
               /\ \A f \in venue'[b] : f.size <= Size[b]
               /\ ~exec'[b].known => exec'[b] = NoExecution
    <3>1. ~exec'[b].known => exec'[b] = NoExecution
      BY <1>12 DEF Booking, EvidenceInv
    <3>2. CASE b # o
      BY <1>8, <1>11, <3>1, <3>2 DEF Booking, EvidenceInv
    <3>3. CASE b = o
      <4>1. \A d, f \in venue[o] : d.size <= f.size => d.notional <= f.notional
        BY DEF Booking, EvidenceInv
      <4>2. \A f \in venue[o] : f.size <= Size[o]
        BY DEF Booking, EvidenceInv
      <4>3. s.size \in Nat /\ s.notional \in Nat /\ s.size <= Size[o]
        BY <1>3, <1>5, <1>6
      <4>4. \A d, f \in venue'[o] : d.size <= f.size => d.notional <= f.notional
        BY <1>3, <1>8, <1>9, <4>1, <4>3
      <4>5. \A f \in venue'[o] : f.size <= Size[o]
        BY <1>8, <4>2, <4>3
      <4>. QED BY <1>10, <3>1, <3>3, <4>4, <4>5
    <3>. QED BY <3>2, <3>3
  <2>2. \A id \in settled' : redeemed'[id] > 0
    BY <1>12 DEF Booking, EvidenceInv
  <2>. QED BY <2>1, <2>2 DEF EvidenceInv
<1>14. \A b \in Order \ {o} : VenueSize(b)' = VenueSize(b)
  BY <1>11 DEF VenueSize
<1>15. VenueSize(o)' = s.size /\ VenueSize(o) = e.size
  <2>1. VenueSize(o) = e.size
    BY <1>1, LatestState
  <2>2. VenueSize(o)' = s.size
    BY <1>10 DEF VenueSize
  <2>. QED BY <2>1, <2>2
<1>16. VenueSize(o)' - VenueSize(o) = lots
  BY <1>3, <1>5, <1>6, <1>15
<1>. QED BY <1>2, <1>13, <1>14, <1>16 DEF VenueFill

\* No other step changes what the venue did.
LEMMA VenueStays ==
    ASSUME Booking, UNCHANGED venue,
           \A o \in Order : ~exec'[o].known => exec'[o] = NoExecution,
           \A id \in settled' : redeemed'[id] > 0
    PROVE  EvidenceInv' /\ \A o \in Order : VenueSize(o)' = VenueSize(o)
<1>1. \A o \in Order : Latest(o)' = Latest(o)
  BY DEF Latest
<1>. QED BY <1>1 DEF Booking, EvidenceInv, VenueSize

LEMMA EvidenceStep == Booking /\ [Next]_vars => EvidenceInv'
<1> SUFFICES ASSUME Booking, [Next]_vars PROVE EvidenceInv'
  OBVIOUS
<1>0. /\ exec \in [Order -> Execution] /\ redeemed \in [Settlement -> Nat]
      /\ settled \subseteq Settlement /\ wallet \in Nat
      /\ \A o \in Order : ~exec[o].known => exec[o] = NoExecution
      /\ \A id \in settled : redeemed[id] > 0
  BY DEF Booking, Inv, TypeOK, EvidenceInv
<1>1. ASSUME NEW o \in Order, VenueFill(o) PROVE EvidenceInv'
  BY <1>1, FillEvidence
<1>2. ASSUME NEW o \in Order, ApplyCumulative(o) PROVE EvidenceInv'
  <2>1. UNCHANGED <<venue, redeemed, settled>>
    BY <1>2 DEF ApplyCumulative, outside
  <2>2. \/ exec' = exec
        \/ \E e \in Reports(o) :
               exec' = [exec EXCEPT ![o] = [known |-> TRUE, size |-> e.size,
                                            notional |-> e.notional, quality |-> e.quality]]
    BY <1>2 DEF ApplyCumulative, ApplyIgnored, ApplyRefused, ApplyBooked
  <2>3. \A b \in Order : ~exec'[b].known => exec'[b] = NoExecution
    BY <1>0, <2>2
  <2>. QED BY <1>0, <2>1, <2>3, VenueStays
<1>3. ASSUME NEW id \in Settlement, Redeem(id) PROVE EvidenceInv'
  <2>1. UNCHANGED <<venue, exec, settled>> /\ redeemed' = [redeemed EXCEPT ![id] = wallet]
        /\ wallet > 0
    BY <1>3 DEF Redeem, Internal
  <2>. QED BY <1>0, <2>1, VenueStays
<1>4. ASSUME NEW id \in Settlement, NEW payout \in Payout, Settle(id, payout)
      PROVE  EvidenceInv'
  <2>1. UNCHANGED <<venue, redeemed, exec>> /\ settled' \subseteq settled \cup {id}
        /\ redeemed[id] > 0
    BY <1>4 DEF Settle, outside
  <2>. QED BY <1>0, <2>1, VenueStays
<1>5. CASE Inflow \/ ObserveFloor \/ UNCHANGED vars
  <2>1. UNCHANGED <<venue, redeemed, exec, settled>>
    BY <1>5 DEF Inflow, ObserveFloor, vars, outside, Internal
  <2>. QED BY <1>0, <2>1, VenueStays
<1>6. CASE PruneClosed
  <2>1. UNCHANGED <<venue, redeemed, settled>> /\ exec' = [o \in Order |-> NoExecution]
    BY <1>6 DEF PruneClosed, outside
  <2>. QED BY <1>0, <2>1, VenueStays
<1>. QED BY <1>1, <1>2, <1>3, <1>4, <1>5, <1>6 DEF Next

-----------------------------------------------------------------------------
(* Balance: wallet and position differ by what the book has not heard of and by what *)
(* it counted twice                                                                  *)

LEMMA ToldTyped ==
    ASSUME Booking, NEW o \in Order
    PROVE  exec[o].size \in Nat /\ forgotten[o] \in Nat /\ ToldOf(o) \in Nat
<1>1. exec[o].size \in Nat /\ forgotten[o] \in Nat
  BY DEF Booking, Inv, TypeOK, Execution
<1>. QED BY <1>1 DEF ToldOf, Larger

UnheardTyping ==
    Booking => /\ SumFunction(UnheardLots) = SumFunctionOnSet(UnheardLots, Order)
               /\ SumFunction(UnheardRedeemed) = SumFunctionOnSet(UnheardRedeemed, Settlement)
               /\ \A o \in Order : UnheardLots[o] \in Int
               /\ \A id \in Settlement : UnheardRedeemed[id] \in Nat
               /\ SumFunction(UnheardLots) \in Int /\ SumFunction(UnheardRedeemed) \in Int

LEMMA UnheardTyped == UnheardTyping
<1> SUFFICES ASSUME Booking PROVE UnheardTyping
  BY DEF UnheardTyping
<1>1. /\ DOMAIN UnheardLots = Order /\ DOMAIN UnheardRedeemed = Settlement
  BY DEF UnheardLots, UnheardRedeemed
<1>2. /\ SumFunction(UnheardLots) = SumFunctionOnSet(UnheardLots, Order)
      /\ SumFunction(UnheardRedeemed) = SumFunctionOnSet(UnheardRedeemed, Settlement)
  BY <1>1 DEF SumFunction
<1>3. ASSUME NEW o \in Order
      PROVE  UnheardLots[o] \in Int
  <2>1. ToldOf(o) \in Nat /\ VenueSize(o) \in Nat
    BY LatestState, ToldTyped
  <2>. QED BY <2>1 DEF UnheardLots
<1>4. \A id \in Settlement : UnheardRedeemed[id] \in Nat
  BY DEF UnheardRedeemed, Booking, Inv, TypeOK
<1>. QED BY <1>2, <1>3, <1>4, SumRemove, PositionFiniteAssumption DEF UnheardTyping

\* One order changes what is unheard of it.
LEMMA UnheardLotsStep ==
    ASSUME Booking, Booking', NEW o \in Order,
           \A b \in Order \ {o} : UnheardLots'[b] = UnheardLots[b]
    PROVE  SumFunction(UnheardLots)'
               = SumFunction(UnheardLots) + (UnheardLots'[o] - UnheardLots[o])
<1>1. /\ SumFunction(UnheardLots) = SumFunctionOnSet(UnheardLots, Order)
      /\ \A b \in Order : UnheardLots[b] \in Int
  BY UnheardTyped DEF UnheardTyping
<1>2. /\ SumFunction(UnheardLots)' = SumFunctionOnSet(UnheardLots', Order)
      /\ \A b \in Order : UnheardLots'[b] \in Int
  <2>1. UnheardTyping'
    BY UnheardTyped, PTL
  <2>. QED BY <2>1 DEF UnheardTyping
<1>. QED BY <1>1, <1>2, SumChange, PositionFiniteAssumption

LEMMA UnheardRedeemedStep ==
    ASSUME Booking, Booking', NEW id \in Settlement,
           \A j \in Settlement \ {id} : UnheardRedeemed'[j] = UnheardRedeemed[j]
    PROVE  SumFunction(UnheardRedeemed)'
               = SumFunction(UnheardRedeemed) + (UnheardRedeemed'[id] - UnheardRedeemed[id])
<1>1. /\ SumFunction(UnheardRedeemed) = SumFunctionOnSet(UnheardRedeemed, Settlement)
      /\ \A j \in Settlement : UnheardRedeemed[j] \in Int
  BY UnheardTyped DEF UnheardTyping
<1>2. /\ SumFunction(UnheardRedeemed)' = SumFunctionOnSet(UnheardRedeemed', Settlement)
      /\ \A j \in Settlement : UnheardRedeemed'[j] \in Int
  <2>1. UnheardTyping'
    BY UnheardTyped, PTL
  <2>. QED BY <2>1 DEF UnheardTyping
<1>. QED BY <1>1, <1>2, SumChange, PositionFiniteAssumption

LEMMA UnheardStays ==
    ASSUME Booking, Booking', UNCHANGED <<exec, forgotten, redeemed, settled>>,
           \A o \in Order : VenueSize(o)' = VenueSize(o)
    PROVE  UNCHANGED <<SumFunction(UnheardLots), SumFunction(UnheardRedeemed)>>
<1>1. UnheardLots' = UnheardLots /\ UnheardRedeemed' = UnheardRedeemed
  BY DEF UnheardLots, UnheardRedeemed, ToldOf
<1>. QED BY <1>1

\* What is heard is not pending.
LEMMA HeardNothingPending ==
    ASSUME Booking
    PROVE  /\ ExecutionsHeard => SumFunction(UnheardLots) = 0
           /\ SettlementsHeard(Settlement) => SumFunction(UnheardRedeemed) = 0
           /\ \A id \in Settlement \ settled : SettlementsHeard(Settlement \ {id})
                  => SumFunction(UnheardRedeemed) = redeemed[id]
<1>1. /\ SumFunction(UnheardLots) = SumFunctionOnSet(UnheardLots, Order)
      /\ SumFunction(UnheardRedeemed) = SumFunctionOnSet(UnheardRedeemed, Settlement)
      /\ \A j \in Settlement : UnheardRedeemed[j] \in Int /\ redeemed[j] \in Nat
  BY UnheardTyped DEF UnheardTyping, Booking, Inv, TypeOK
<1>2. ASSUME ExecutionsHeard
      PROVE  SumFunction(UnheardLots) = 0
  <2>1. \A o \in Order : ToldOf(o) = VenueSize(o) /\ VenueSize(o) \in Nat
    BY <1>2, LatestState DEF ExecutionsHeard
  <2>2. \A o \in Order : UnheardLots[o] = 0
    BY <2>1 DEF UnheardLots
  <2>. QED BY <1>1, <2>2, SumZero, PositionFiniteAssumption
<1>3. ASSUME SettlementsHeard(Settlement)
      PROVE  SumFunction(UnheardRedeemed) = 0
  <2>1. \A j \in Settlement : UnheardRedeemed[j] = 0
    BY <1>1, <1>3 DEF UnheardRedeemed, SettlementsHeard
  <2>. QED BY <1>1, <2>1, SumZero, PositionFiniteAssumption
<1>4. ASSUME NEW id \in Settlement \ settled, SettlementsHeard(Settlement \ {id})
      PROVE  SumFunction(UnheardRedeemed) = redeemed[id]
  <2> DEFINE R == Settlement \ {id}
  <2>1. \A j \in R : UnheardRedeemed[j] = 0
    BY <1>1, <1>4 DEF UnheardRedeemed, SettlementsHeard
  <2>2. SumFunctionOnSet(UnheardRedeemed, R) = 0
    BY <2>1, SumZero, FS_Subset, PositionFiniteAssumption
  <2>3. UnheardRedeemed[id] = redeemed[id] /\ redeemed[id] \in Nat
    BY <1>1 DEF UnheardRedeemed
  <2>4. SumFunctionOnSet(UnheardRedeemed, Settlement)
            = UnheardRedeemed[id] + SumFunctionOnSet(UnheardRedeemed, R)
    BY <1>1, SumRemove, PositionFiniteAssumption
  <2>. QED BY <1>1, <2>2, <2>3, <2>4
<1>. QED BY <1>2, <1>3, <1>4

\* A booked report moves the position by the lots that it adds.
LEMMA BookedQuantity ==
    ASSUME Booking, NEW o \in Order, NEW e \in Report, ApplyBooked(o, e)
    PROVE  /\ e.size \in Nat /\ exec[o].size \in Nat /\ record.quantity \in Nat
           /\ exec[o].size <= e.size
           /\ AddedSize(o, e) = e.size - exec[o].size
           /\ record'.quantity = IF o \in BuyOrder THEN record.quantity + (e.size - exec[o].size)
                                 ELSE record.quantity - (e.size - exec[o].size)
<1>1. /\ exec[o] \in Execution /\ record \in Record /\ Ensured \in Record
      /\ Ensured.quantity = record.quantity
      /\ RowInv(record) /\ (~exec[o].known => exec[o] = NoExecution)
  BY DEF Booking, EvidenceInv, Inv, TypeOK, WithinInventory, RowInv, Record, Ensured
<1>2. e.size \in Nat /\ exec[o].size \in Nat /\ record.quantity \in Nat
  BY <1>1 DEF Report, Execution, Record
<1>3. exec[o].size <= e.size
  <2>1. CASE exec[o].known
    BY <1>2, <2>1 DEF ApplyBooked, Ignored
  <2>2. CASE ~exec[o].known
    BY <1>1, <1>2, <2>2 DEF NoExecution
  <2>. QED BY <2>1, <2>2
<1>4. AddedSize(o, e) = e.size - exec[o].size
  BY <1>2, <1>3 DEF AddedSize, Larger
<1> DEFINE n == e.size - exec[o].size
<1>5. n \in Nat /\ AddedSize(o, e) = n
  BY <1>2, <1>3, <1>4
<1>6. \A r \in Record : Reopened(r).quantity = r.quantity /\ Flattened(r).quantity = r.quantity
  BY DEF Reopened, Flattened, Record
<1>7. ASSUME o \in BuyOrder
      PROVE  BuyBooked(o, e) \in Record /\ BuyBooked(o, e).quantity = record.quantity + n
  <2>1. CASE Corrects(o, e) \/ Hydrates(o, e)
    <3>1. n = 0
      BY <1>2, <2>1 DEF Corrects, Hydrates, SameSize
    <3>2. Corrects(o, e) => Corrected(o, e) \in Record /\ Corrected(o, e).quantity = record.quantity
      <4>1. Corrects(o, e) => Corrected(o, e) \in Record
        BY CorrectedRow DEF Booking, RowInv
      <4>. QED BY <1>1, <4>1 DEF Corrected, Record
    <3>3. Hydrates(o, e) => Hydrated(o, e) \in Record /\ Hydrated(o, e).quantity = record.quantity
      <4>1. Hydrates(o, e) => Hydrated(o, e) \in Record
        BY HydratedRow DEF Booking, RowInv
      <4>. QED BY <1>1, <4>1 DEF Hydrated, Record
    <3>. QED BY <1>2, <2>1, <3>1, <3>2, <3>3 DEF BuyBooked
  <2>2. CASE ~Corrects(o, e) /\ ~Hydrates(o, e)
    <3>1. Bought(o, e) \in Record
      BY BoughtRow DEF Booking, RowInv
    <3> HIDE DEF n
    <3>2. Bought(o, e).quantity = record.quantity + n
      BY <1>1, <1>5 DEF Bought, Record
    <3>. QED BY <2>2, <3>1, <3>2 DEF BuyBooked
  <2>. QED BY <2>1, <2>2
<1>8. ASSUME o \notin BuyOrder
      PROVE  SellBooked(o, e) \in Record /\ SellBooked(o, e).quantity = record.quantity - n
  <2>0. o \in SellOrder /\ Confirmed(o, e)
    BY <1>8 DEF Order, ApplyBooked
  <2>1. SellBooked(o, e) \in Record
    BY <2>0, SellRow DEF Booking, RowInv
  <2> HIDE DEF n
  <2>2. CASE n > 0
    <3> DEFINE s == [Ensured EXCEPT
              !.quantity = @ - n,
              !.priced = IF HasAverage THEN Larger(0, @ - n) ELSE 0,
              !.cost = IF HasAverage THEN Larger(0, @ - RemovedCost(n)) ELSE 0,
              !.proceeds = IF AddedPriced(o, e) THEN @ + AddedNotional(o, e) ELSE @,
              !.pnl = IF HasAverage /\ AddedPriced(o, e)
                      THEN @ + AddedNotional(o, e) - RemovedCost(n) ELSE @,
              !.pnlComplete = @ /\ HasAverage /\ AddedPriced(o, e)]
    <3>1. SellBooked(o, e) = Flattened(s)
      BY <1>5, <2>2 DEF SellBooked, Reduced
    <3>2. s.quantity = record.quantity - n /\ DOMAIN s = DOMAIN Ensured
      BY <1>1 DEF Record
    <3>3. Flattened(s).quantity = s.quantity
      <4>1. DOMAIN Ensured = DOMAIN [known |-> 0, quantity |-> 0, priced |-> 0, cost |-> 0,
                                     proceeds |-> 0, pnl |-> 0, pnlComplete |-> 0, closed |-> 0]
        BY <1>1 DEF Record
      <4> HIDE DEF s
      <4>. QED BY <3>2, <4>1 DEF Flattened
    <3> HIDE DEF s
    <3>. QED BY <2>1, <3>1, <3>2, <3>3
  <2>3. CASE n = 0
    <3>1. SellBooked(o, e).quantity = record.quantity
      BY <1>1, <1>5, <2>3 DEF SellBooked, SellCorrected, Record
    <3>. QED BY <1>2, <2>1, <2>3, <3>1
  <2>. QED BY <1>5, <2>1, <2>2, <2>3
<1>9. record' = Reopened(IF o \in BuyOrder THEN BuyBooked(o, e) ELSE SellBooked(o, e))
  BY DEF ApplyBooked, Booked
<1> HIDE DEF n
<1>10. record'.quantity = IF o \in BuyOrder THEN record.quantity + n ELSE record.quantity - n
  BY <1>6, <1>7, <1>8, <1>9
<1>. QED BY <1>2, <1>3, <1>4, <1>10 DEF n

VenueSizes == Booking => \A o \in Order : VenueSize(o) \in Nat

LEMMA VenueSizesTyped == VenueSizes
BY LatestState DEF VenueSizes

LEMMA BalanceTyped ==
    ASSUME Booking
    PROVE  /\ wallet \in Nat /\ inflow \in Nat /\ record.quantity \in Nat
           /\ surplus \in Nat /\ shortage \in Nat
           /\ SumFunction(UnheardLots) \in Int /\ SumFunction(UnheardRedeemed) \in Int
BY UnheardTyped DEF UnheardTyping, Booking, Inv, TypeOK, Record

LEMMA BalanceInit == ASSUME Init PROVE BalanceInv
<1>1. \A o \in Order : VenueSize(o) = 0
  <2> TAKE o \in Order
  <2> DEFINE z == [size |-> 0, notional |-> 0]
  <2>1. Latest(o) = {z}
    BY DEF Init, Latest
  <2>2. (CHOOSE e \in Latest(o) : TRUE) = z
    BY <2>1
  <2>3. z.size = 0
    OBVIOUS
  <2> HIDE DEF z
  <2>. QED BY <2>2, <2>3 DEF VenueSize
<1>2. SumFunction(UnheardLots) = SumFunctionOnSet(UnheardLots, Order)
      /\ SumFunction(UnheardRedeemed) = SumFunctionOnSet(UnheardRedeemed, Settlement)
  BY DEF SumFunction, UnheardLots, UnheardRedeemed
<1>3. \A o \in Order : UnheardLots[o] = 0
  BY <1>1 DEF Init, UnheardLots, ToldOf, Larger, NoExecution
<1>4. \A id \in Settlement : UnheardRedeemed[id] = 0
  BY DEF Init, UnheardRedeemed
<1>5. SumFunction(UnheardLots) = 0 /\ SumFunction(UnheardRedeemed) = 0
  BY <1>2, <1>3, <1>4, SumZero, PositionFiniteAssumption
<1>6. wallet = 0 /\ inflow = 0 /\ record.quantity = 0 /\ surplus = 0 /\ shortage = 0
  BY DEF Init, NoRecord
<1>. QED BY <1>5, <1>6 DEF BalanceInv

LEMMA FillBalance ==
    ASSUME Booking, Booking', BalanceInv, NEW o \in Order, VenueFill(o)
    PROVE  BalanceInv'
<1> DEFINE n == VenueSize(o)' - VenueSize(o)
<1>1. /\ \A b \in Order \ {o} : VenueSize(b)' = VenueSize(b)
      /\ wallet' = IF o \in BuyOrder THEN wallet + n ELSE wallet - n
  BY FillEvidence
<1>2. UNCHANGED <<inflow, redeemed, record, exec, settled, forgotten, surplus, shortage>>
  BY DEF VenueFill, Internal, counted
<1>3. \A b \in Order \ {o} : UnheardLots'[b] = UnheardLots[b]
  BY <1>1, <1>2 DEF UnheardLots, ToldOf
<1>4. SumFunction(UnheardLots)' = SumFunction(UnheardLots) + (UnheardLots'[o] - UnheardLots[o])
  BY <1>3, UnheardLotsStep
<1>5. UnheardRedeemed' = UnheardRedeemed
  BY <1>2 DEF UnheardRedeemed
<1>6. VenueSize(o) \in Nat /\ VenueSize(o)' \in Nat /\ ToldOf(o) \in Nat
  <2>1. VenueSize(o) \in Nat
    BY LatestState
  <2>2. VenueSize(o)' \in Nat
    <3>1. VenueSizes'
      BY VenueSizesTyped, PTL
    <3>. QED BY <3>1 DEF VenueSizes
  <2>. QED BY <2>1, <2>2, ToldTyped
<1>7. UnheardLots'[o] - UnheardLots[o] = IF o \in BuyOrder THEN n ELSE -n
  <2>1. UnheardLots[o] = IF o \in BuyOrder THEN VenueSize(o) - ToldOf(o)
                         ELSE ToldOf(o) - VenueSize(o)
    BY DEF UnheardLots
  <2>2. UnheardLots'[o] = IF o \in BuyOrder THEN VenueSize(o)' - ToldOf(o)
                          ELSE ToldOf(o) - VenueSize(o)'
    BY <1>2 DEF UnheardLots, ToldOf
  <2>. QED BY <1>6, <2>1, <2>2
<1>8. n \in Int
  BY <1>6
<1> HIDE DEF n
<1> DEFINE w == wallet
           q == record.quantity
           l == SumFunction(UnheardLots)
           r == SumFunction(UnheardRedeemed)
<1>9. w \in Int /\ q \in Int /\ l \in Int /\ r \in Int
      /\ inflow \in Nat /\ surplus \in Nat /\ shortage \in Nat
      /\ w - q - l + r \in (-surplus)..(inflow + shortage)
  BY BalanceTyped DEF BalanceInv
<1>10. w' = (IF o \in BuyOrder THEN w + n ELSE w - n)
       /\ l' = l + (IF o \in BuyOrder THEN n ELSE -n) /\ r' = r /\ q' = q
       /\ inflow' = inflow /\ surplus' = surplus /\ shortage' = shortage
  BY <1>1, <1>2, <1>4, <1>5, <1>7
<1> HIDE DEF w, q, l, r
<1>11. w' - q' - l' + r' = w - q - l + r
  BY <1>8, <1>9, <1>10
<1>. QED BY <1>9, <1>10, <1>11 DEF BalanceInv, w, q, l, r

\* The lots that a report adds and the book had not been told of before.
LEMMA BookedTold ==
    ASSUME NEW x \in Nat, NEW n \in Nat, NEW f \in Nat, x <= n
    PROVE  /\ Larger(0, Smaller(n, f) - x) \in Nat
           /\ Larger(n, f) - Larger(x, f) = (n - x) - Larger(0, Smaller(n, f) - x)
BY DEF Larger, Smaller

LEMMA BookedBalance ==
    ASSUME Booking, Booking', BalanceInv, NEW o \in Order, ApplyCumulative(o)
    PROVE  BalanceInv'
<1>1. UNCHANGED <<venue, wallet, inflow, redeemed, settled, forgotten>>
  BY DEF ApplyCumulative, outside
<1>2. PICK e \in Report : ApplyIgnored(o, e) \/ ApplyRefused(o, e) \/ ApplyBooked(o, e)
  BY ReportsAreReports DEF ApplyCumulative, Booking
<1>3. UnheardRedeemed' = UnheardRedeemed
  BY <1>1 DEF UnheardRedeemed
<1>4. \A b \in Order : VenueSize(b)' = VenueSize(b)
  BY <1>1 DEF VenueSize, Latest
<1> DEFINE w == wallet
           q == record.quantity
           l == SumFunction(UnheardLots)
           r == SumFunction(UnheardRedeemed)
<1>5. w \in Int /\ q \in Int /\ l \in Int /\ r \in Int
      /\ inflow \in Nat /\ surplus \in Nat /\ shortage \in Nat
      /\ w - q - l + r \in (-surplus)..(inflow + shortage)
  BY BalanceTyped DEF BalanceInv
<1>6. CASE ApplyIgnored(o, e) \/ ApplyRefused(o, e)
  <2>1. record' = Ensured /\ exec' = exec /\ surplus' = surplus /\ shortage' = shortage
    BY <1>6 DEF ApplyIgnored, ApplyRefused, counted
  <2>2. record'.quantity = record.quantity
    BY <2>1 DEF Ensured, Booking, Inv, TypeOK, Record
  <2>3. UnheardLots' = UnheardLots
    BY <1>1, <1>4, <2>1 DEF UnheardLots, ToldOf
  <2>. QED BY <1>1, <1>3, <1>5, <2>1, <2>2, <2>3 DEF BalanceInv
<1>7. CASE ApplyBooked(o, e)
  <2> DEFINE n == e.size - exec[o].size
             again == BookedAgain(o, e)
  <2>1. /\ e.size \in Nat /\ exec[o].size \in Nat /\ exec[o].size <= e.size
        /\ record'.quantity = IF o \in BuyOrder THEN record.quantity + n
                              ELSE record.quantity - n
    BY <1>7, BookedQuantity
  <2>2. exec'[o].size = e.size /\ \A b \in Order \ {o} : exec'[b] = exec[b]
    BY <1>7 DEF ApplyBooked, Booking, Inv, TypeOK
  <2>3. \A b \in Order \ {o} : UnheardLots'[b] = UnheardLots[b]
    BY <1>1, <1>4, <2>2 DEF UnheardLots, ToldOf
  <2>4. l' = l + (UnheardLots'[o] - UnheardLots[o])
    BY <2>3, UnheardLotsStep
  <2>5. forgotten[o] \in Nat
    BY ToldTyped
  <2>6. again \in Nat /\ Larger(e.size, forgotten[o]) - ToldOf(o) = n - again
    BY <2>1, <2>5, BookedTold DEF BookedAgain, ToldOf
  <2>7. UnheardLots'[o] - UnheardLots[o] = IF o \in BuyOrder THEN again - n ELSE n - again
    <3>1. UnheardLots[o] = IF o \in BuyOrder THEN VenueSize(o) - ToldOf(o)
                           ELSE ToldOf(o) - VenueSize(o)
      BY DEF UnheardLots
    <3>2. UnheardLots'[o] = IF o \in BuyOrder THEN VenueSize(o) - Larger(e.size, forgotten[o])
                            ELSE Larger(e.size, forgotten[o]) - VenueSize(o)
      BY <1>1, <1>4, <2>2 DEF UnheardLots, ToldOf
    <3>3. VenueSize(o) \in Nat /\ ToldOf(o) \in Nat /\ Larger(e.size, forgotten[o]) \in Nat
      BY <2>1, <2>5, LatestState, ToldTyped DEF Larger
    <3> DEFINE v == VenueSize(o)
               t == ToldOf(o)
               u == Larger(e.size, forgotten[o])
    <3>4. v \in Nat /\ t \in Nat /\ u \in Nat /\ u - t = n - again /\ n \in Int /\ again \in Nat
      BY <2>1, <2>6, <3>3
    <3>5. UnheardLots[o] = (IF o \in BuyOrder THEN v - t ELSE t - v)
          /\ UnheardLots'[o] = (IF o \in BuyOrder THEN v - u ELSE u - v)
      BY <3>1, <3>2
    <3> HIDE DEF v, t, u, n, again
    <3>. QED BY <3>4, <3>5
  <2>8. n \in Int
    BY <2>1
  <2>9. /\ surplus' = IF o \in BuyOrder THEN surplus + again ELSE surplus
        /\ shortage' = IF o \in BuyOrder THEN shortage ELSE shortage + again
    BY <1>7, PositionOrdersAssumption DEF ApplyBooked, Order
  <2> HIDE DEF n, again
  <2>10. /\ w' = w /\ r' = r /\ inflow' = inflow
         /\ l' = l + (IF o \in BuyOrder THEN again - n ELSE n - again)
         /\ q' = IF o \in BuyOrder THEN q + n ELSE q - n
    BY <1>1, <1>3, <2>1, <2>4, <2>7 DEF n
  <2> HIDE DEF w, q, l, r
  <2>11. /\ o \in BuyOrder => w' - q' - l' + r' = (w - q - l + r) - again
         /\ o \notin BuyOrder => w' - q' - l' + r' = (w - q - l + r) + again
    BY <1>5, <2>6, <2>8, <2>10
  <2> DEFINE b == w - q - l + r
  <2>12. b \in (-surplus)..(inflow + shortage)
         /\ (o \in BuyOrder => w' - q' - l' + r' = b - again)
         /\ (o \notin BuyOrder => w' - q' - l' + r' = b + again)
    BY <1>5, <2>11
  <2> HIDE DEF b
  <2>13. w' - q' - l' + r' \in (-surplus')..(inflow' + shortage')
    BY <1>5, <2>6, <2>9, <2>10, <2>12
  <2>. QED BY <2>13 DEF BalanceInv, w, q, l, r
<1>. QED BY <1>2, <1>6, <1>7

LEMMA RedeemedBalance ==
    ASSUME Booking, Booking', BalanceInv, NEW id \in Settlement, Redeem(id)
    PROVE  BalanceInv'
<1>1. /\ UNCHANGED <<venue, inflow, record, exec, settled, forgotten, surplus, shortage>>
      /\ redeemed[id] = 0 /\ redeemed' = [redeemed EXCEPT ![id] = wallet] /\ wallet' = 0
  BY DEF Redeem, Internal, counted
<1>2. id \notin settled /\ redeemed \in [Settlement -> Nat]
  BY <1>1 DEF Booking, EvidenceInv, Inv, TypeOK
<1>3. \A j \in Settlement \ {id} : UnheardRedeemed'[j] = UnheardRedeemed[j]
  BY <1>1, <1>2 DEF UnheardRedeemed
<1>4. UnheardRedeemed[id] = 0 /\ UnheardRedeemed'[id] = wallet
  BY <1>1, <1>2 DEF UnheardRedeemed
<1>5. SumFunction(UnheardRedeemed)'
          = SumFunction(UnheardRedeemed) + (UnheardRedeemed'[id] - UnheardRedeemed[id])
  BY <1>3, UnheardRedeemedStep
<1>6. UnheardLots' = UnheardLots
  BY <1>1 DEF UnheardLots, ToldOf, VenueSize, Latest
<1> DEFINE w == wallet
           q == record.quantity
           l == SumFunction(UnheardLots)
           r == SumFunction(UnheardRedeemed)
<1>7. w \in Int /\ q \in Int /\ l \in Int /\ r \in Int
      /\ inflow \in Nat /\ surplus \in Nat /\ shortage \in Nat
      /\ w - q - l + r \in (-surplus)..(inflow + shortage)
  BY BalanceTyped DEF BalanceInv
<1>8. w' = 0 /\ q' = q /\ l' = l /\ r' = r + (w - 0)
      /\ inflow' = inflow /\ surplus' = surplus /\ shortage' = shortage
  BY <1>1, <1>4, <1>5, <1>6
<1> HIDE DEF w, q, l, r
<1>9. w' - q' - l' + r' = w - q - l + r
  BY <1>7, <1>8
<1>. QED BY <1>7, <1>8, <1>9 DEF BalanceInv, w, q, l, r

\* Lots taken off are off the position.
LEMMA ReducedQuantity ==
    ASSUME RowInv(record), NEW lots \in Nat, lots <= record.quantity,
           NEW proceeds \in Int, NEW priced \in BOOLEAN
    PROVE  Reduced(record, lots, proceeds, priced).quantity = record.quantity - lots
<1> DEFINE s == [record EXCEPT
              !.quantity = @ - lots,
              !.priced = IF HasAverage THEN Larger(0, @ - lots) ELSE 0,
              !.cost = IF HasAverage THEN Larger(0, @ - RemovedCost(lots)) ELSE 0,
              !.proceeds = IF priced THEN @ + proceeds ELSE @,
              !.pnl = IF HasAverage /\ priced
                      THEN @ + proceeds - RemovedCost(lots) ELSE @,
              !.pnlComplete = @ /\ HasAverage /\ priced]
<1>1. Reduced(record, lots, proceeds, priced) = Flattened(s)
  BY DEF Reduced
<1>2. DOMAIN record = DOMAIN [known |-> 0, quantity |-> 0, priced |-> 0, cost |-> 0,
                              proceeds |-> 0, pnl |-> 0, pnlComplete |-> 0, closed |-> 0]
  BY DEF RowInv, Record
<1>3. s.quantity = record.quantity - lots /\ DOMAIN s = DOMAIN record
  BY <1>2
<1>4. Flattened(s).quantity = s.quantity
  <2> HIDE DEF s
  <2>. QED BY <1>2, <1>3 DEF Flattened
<1> HIDE DEF s
<1>. QED BY <1>1, <1>3, <1>4

LEMMA SettledBalance ==
    ASSUME Booking, Booking', BalanceInv, NEW id \in Settlement,
           NEW payout \in Payout, Settle(id, payout)
    PROVE  BalanceInv'
<1>1. UNCHANGED <<venue, wallet, inflow, redeemed, exec, forgotten>>
  BY DEF Settle, outside
<1>2. UnheardLots' = UnheardLots
  BY <1>1 DEF UnheardLots, ToldOf, VenueSize, Latest
<1> DEFINE w == wallet
           q == record.quantity
           l == SumFunction(UnheardLots)
           r == SumFunction(UnheardRedeemed)
<1>3. w \in Int /\ q \in Int /\ l \in Int /\ r \in Int
      /\ inflow \in Nat /\ surplus \in Nat /\ shortage \in Nat
      /\ w - q - l + r \in (-surplus)..(inflow + shortage)
  BY BalanceTyped DEF BalanceInv
<1>4. CASE UNCHANGED <<record, settled, counted>>
  <2>1. UnheardRedeemed' = UnheardRedeemed
    BY <1>1, <1>4 DEF UnheardRedeemed
  <2>. QED BY <1>1, <1>2, <1>3, <1>4, <2>1 DEF BalanceInv, counted
<1>5. CASE /\ id \notin settled
           /\ \E lots \in SettledLots(id) :
                  /\ lots <= record.quantity
                  /\ record' = Reduced(record, lots, lots * payout, TRUE)
                  /\ Miscounted(id, lots)
           /\ settled' = settled \cup {id}
  <2>1. PICK lots \in SettledLots(id) :
                  /\ lots <= record.quantity
                  /\ record' = Reduced(record, lots, lots * payout, TRUE)
                  /\ Miscounted(id, lots)
    BY <1>5
  <2>2. /\ RowInv(record) /\ record.quantity \in Nat /\ redeemed[id] \in Nat /\ payout \in Nat
    BY PositionPricesAssumption DEF Booking, Inv, TypeOK, WithinInventory, RowInv, Record
  <2>3. lots \in Nat
    BY <2>2 DEF SettledLots
  <2>4. lots * payout \in Int
    BY <2>2, <2>3, ProductNat
  <2>5. q' = q - lots
    BY <2>1, <2>2, <2>3, <2>4, ReducedQuantity
  <2>6. \A j \in Settlement \ {id} : UnheardRedeemed'[j] = UnheardRedeemed[j]
    BY <1>1, <1>5 DEF UnheardRedeemed
  <2>7. UnheardRedeemed[id] = redeemed[id] /\ UnheardRedeemed'[id] = 0
    BY <1>1, <1>5 DEF UnheardRedeemed
  <2>8. r' = r + (0 - redeemed[id])
    BY <2>6, <2>7, UnheardRedeemedStep
  <2>9. w' = w /\ l' = l /\ inflow' = inflow
    BY <1>1, <1>2
  <2>10. CASE HeardBut(id) /\ lots # redeemed[id]
    <3>1. wallet = 0 /\ lots = record.quantity
      BY <2>1, <2>10 DEF SettledLots
    <3>2. l = 0 /\ r = redeemed[id]
      BY <1>5, <2>10, HeardNothingPending DEF HeardBut
    <3>3. surplus' = surplus /\ shortage' = shortage
      BY <2>1, <2>10 DEF Miscounted
    <3>4. w = 0 /\ q = lots
      BY <3>1
    <3> HIDE DEF w, q, l, r
    <3>5. w' - q' - l' + r' = 0
      BY <1>3, <2>2, <2>5, <2>8, <2>9, <3>2, <3>4
    <3>6. 0 \in (-surplus')..(inflow' + shortage')
      BY <1>3, <2>9, <3>3
    <3>. QED BY <3>5, <3>6 DEF BalanceInv, w, q, l, r
  <2>11. CASE ~HeardBut(id) \/ lots = redeemed[id]
    <3> DEFINE m == redeemed[id]
               b == w - q - l + r
    <3>1. /\ surplus' = surplus + Larger(0, m - lots)
          /\ shortage' = shortage + Larger(0, lots - m)
      BY <1>3, <2>1, <2>2, <2>3, <2>11 DEF Miscounted, Larger
    <3>2. m \in Nat /\ r' = r + (0 - m)
      BY <2>2, <2>8
    <3>3. b \in (-surplus)..(inflow + shortage)
      BY <1>3
    <3> HIDE DEF w, q, l, r, m
    <3>4. w' - q' - l' + r' = b + (lots - m)
      BY <1>3, <2>3, <2>5, <2>9, <3>2
    <3> HIDE DEF b
    <3>5. b + (lots - m) \in (-surplus')..(inflow' + shortage')
      BY <1>3, <2>3, <2>9, <3>1, <3>2, <3>3 DEF Larger
    <3>. QED BY <3>4, <3>5 DEF BalanceInv, w, q, l, r
  <2>. QED BY <2>10, <2>11
<1>. QED BY <1>4, <1>5 DEF Settle

LEMMA FloorBalance ==
    ASSUME Booking, Booking', BalanceInv, ObserveFloor
    PROVE  BalanceInv'
<1>1. UNCHANGED <<venue, wallet, inflow, redeemed, exec, settled, forgotten, shortage>>
  BY DEF ObserveFloor, outside
<1>2. UnheardLots' = UnheardLots /\ UnheardRedeemed' = UnheardRedeemed
  BY <1>1 DEF UnheardLots, ToldOf, UnheardRedeemed, VenueSize, Latest
<1>3. record'.quantity = Larger(record.quantity, wallet)
  <2>1. record \in Record /\ Larger(record.quantity, wallet) \in Nat
    BY DEF Booking, Inv, TypeOK, Record, Larger
  <2>2. Ensured \in Record /\ Ensured.quantity = record.quantity
    BY <2>1 DEF Ensured, Record
  <2> DEFINE q == Larger(record.quantity, wallet)
             f == [Ensured EXCEPT !.quantity = q]
  <2>3. record' = Reopened(f)
    BY <2>2 DEF ObserveFloor
  <2> HIDE DEF q
  <2>4. f \in Record /\ f.quantity = q
    BY <2>1, <2>2 DEF Record, q
  <2> HIDE DEF f
  <2>. QED BY <2>3, <2>4 DEF Reopened, Record, q
<1> DEFINE w == wallet
           q == record.quantity
           l == SumFunction(UnheardLots)
           r == SumFunction(UnheardRedeemed)
<1>4. w \in Nat /\ q \in Nat /\ l \in Int /\ r \in Int
      /\ inflow \in Nat /\ surplus \in Nat /\ shortage \in Nat
      /\ w - q - l + r \in (-surplus)..(inflow + shortage)
  BY BalanceTyped DEF BalanceInv
<1>5. w' = w /\ q' = Larger(q, w) /\ l' = l /\ r' = r
  BY <1>1, <1>2, <1>3
<1>6. CASE Heard
  <2>1. l = 0 /\ r = 0
    BY <1>6, HeardNothingPending DEF Heard
  <2>2. surplus' = surplus
    BY <1>6 DEF ObserveFloor
  <2> HIDE DEF w, q, l, r
  <2>3. w' - q' - l' + r' \in (-surplus')..(inflow' + shortage')
    BY <1>1, <1>4, <1>5, <2>1, <2>2 DEF Larger
  <2>. QED BY <2>3 DEF BalanceInv, w, q, l, r
<1>7. CASE ~Heard
  <2>1. surplus' = surplus + Larger(0, w - q)
    BY <1>7 DEF ObserveFloor
  <2> DEFINE b == w - q - l + r
  <2>2. b \in (-surplus)..(inflow + shortage) /\ b \in Int
    BY <1>4
  <2> HIDE DEF w, q, l, r
  <2>3. w' - q' - l' + r' = b - Larger(0, w - q)
    BY <1>4, <1>5 DEF Larger
  <2> HIDE DEF b
  <2>4. b - Larger(0, w - q) \in (-surplus')..(inflow' + shortage')
    BY <1>1, <1>4, <2>1, <2>2 DEF Larger
  <2>. QED BY <2>3, <2>4 DEF BalanceInv, w, q, l, r
<1>. QED BY <1>6, <1>7

LEMMA PrunedBalance ==
    ASSUME Booking, Booking', BalanceInv, PruneClosed
    PROVE  BalanceInv'
<1>1. /\ UNCHANGED <<venue, wallet, inflow, redeemed, settled, surplus, shortage>>
      /\ record.quantity = 0 /\ record' = NoRecord
      /\ exec' = [o \in Order |-> NoExecution]
      /\ forgotten' = [o \in Order |-> ToldOf(o)]
  BY DEF PruneClosed, outside, counted
<1>2. UnheardRedeemed' = UnheardRedeemed
  BY <1>1 DEF UnheardRedeemed
<1>3. \A o \in Order : ToldOf(o)' = ToldOf(o)
  <2> TAKE o \in Order
  <2>1. ToldOf(o) \in Nat
    BY ToldTyped
  <2>2. exec'[o].size = 0 /\ forgotten'[o] = ToldOf(o)
    BY <1>1 DEF NoExecution
  <2>. QED BY <2>1, <2>2 DEF ToldOf, Larger
<1>4. UnheardLots' = UnheardLots
  BY <1>1, <1>3 DEF UnheardLots, VenueSize, Latest
<1>5. record'.quantity = record.quantity
  BY <1>1 DEF NoRecord
<1>. QED BY <1>1, <1>2, <1>4, <1>5 DEF BalanceInv

LEMMA InflowBalance == ASSUME Booking, Booking', BalanceInv, Inflow PROVE BalanceInv'
<1>1. /\ UNCHANGED <<venue, record, redeemed, exec, settled, forgotten, surplus, shortage>>
      /\ inflow' = inflow + 1 /\ wallet' = wallet + 1
  BY DEF Inflow, Internal, counted
<1>2. UnheardLots' = UnheardLots /\ UnheardRedeemed' = UnheardRedeemed
  BY <1>1 DEF UnheardLots, ToldOf, UnheardRedeemed, VenueSize, Latest
<1> DEFINE w == wallet
           q == record.quantity
           l == SumFunction(UnheardLots)
           r == SumFunction(UnheardRedeemed)
<1>3. w \in Int /\ q \in Int /\ l \in Int /\ r \in Int
      /\ inflow \in Nat /\ surplus \in Nat /\ shortage \in Nat
      /\ w - q - l + r \in (-surplus)..(inflow + shortage)
  BY BalanceTyped DEF BalanceInv
<1>4. w' = w + 1 /\ q' = q /\ l' = l /\ r' = r
  BY <1>1, <1>2
<1> DEFINE b == w - q - l + r
<1>5. b \in (-surplus)..(inflow + shortage) /\ b \in Int
  BY <1>3
<1> HIDE DEF w, q, l, r
<1>6. w' - q' - l' + r' = b + 1
  BY <1>3, <1>4
<1> HIDE DEF b
<1>7. b + 1 \in (-surplus')..(inflow' + shortage')
  BY <1>1, <1>3, <1>5
<1>. QED BY <1>6, <1>7 DEF BalanceInv, w, q, l, r

LEMMA BalanceStep ==
    ASSUME Booking, Booking', BalanceInv, [Next]_vars PROVE BalanceInv'
<1>1. ASSUME NEW o \in Order, VenueFill(o) PROVE BalanceInv'
  BY <1>1, FillBalance
<1>2. ASSUME NEW o \in Order, ApplyCumulative(o) PROVE BalanceInv'
  BY <1>2, BookedBalance
<1>3. ASSUME NEW id \in Settlement, Redeem(id) PROVE BalanceInv'
  BY <1>3, RedeemedBalance
<1>4. ASSUME NEW id \in Settlement, NEW payout \in Payout, Settle(id, payout)
      PROVE  BalanceInv'
  BY <1>4, SettledBalance
<1>5. CASE UNCHANGED vars
  BY <1>5 DEF BalanceInv, UnheardLots, ToldOf, UnheardRedeemed, VenueSize, Latest, vars
<1>. QED
  BY <1>1, <1>2, <1>3, <1>4, <1>5, InflowBalance, FloorBalance, PrunedBalance DEF Next

THEOREM BookingHolds == Spec => []Booking
<1>1. Init => EvidenceInv
  BY EvidenceInit
<1>2. Inv /\ EvidenceInv /\ [Next]_vars => EvidenceInv'
  BY EvidenceStep DEF Booking
<1>3. Booking <=> Inv /\ EvidenceInv
  BY DEF Booking
<1>. QED BY <1>1, <1>2, <1>3, PositionInv, PTL DEF Spec

\* However late evidence comes and however often: once everything that happened is
\* booked, the book holds what the wallet holds, up to inflow it was not told of and to
\* the lots that an early floor, an early settlement of everything or evidence repeated
\* after pruning made it count twice.
THEOREM InventoryTruthHolds == Spec => []InventoryTruth
<1>1. Init => BalanceInv
  BY BalanceInit
<1>2. Booking /\ Booking' /\ BalanceInv /\ [Next]_vars => BalanceInv'
  BY BalanceStep
<1>3. Booking /\ BalanceInv => InventoryTruth
  <2> SUFFICES ASSUME Booking, BalanceInv, Heard
               PROVE  record.quantity \in (wallet - inflow - shortage)..(wallet + surplus)
    BY DEF InventoryTruth
  <2>1. SumFunction(UnheardLots) = 0 /\ SumFunction(UnheardRedeemed) = 0
    BY HeardNothingPending DEF Heard
  <2>2. /\ wallet \in Nat /\ inflow \in Nat /\ record.quantity \in Nat
        /\ surplus \in Nat /\ shortage \in Nat
        /\ wallet - record.quantity \in (-surplus)..(inflow + shortage)
    BY <2>1, BalanceTyped DEF BalanceInv
  <2>. QED BY <2>2
<1>. QED BY <1>1, <1>2, <1>3, BookingHolds, PTL DEF Spec

-----------------------------------------------------------------------------
(* Money: what the BUY executions cost, and which of their lots have a price *)

Cost(x) == Larger(0, x.notional)
PricedSize(x) == IF x.notional = Unpriced THEN 0 ELSE x.size
UnpricedSize(x) == IF x.notional = Unpriced THEN x.size ELSE 0

LEMMA BuyOrdersFinite == IsFiniteSet(BuyOrder)
BY PositionFiniteAssumption, FS_Subset DEF Order

LEMMA ExecutionAmounts ==
    ASSUME NEW x, x.size \in Nat, x.notional \in Nat \cup {Unpriced}
    PROVE  /\ Cost(x) \in Nat /\ PricedSize(x) \in Nat /\ UnpricedSize(x) \in Nat
           /\ PricedSize(x) + UnpricedSize(x) = x.size
           /\ x.notional # Unpriced => Cost(x) = x.notional /\ PricedSize(x) = x.size
           /\ x.notional = Unpriced => Cost(x) = 0 /\ UnpricedSize(x) = x.size
BY DEF Cost, Larger, PricedSize, UnpricedSize, Unpriced

BuyTyping ==
    exec \in [Order -> Execution] =>
        /\ BoughtFor = SumFunctionOnSet([o \in BuyOrder |-> Cost(exec[o])], BuyOrder)
        /\ PricedLots = SumFunctionOnSet([o \in BuyOrder |-> PricedSize(exec[o])], BuyOrder)
        /\ UnpricedLots = SumFunctionOnSet([o \in BuyOrder |-> UnpricedSize(exec[o])], BuyOrder)
        /\ BoughtFor \in Nat /\ PricedLots \in Nat /\ UnpricedLots \in Nat
        /\ \A o \in BuyOrder : /\ Cost(exec[o]) \in Nat /\ Cost(exec[o]) <= BoughtFor
                               /\ PricedSize(exec[o]) \in Nat
                               /\ PricedSize(exec[o]) <= PricedLots
                               /\ UnpricedSize(exec[o]) \in Nat
                               /\ UnpricedSize(exec[o]) <= UnpricedLots

LEMMA BuyTyped == BuyTyping
<1> SUFFICES ASSUME exec \in [Order -> Execution] PROVE BuyTyping
  BY DEF BuyTyping
<1> DEFINE c == [o \in BuyOrder |-> Cost(exec[o])]
           p == [o \in BuyOrder |-> PricedSize(exec[o])]
           u == [o \in BuyOrder |-> UnpricedSize(exec[o])]
<1>1. /\ BoughtFor = SumFunctionOnSet(c, BuyOrder)
      /\ PricedLots = SumFunctionOnSet(p, BuyOrder)
      /\ UnpricedLots = SumFunctionOnSet(u, BuyOrder)
  BY DEF BoughtFor, PricedLots, UnpricedLots, SumFunction, Cost, PricedSize, UnpricedSize
<1>2. \A o \in BuyOrder : Cost(exec[o]) \in Nat /\ PricedSize(exec[o]) \in Nat
                          /\ UnpricedSize(exec[o]) \in Nat
  BY ExecutionAmounts DEF Execution, Order
<1>3. /\ \A o \in BuyOrder : c[o] \in Nat /\ p[o] \in Nat /\ u[o] \in Nat
      /\ \A o \in BuyOrder : c[o] = Cost(exec[o]) /\ p[o] = PricedSize(exec[o])
                             /\ u[o] = UnpricedSize(exec[o])
  BY <1>2
<1> HIDE DEF c, p, u
<1>4. /\ BoughtFor \in Nat /\ \A o \in BuyOrder : c[o] <= BoughtFor
      /\ PricedLots \in Nat /\ \A o \in BuyOrder : p[o] <= PricedLots
      /\ UnpricedLots \in Nat /\ \A o \in BuyOrder : u[o] <= UnpricedLots
  BY <1>1, <1>3, BuyOrdersFinite, SumNat
<1>. QED BY <1>1, <1>2, <1>3, <1>4 DEF BuyTyping, c, p, u

\* One BUY execution is replaced.
LEMMA BuyReplaced ==
    ASSUME exec \in [Order -> Execution], NEW o \in BuyOrder, NEW x \in Execution,
           exec' = [exec EXCEPT ![o] = x]
    PROVE  /\ BoughtFor' = BoughtFor + (Cost(x) - Cost(exec[o]))
           /\ PricedLots' = PricedLots + (PricedSize(x) - PricedSize(exec[o]))
           /\ UnpricedLots' = UnpricedLots + (UnpricedSize(x) - UnpricedSize(exec[o]))
<1> DEFINE c == [b \in BuyOrder |-> Cost(exec[b])]
           p == [b \in BuyOrder |-> PricedSize(exec[b])]
           u == [b \in BuyOrder |-> UnpricedSize(exec[b])]
           c2 == [b \in BuyOrder |-> Cost(exec'[b])]
           p2 == [b \in BuyOrder |-> PricedSize(exec'[b])]
           u2 == [b \in BuyOrder |-> UnpricedSize(exec'[b])]
<1>1. /\ BoughtFor = SumFunctionOnSet(c, BuyOrder)
      /\ PricedLots = SumFunctionOnSet(p, BuyOrder)
      /\ UnpricedLots = SumFunctionOnSet(u, BuyOrder)
  BY BuyTyped DEF BuyTyping
<1>2. /\ exec' \in [Order -> Execution] /\ exec'[o] = x
      /\ \A b \in Order \ {o} : exec'[b] = exec[b]
  BY DEF Order
<1>3. /\ BoughtFor' = SumFunctionOnSet(c2, BuyOrder)
      /\ PricedLots' = SumFunctionOnSet(p2, BuyOrder)
      /\ UnpricedLots' = SumFunctionOnSet(u2, BuyOrder)
  <2>1. BuyTyping'
    BY BuyTyped, PTL
  <2>. QED BY <1>2, <2>1 DEF BuyTyping
<1>4. \A y \in Execution : Cost(y) \in Int /\ PricedSize(y) \in Int /\ UnpricedSize(y) \in Int
  BY ExecutionAmounts DEF Execution
<1>5. \A b \in BuyOrder : exec[b] \in Execution /\ exec'[b] \in Execution
  BY <1>2 DEF Order
<1>6. /\ c \in [BuyOrder -> Int] /\ c[o] = Cost(exec[o])
      /\ c2 = [c EXCEPT ![o] = Cost(x)]
  BY <1>2, <1>4, <1>5 DEF Order
<1>7. /\ p \in [BuyOrder -> Int] /\ p[o] = PricedSize(exec[o])
      /\ p2 = [p EXCEPT ![o] = PricedSize(x)]
  BY <1>2, <1>4, <1>5 DEF Order
<1>8. /\ u \in [BuyOrder -> Int] /\ u[o] = UnpricedSize(exec[o])
      /\ u2 = [u EXCEPT ![o] = UnpricedSize(x)]
  BY <1>2, <1>4, <1>5 DEF Order
<1> HIDE DEF c, p, u, c2, p2, u2
<1>9. BoughtFor' = BoughtFor + (Cost(x) - Cost(exec[o]))
  <2>1. Cost(x) \in Int
    BY <1>4
  <2>2. SumFunctionOnSet([c EXCEPT ![o] = Cost(x)], BuyOrder)
            = SumFunctionOnSet(c, BuyOrder) + (Cost(x) - c[o])
    BY <1>6, <2>1, SumReplace, BuyOrdersFinite
  <2>. QED BY <1>1, <1>3, <1>6, <2>2
<1>10. PricedLots' = PricedLots + (PricedSize(x) - PricedSize(exec[o]))
  <2>1. PricedSize(x) \in Int
    BY <1>4
  <2>2. SumFunctionOnSet([p EXCEPT ![o] = PricedSize(x)], BuyOrder)
            = SumFunctionOnSet(p, BuyOrder) + (PricedSize(x) - p[o])
    BY <1>7, <2>1, SumReplace, BuyOrdersFinite
  <2>. QED BY <1>1, <1>3, <1>7, <2>2
<1>11. UnpricedLots' = UnpricedLots + (UnpricedSize(x) - UnpricedSize(exec[o]))
  <2>1. UnpricedSize(x) \in Int
    BY <1>4
  <2>2. SumFunctionOnSet([u EXCEPT ![o] = UnpricedSize(x)], BuyOrder)
            = SumFunctionOnSet(u, BuyOrder) + (UnpricedSize(x) - u[o])
    BY <1>8, <2>1, SumReplace, BuyOrdersFinite
  <2>. QED BY <1>1, <1>3, <1>8, <2>2
<1>. QED BY <1>9, <1>10, <1>11

LEMMA BuysStay ==
    ASSUME \A o \in BuyOrder : exec'[o] = exec[o]
    PROVE  UNCHANGED <<BoughtFor, PricedLots, UnpricedLots>>
<1>1. [o \in BuyOrder |-> Larger(0, exec'[o].notional)]
          = [o \in BuyOrder |-> Larger(0, exec[o].notional)]
  OBVIOUS
<1>2. BoughtFor' = BoughtFor
  BY <1>1 DEF BoughtFor
<1>3. PricedLots' = PricedLots /\ UnpricedLots' = UnpricedLots
  BY DEF PricedLots, UnpricedLots
<1>. QED BY <1>2, <1>3

LEMMA NothingBought ==
    ASSUME \A o \in BuyOrder : exec[o] = NoExecution
    PROVE  BoughtFor = 0 /\ PricedLots = 0 /\ UnpricedLots = 0
<1> DEFINE c == [o \in BuyOrder |-> Larger(0, exec[o].notional)]
           p == [o \in BuyOrder |-> IF exec[o].notional = Unpriced THEN 0 ELSE exec[o].size]
           u == [o \in BuyOrder |-> IF exec[o].notional = Unpriced THEN exec[o].size ELSE 0]
<1>1. \A o \in BuyOrder : exec[o].notional = 0 /\ exec[o].size = 0
  BY DEF NoExecution
<1>2. \A o \in BuyOrder : c[o] = 0 /\ p[o] = 0 /\ u[o] = 0
  BY <1>1 DEF Larger
<1>3. BoughtFor = SumFunctionOnSet(c, BuyOrder) /\ PricedLots = SumFunctionOnSet(p, BuyOrder)
      /\ UnpricedLots = SumFunctionOnSet(u, BuyOrder)
  BY DEF BoughtFor, PricedLots, UnpricedLots, SumFunction
<1> HIDE DEF c, p, u
<1>. QED BY <1>2, <1>3, SumZero, BuyOrdersFinite

-----------------------------------------------------------------------------
(* Prices *)

\* A report is about a state of the order.
LEMMA ReportedState ==
    ASSUME NEW o \in Order, NEW e \in Reports(o)
    PROVE  \E s \in venue[o] : e.size = s.size
BY DEF Reports

LEMMA PriceStep ==
    ASSUME Booking, PriceInv, [Next]_vars
    PROVE  PriceInv'
<1>1. ASSUME NEW o \in Order, VenueFill(o) PROVE PriceInv'
  <2>1. UNCHANGED <<exec, blurred>>
    BY <1>1 DEF VenueFill, Internal
  <2>2. \A b \in Order : venue[b] \subseteq venue'[b]
    BY <1>1 DEF VenueFill, Booking, Inv, TypeOK
  <2>. QED BY <2>1, <2>2 DEF PriceInv
<1>2. ASSUME NEW o \in Order, ApplyCumulative(o) PROVE PriceInv'
  <2>1. venue' = venue
    BY <1>2 DEF ApplyCumulative, outside
  <2>2. PICK e \in Reports(o) : ApplyIgnored(o, e) \/ ApplyRefused(o, e) \/ ApplyBooked(o, e)
    BY <1>2 DEF ApplyCumulative
  <2>3. CASE ApplyIgnored(o, e) \/ ApplyRefused(o, e)
    BY <2>1, <2>3 DEF ApplyIgnored, ApplyRefused, PriceInv
  <2>4. CASE ApplyBooked(o, e)
    <3>1. e.size <= Size[o] /\ e.size \in Nat /\ Size[o] \in Nat
      BY ReportedState, PositionSizesAssumption DEF Booking, Inv, TypeOK, EvidenceInv
    <3>2. /\ exec'[o].size = e.size /\ exec'[o].notional = e.notional
          /\ \A b \in Order \ {o} : exec'[b] = exec[b]
          /\ blurred' = (blurred \/ Blurs(o, e))
      BY <2>4 DEF ApplyBooked, Booking, Inv, TypeOK
    <3>3. ASSUME NEW b \in Order, exec'[b].known, ~blurred'
          PROVE  \/ exec'[b].notional = Unpriced
                 \/ [size |-> exec'[b].size, notional |-> exec'[b].notional] \in venue[b]
                 \/ exec'[b].size = Size[b]
      <4>1. CASE b # o
        BY <3>2, <3>3, <4>1 DEF PriceInv
      <4>2. CASE b = o
        <5>1. Estimated(o, e) => e.size = Size[o]
          <6>1. Estimated(o, e) => ~(e.size < Size[o])
            BY <3>2, <3>3 DEF Blurs
          <6>. QED BY <3>1, <6>1
        <5>. QED BY <3>2, <4>2, <5>1 DEF Estimated
      <4>. QED BY <4>1, <4>2
    <3>. QED BY <2>1, <3>3 DEF PriceInv
  <2>. QED BY <2>2, <2>3, <2>4
<1>3. CASE PruneClosed
  BY <1>3 DEF PruneClosed, outside, PriceInv, NoExecution
<1>4. ASSUME NEW id \in Settlement, Redeem(id) PROVE PriceInv'
  BY <1>4 DEF Redeem, Internal, PriceInv
<1>5. ASSUME NEW id \in Settlement, NEW payout \in Payout, Settle(id, payout) PROVE PriceInv'
  BY <1>5 DEF Settle, outside, PriceInv
<1>6. CASE Inflow \/ ObserveFloor \/ UNCHANGED vars
  BY <1>6 DEF Inflow, ObserveFloor, vars, outside, Internal, PriceInv
<1>. QED BY <1>1, <1>2, <1>3, <1>4, <1>5, <1>6 DEF Next

\* Later states of an order, while nothing blurs its price, cost no less.
LEMMA AddedCost ==
    ASSUME Booking, PriceInv, NEW o \in Order, NEW e \in Reports(o),
           ~blurred, ~Blurs(o, e), e.size > exec[o].size, e.notional # Unpriced
    PROVE  /\ exec[o].notional # Unpriced /\ AddedPriced(o, e)
           /\ AddedNotional(o, e) = e.notional - exec[o].notional
           /\ e.notional \in Nat /\ exec[o].notional \in Nat
           /\ e.notional - exec[o].notional >= 0
<1>1. /\ exec[o] \in Execution /\ e \in Report
      /\ venue[o] \in SUBSET [size : Nat, notional : Nat]
  BY ReportsAreReports DEF Booking, Inv, TypeOK
<1>2. CASE exec[o].known
  <2>1. AddedPriced(o, e) /\ ~Estimated(o, e)
    BY <1>2 DEF Blurs
  <2>2. exec[o].notional # Unpriced /\ [size |-> e.size, notional |-> e.notional] \in venue[o]
    BY <2>1 DEF AddedPriced, Estimated
  <2>3. e.size <= Size[o] /\ Size[o] \in Nat /\ e.size \in Nat /\ exec[o].size \in Nat
    BY <1>1, <2>2, PositionSizesAssumption DEF Booking, EvidenceInv, Execution, Report
  <2>4. exec[o].size # Size[o]
    BY <2>3
  <2>5. [size |-> exec[o].size, notional |-> exec[o].notional] \in venue[o]
    BY <1>2, <2>2, <2>4 DEF PriceInv
  <2>6. exec[o].notional <= e.notional
    <3>1. \A d, f \in venue[o] : d.size <= f.size => d.notional <= f.notional
      BY DEF Booking, EvidenceInv
    <3>2. exec[o].size <= e.size
      BY <2>3
    <3>. QED BY <2>2, <2>5, <3>1, <3>2
  <2>7. e.notional \in Nat /\ exec[o].notional \in Nat
    BY <1>1, <2>2 DEF Report, Execution
  <2>. QED BY <2>1, <2>2, <2>6, <2>7 DEF AddedNotional
<1>3. CASE ~exec[o].known
  <2>1. exec[o].notional = 0
    BY <1>3 DEF Booking, EvidenceInv, NoExecution
  <2>2. e.notional \in Nat
    BY <1>1 DEF Report
  <2>. QED BY <2>1, <2>2 DEF AddedPriced, AddedNotional, Unpriced
<1>. QED BY <1>2, <1>3

-----------------------------------------------------------------------------
(* Money: a report of a BUY *)

\* The amounts of a row that MoneyInv is about.
Amounts(r) == <<r.quantity, r.priced, r.cost, r.proceeds, r.pnl, r.pnlComplete>>

LEMMA ReopenedAmounts == ASSUME NEW r \in Record PROVE Amounts(Reopened(r)) = Amounts(r)
BY DEF Reopened, Record, Amounts

LEMMA EnsuredAmounts == ASSUME record \in Record
                        PROVE  Ensured \in Record /\ Amounts(Ensured) = Amounts(record)
BY DEF Ensured, Record, Amounts

\* A report that blurs nothing moves cost and priced lots by what it changes in the
\* evidence.
BuyMoves(r, o, e) ==
    /\ r \in Record
    /\ r.quantity = record.quantity + (e.size - exec[o].size)
    /\ r.priced = record.priced + (PricedSize(e) - PricedSize(exec[o]))
    /\ r.cost = record.cost + (Cost(e) - Cost(exec[o]))
    /\ r.proceeds = record.proceeds /\ r.pnl = record.pnl
    /\ r.pnlComplete = record.pnlComplete

LEMMA BuyFacts ==
    ASSUME Booking, NEW o \in BuyOrder, NEW e \in Reports(o)
    PROVE  /\ record \in Record /\ Ensured \in Record /\ Amounts(Ensured) = Amounts(record)
           /\ record.quantity \in Nat /\ record.priced \in Nat /\ record.cost \in Nat
           /\ record.proceeds \in Int /\ record.pnl \in Int
           /\ record.priced <= record.quantity
           /\ exec[o] \in Execution /\ e \in Report
           /\ exec[o].size \in Nat /\ e.size \in Nat
           /\ exec[o].notional \in Nat \cup {Unpriced} /\ e.notional \in Nat \cup {Unpriced}
           /\ exec[o].size = 0 => exec[o].notional \in {0, Unpriced}
           /\ e.size = 0 => e.notional \in {0, Unpriced}
           /\ ~exec[o].known => exec[o].size = 0 /\ exec[o].notional = 0
<1>1. record \in Record /\ exec[o] \in Execution /\ e \in Report /\ o \in Order
  BY ReportsAreReports DEF Booking, Inv, TypeOK, Order
<1>2. /\ exec[o].size = 0 => exec[o].notional \in {0, Unpriced}
      /\ ~exec[o].known => exec[o].size = 0 /\ exec[o].notional = 0
  BY <1>1 DEF Booking, Inv, ZeroIsFree, EvidenceInv, NoExecution
<1>3. Ensured \in Record /\ Amounts(Ensured) = Amounts(record)
  BY <1>1, EnsuredAmounts
<1>4. record.priced <= record.quantity
  BY DEF Booking, Inv, WithinInventory
<1>. QED BY <1>1, <1>2, <1>3, <1>4 DEF Record, Execution, Report, ZeroIsFree

LEMMA EnsuredMoves ==
    ASSUME Ensured \in Record, Amounts(Ensured) = Amounts(record),
           record.quantity \in Nat, record.priced \in Nat, record.cost \in Nat,
           NEW o, NEW e, e.size = exec[o].size, e.size \in Nat,
           PricedSize(e) = PricedSize(exec[o]), PricedSize(e) \in Int,
           Cost(e) = Cost(exec[o]), Cost(e) \in Int
    PROVE  BuyMoves(Ensured, o, e)
<1>1. /\ record.quantity = record.quantity + (e.size - exec[o].size)
      /\ record.priced = record.priced + (PricedSize(e) - PricedSize(exec[o]))
      /\ record.cost = record.cost + (Cost(e) - Cost(exec[o]))
  OBVIOUS
<1>2. /\ Ensured.quantity = record.quantity /\ Ensured.priced = record.priced
      /\ Ensured.cost = record.cost /\ Ensured.proceeds = record.proceeds
      /\ Ensured.pnl = record.pnl /\ Ensured.pnlComplete = record.pnlComplete
  BY DEF Amounts
<1>. QED BY <1>1, <1>2 DEF BuyMoves

LEMMA CorrectedMoves ==
    ASSUME Booking, MoneyInv, NEW o \in BuyOrder, NEW e \in Reports(o),
           ~blurred, record.pnlComplete, ~Blurs(o, e), Corrects(o, e)
    PROVE  BuyMoves(Corrected(o, e), o, e)
<1>1. /\ e.size = exec[o].size /\ exec[o].known
      /\ e.notional # Unpriced /\ exec[o].notional # Unpriced
  BY DEF Corrects, SameSize, AddedPriced
<1>2. /\ record \in Record /\ Ensured \in Record /\ Amounts(Ensured) = Amounts(record)
      /\ record.cost \in Nat /\ record.priced \in Nat /\ record.quantity \in Nat
      /\ exec[o].size \in Nat /\ e.notional \in Nat /\ exec[o].notional \in Nat
      /\ record.proceeds \in Int /\ record.pnl \in Int
  BY <1>1, BuyFacts
<1>3. /\ Cost(e) = e.notional /\ Cost(exec[o]) = exec[o].notional
      /\ PricedSize(e) = e.size /\ PricedSize(exec[o]) = exec[o].size
  BY <1>1, <1>2, ExecutionAmounts
<1> DEFINE d == e.notional - exec[o].notional
           c == Larger(0, record.cost + d)
<1>4. AddedNotional(o, e) = d /\ d \in Int
  BY <1>2 DEF AddedNotional
<1>5. d = 0 \/ ~LotsGone
  BY <1>4 DEF Blurs
<1>6. ~LotsGone => exec[o].size <= record.priced /\ record.cost + d >= 0
  <2> SUFFICES ASSUME ~LotsGone
               PROVE  exec[o].size <= record.priced /\ record.cost + d >= 0
    OBVIOUS
  <2>1. /\ record.cost + record.proceeds - record.pnl = BoughtFor
        /\ record.priced = PricedLots /\ record.proceeds = 0 /\ record.pnl = 0
    BY DEF MoneyInv, Conserved
  <2>2. /\ BoughtFor \in Nat /\ exec[o].notional <= BoughtFor
        /\ exec[o].size <= PricedLots
    BY <1>3, BuyTyped DEF BuyTyping, Booking, Inv, TypeOK
  <2>. QED BY <1>2, <2>1, <2>2
<1>7. CASE exec[o].size <= record.priced
  <2>1. Corrected(o, e) = [Ensured EXCEPT !.cost = c]
    BY <1>2, <1>4, <1>7 DEF Corrected, Amounts
  <2>2. c = record.cost + d /\ c \in Nat
    BY <1>2, <1>4, <1>5, <1>6 DEF Larger
  <2> HIDE DEF c, d
  <2>3. /\ Corrected(o, e) \in Record /\ Corrected(o, e).cost = c
        /\ Corrected(o, e).quantity = record.quantity /\ Corrected(o, e).priced = record.priced
        /\ Corrected(o, e).proceeds = record.proceeds /\ Corrected(o, e).pnl = record.pnl
        /\ Corrected(o, e).pnlComplete = record.pnlComplete
    BY <1>2, <2>1, <2>2 DEF Record, Amounts
  <2>. QED BY <1>1, <1>2, <1>3, <2>2, <2>3 DEF BuyMoves, d
<1>8. CASE ~(exec[o].size <= record.priced)
  <2>1. Corrected(o, e) = Ensured /\ d = 0
    BY <1>5, <1>6, <1>8 DEF Corrected
  <2>2. PricedSize(e) = PricedSize(exec[o]) /\ Cost(e) = Cost(exec[o])
    BY <1>1, <1>2, <1>3, <2>1
  <2>3. Cost(e) \in Int /\ PricedSize(e) \in Int
    BY <1>1, <1>2, <1>3
  <2> HIDE DEF d
  <2>. QED BY <1>1, <1>2, <2>1, <2>2, <2>3, EnsuredMoves
<1>. QED BY <1>7, <1>8

LEMMA QuotientExact == ASSUME NEW a \in Nat, NEW b \in Nat, b > 0 PROVE (b * a) \div b = a
OBVIOUS

LEMMA HydratedMoves ==
    ASSUME Booking, MoneyInv, NEW o \in BuyOrder, NEW e \in Reports(o),
           ~blurred, record.pnlComplete, Hydrates(o, e)
    PROVE  BuyMoves(Hydrated(o, e), o, e)
<1>1. /\ e.size = exec[o].size /\ e.notional # Unpriced /\ exec[o].notional = Unpriced
  BY DEF Hydrates, SameSize
<1>2. /\ record \in Record /\ Ensured \in Record /\ Amounts(Ensured) = Amounts(record)
      /\ record.cost \in Nat /\ record.priced \in Nat /\ record.quantity \in Nat
      /\ exec[o].size \in Nat /\ e.notional \in Nat
      /\ record.proceeds \in Int /\ record.pnl \in Int
      /\ e.size = 0 => e.notional = 0
  BY <1>1, BuyFacts
<1>3. /\ Cost(e) = e.notional /\ Cost(exec[o]) = 0
      /\ PricedSize(e) = e.size /\ PricedSize(exec[o]) = 0
      /\ UnpricedSize(exec[o]) = exec[o].size
  <2>1. Cost(e) = e.notional /\ PricedSize(e) = e.size
    BY <1>1, <1>2, ExecutionAmounts
  <2>2. /\ Cost(exec[o]) = 0 /\ PricedSize(exec[o]) = 0
        /\ UnpricedSize(exec[o]) = exec[o].size
    BY <1>1 DEF Cost, Larger, PricedSize, UnpricedSize, Unpriced
  <2>. QED BY <2>1, <2>2
<1>4. exec[o].size <= record.quantity - record.priced
  <2>1. UnpricedLots <= record.quantity - record.priced
    BY <1>2, BuyTyped DEF MoneyInv, BuyTyping, Booking, Inv, TypeOK
  <2>2. exec[o].size <= UnpricedLots /\ UnpricedLots \in Nat
    BY <1>3, BuyTyped DEF BuyTyping, Booking, Inv, TypeOK
  <2>. QED BY <1>2, <2>1, <2>2
<1>5. LotsToPrice(o) = e.size
  BY <1>1, <1>2, <1>4 DEF LotsToPrice, Smaller
<1> DEFINE p == record.priced + e.size
           c == record.cost + e.notional
<1>6. CASE e.size > 0
  <2>1. (e.size * e.notional) \div e.size = e.notional
    BY <1>1, <1>2, <1>6, QuotientExact
  <2>2. Hydrated(o, e) = [Ensured EXCEPT !.priced = p, !.cost = c]
    BY <1>2, <1>5, <1>6, <2>1 DEF Hydrated, Amounts
  <2>3. p \in Nat /\ c \in Nat
    BY <1>1, <1>2
  <2> HIDE DEF p, c
  <2>4. /\ Hydrated(o, e) \in Record /\ Hydrated(o, e).cost = c /\ Hydrated(o, e).priced = p
        /\ Hydrated(o, e).quantity = record.quantity
        /\ Hydrated(o, e).proceeds = record.proceeds /\ Hydrated(o, e).pnl = record.pnl
        /\ Hydrated(o, e).pnlComplete = record.pnlComplete
    BY <1>2, <2>2, <2>3 DEF Record, Amounts
  <2>. QED BY <1>1, <1>2, <1>3, <2>4 DEF BuyMoves, p, c
<1>7. CASE ~(e.size > 0)
  <2>1. Hydrated(o, e) = Ensured
    BY <1>5, <1>7 DEF Hydrated
  <2>2. e.size = 0 /\ e.notional = 0
    BY <1>1, <1>2, <1>7
  <2>3. PricedSize(e) = PricedSize(exec[o]) /\ Cost(e) = Cost(exec[o])
    BY <1>1, <1>3, <2>2
  <2>4. Cost(e) \in Int /\ PricedSize(e) \in Int
    BY <1>2, <1>3, <2>2
  <2>. QED BY <1>1, <1>2, <2>1, <2>3, <2>4, EnsuredMoves
<1>. QED BY <1>6, <1>7

LEMMA BoughtMoves ==
    ASSUME Booking, PriceInv, NEW o \in BuyOrder, NEW e \in Reports(o),
           ~blurred, ~Blurs(o, e), ~Ignored(o, e), ~Corrects(o, e), ~Hydrates(o, e)
    PROVE  BuyMoves(Bought(o, e), o, e)
<1>1. /\ record \in Record /\ Ensured \in Record /\ Amounts(Ensured) = Amounts(record)
      /\ record.cost \in Nat /\ record.priced \in Nat /\ record.quantity \in Nat
      /\ exec[o].size \in Nat /\ e.size \in Nat
      /\ exec[o].notional \in Nat \cup {Unpriced} /\ e.notional \in Nat \cup {Unpriced}
      /\ exec[o].size = 0 => exec[o].notional \in {0, Unpriced}
      /\ e.size = 0 => e.notional \in {0, Unpriced}
      /\ ~exec[o].known => exec[o].size = 0 /\ exec[o].notional = 0
      /\ record.proceeds \in Int /\ record.pnl \in Int /\ o \in Order
  BY BuyFacts DEF Order
<1>2. exec[o].size <= e.size
  BY <1>1 DEF Ignored
<1> DEFINE n == e.size - exec[o].size
           priced == n > 0 /\ AddedPriced(o, e) /\ AddedNotional(o, e) >= 0
           q == record.quantity + n
           p == IF priced THEN record.priced + n ELSE record.priced
           c == IF priced THEN record.cost + AddedNotional(o, e) ELSE record.cost
<1>3. AddedSize(o, e) = n /\ n \in Nat
  BY <1>1, <1>2 DEF AddedSize, Larger
<1>4. Bought(o, e) = [Ensured EXCEPT !.quantity = q, !.priced = p, !.cost = c]
  BY <1>1, <1>3 DEF Bought, Amounts
<1>5. /\ p = record.priced + (PricedSize(e) - PricedSize(exec[o]))
      /\ c = record.cost + (Cost(e) - Cost(exec[o]))
      /\ p \in Nat /\ c \in Nat
  <2>1. CASE n > 0 /\ e.notional # Unpriced
    <3>1. /\ AddedPriced(o, e) /\ AddedNotional(o, e) = e.notional - exec[o].notional
          /\ e.notional \in Nat /\ exec[o].notional \in Nat
          /\ e.notional - exec[o].notional >= 0 /\ exec[o].notional # Unpriced
      BY <1>1, <2>1, AddedCost
    <3>2. /\ Cost(e) = e.notional /\ Cost(exec[o]) = exec[o].notional
          /\ PricedSize(e) = e.size /\ PricedSize(exec[o]) = exec[o].size
      BY <1>1, <2>1, <3>1, ExecutionAmounts
    <3>. QED BY <1>1, <1>3, <2>1, <3>1, <3>2
  <2>2. CASE n > 0 /\ e.notional = Unpriced
    <3>1. ~AddedPriced(o, e)
      BY <2>2 DEF AddedPriced
    <3>2. ~exec[o].known
      BY <1>1, <2>2, <3>1 DEF Blurs
    <3>3. Cost(e) = 0 /\ Cost(exec[o]) = 0 /\ PricedSize(e) = 0 /\ PricedSize(exec[o]) = 0
      BY <1>1, <2>2, <3>2 DEF Cost, Larger, PricedSize, Unpriced
    <3>. QED BY <1>1, <3>1, <3>3
  <2>3. CASE n = 0
    <3>1. e.size = exec[o].size
      BY <1>1, <1>2, <2>3
    <3>2. CASE exec[o].known
      <4>1. e.notional = Unpriced /\ exec[o].notional = Unpriced
        BY <3>1, <3>2 DEF Corrects, Hydrates, Ignored, SameSize, AddedPriced
      <4>2. Cost(e) = Cost(exec[o]) /\ PricedSize(e) = PricedSize(exec[o]) /\ Cost(e) = 0
            /\ PricedSize(e) = 0
        BY <4>1 DEF Cost, Larger, PricedSize, Unpriced
      <4>. QED BY <1>1, <2>3, <4>2
    <3>3. CASE ~exec[o].known
      <4>1. e.size = 0 /\ e.notional \in {0, Unpriced} /\ exec[o].size = 0
            /\ exec[o].notional = 0
        BY <1>1, <3>1, <3>3
      <4>2. Cost(e) = 0 /\ Cost(exec[o]) = 0 /\ PricedSize(e) = 0 /\ PricedSize(exec[o]) = 0
        BY <4>1 DEF Cost, Larger, PricedSize, Unpriced
      <4>. QED BY <1>1, <2>3, <4>2
    <3>. QED BY <3>2, <3>3
  <2>. QED BY <1>3, <2>1, <2>2, <2>3
<1>6. q \in Nat
  BY <1>1, <1>3
<1> HIDE DEF p, c, q, priced
<1>7. /\ Bought(o, e) \in Record /\ Bought(o, e).cost = c /\ Bought(o, e).priced = p
      /\ Bought(o, e).quantity = q
      /\ Bought(o, e).proceeds = record.proceeds /\ Bought(o, e).pnl = record.pnl
      /\ Bought(o, e).pnlComplete = record.pnlComplete
  BY <1>1, <1>4, <1>5, <1>6 DEF Record, Amounts
<1>. QED BY <1>5, <1>7 DEF BuyMoves, q

-----------------------------------------------------------------------------
(* Money: steps *)

\* A booked report of a BUY.
LEMMA BuyMoney ==
    ASSUME Booking, PriceInv, MoneyInv, NEW o \in BuyOrder, NEW e \in Reports(o),
           ApplyBooked(o, e), settled' = settled
    PROVE  MoneyInv'
<1> SUFFICES ASSUME ~blurred', record'.pnlComplete
             PROVE  /\ Conserved'
                    /\ record'.quantity - record'.priced >= UnpricedLots'
                    /\ ~LotsGone' => /\ record'.priced = PricedLots'
                                     /\ record'.proceeds = 0 /\ record'.pnl = 0
  BY DEF MoneyInv
<1>1. ~blurred /\ ~Blurs(o, e) /\ ~Ignored(o, e)
  BY DEF ApplyBooked
<1> DEFINE r == BuyBooked(o, e)
           x == [known |-> TRUE, size |-> e.size, notional |-> e.notional,
                 quality |-> e.quality]
<1>2. record' = Reopened(r) /\ exec' = [exec EXCEPT ![o] = x]
  BY DEF ApplyBooked, Booked
<1>3. /\ record \in Record /\ record.quantity \in Nat /\ record.priced \in Nat
      /\ record.cost \in Nat /\ record.proceeds \in Int /\ record.pnl \in Int
      /\ exec[o].size \in Nat /\ e.size \in Nat /\ e \in Report
      /\ exec[o].notional \in Nat \cup {Unpriced} /\ e.notional \in Nat \cup {Unpriced}
  BY BuyFacts
<1>4. x \in Execution /\ Cost(x) = Cost(e) /\ PricedSize(x) = PricedSize(e)
      /\ UnpricedSize(x) = UnpricedSize(e)
  BY <1>3 DEF Report, Execution, Cost, PricedSize, UnpricedSize
<1>5. r \in Record
  <2>1. Corrects(o, e) => Corrected(o, e) \in Record
    BY <1>3, CorrectedRow DEF Booking, RowInv, Order
  <2>2. Hydrates(o, e) => Hydrated(o, e) \in Record
    BY <1>3, HydratedRow DEF Booking, RowInv, Order
  <2>3. Bought(o, e) \in Record
    BY <1>3, BoughtRow DEF Booking, RowInv, Order
  <2>. QED BY <2>1, <2>2, <2>3 DEF BuyBooked
<1>6. r.pnlComplete = record.pnlComplete
  <2>1. Ensured \in Record /\ Amounts(Ensured) = Amounts(record)
    BY BuyFacts
  <2>2. Ensured.pnlComplete = record.pnlComplete
    BY <2>1 DEF Amounts
  <2>3. /\ Corrected(o, e).pnlComplete = Ensured.pnlComplete
        /\ Hydrated(o, e).pnlComplete = Ensured.pnlComplete
        /\ Bought(o, e).pnlComplete = Ensured.pnlComplete
    BY <2>1 DEF Corrected, Hydrated, Bought, Record
  <2>. QED BY <2>2, <2>3 DEF BuyBooked
<1>7. Amounts(record') = Amounts(r)
  BY <1>2, <1>5, ReopenedAmounts
<1>8. record.pnlComplete
  BY <1>6, <1>7 DEF Amounts
<1>9. BuyMoves(r, o, e)
  <2>1. CASE Corrects(o, e)
    BY <1>1, <1>8, <2>1, CorrectedMoves DEF BuyBooked
  <2>2. CASE ~Corrects(o, e) /\ Hydrates(o, e)
    BY <1>1, <1>8, <2>2, HydratedMoves DEF BuyBooked
  <2>3. CASE ~Corrects(o, e) /\ ~Hydrates(o, e)
    BY <1>1, <2>3, BoughtMoves DEF BuyBooked
  <2>. QED BY <2>1, <2>2, <2>3
<1>10. exec \in [Order -> Execution]
  BY DEF Booking, Inv, TypeOK
<1> HIDE DEF r, x
<1>11. /\ BoughtFor' = BoughtFor + (Cost(e) - Cost(exec[o]))
       /\ PricedLots' = PricedLots + (PricedSize(e) - PricedSize(exec[o]))
       /\ UnpricedLots' = UnpricedLots + (UnpricedSize(e) - UnpricedSize(exec[o]))
  <2>1. /\ BoughtFor' = BoughtFor + (Cost(x) - Cost(exec[o]))
        /\ PricedLots' = PricedLots + (PricedSize(x) - PricedSize(exec[o]))
        /\ UnpricedLots' = UnpricedLots + (UnpricedSize(x) - UnpricedSize(exec[o]))
    BY <1>2, <1>4, <1>10, BuyReplaced
  <2>. QED BY <1>4, <2>1
<1>12. /\ BoughtFor \in Nat /\ PricedLots \in Nat /\ UnpricedLots \in Nat
  BY <1>10, BuyTyped DEF BuyTyping
<1>13. /\ Cost(e) \in Nat /\ PricedSize(e) \in Nat /\ UnpricedSize(e) \in Nat
       /\ Cost(exec[o]) \in Nat /\ PricedSize(exec[o]) \in Nat /\ UnpricedSize(exec[o]) \in Nat
       /\ PricedSize(e) + UnpricedSize(e) = e.size
       /\ PricedSize(exec[o]) + UnpricedSize(exec[o]) = exec[o].size
  BY <1>3, ExecutionAmounts
<1>14. /\ record'.quantity = record.quantity + (e.size - exec[o].size)
       /\ record'.priced = record.priced + (PricedSize(e) - PricedSize(exec[o]))
       /\ record'.cost = record.cost + (Cost(e) - Cost(exec[o]))
       /\ record'.proceeds = record.proceeds /\ record'.pnl = record.pnl
  BY <1>7, <1>9 DEF BuyMoves, Amounts
<1>15. /\ record.cost + record.proceeds - record.pnl = BoughtFor
       /\ record.quantity - record.priced >= UnpricedLots
       /\ ~LotsGone => record.priced = PricedLots /\ record.proceeds = 0 /\ record.pnl = 0
  BY <1>1, <1>8 DEF MoneyInv, Conserved
<1>16. LotsGone' = LotsGone
  BY <1>2, <1>10, PositionOrdersAssumption DEF LotsGone, Order
<1>17. Conserved'
  <2>1. record'.cost + record'.proceeds - record'.pnl = BoughtFor'
    BY <1>3, <1>11, <1>12, <1>13, <1>14, <1>15
  <2>. QED BY <2>1 DEF Conserved
<1>18. record'.quantity - record'.priced >= UnpricedLots'
  BY <1>3, <1>11, <1>12, <1>13, <1>14, <1>15
<1>19. ~LotsGone' => /\ record'.priced = PricedLots'
                     /\ record'.proceeds = 0 /\ record'.pnl = 0
  BY <1>11, <1>14, <1>15, <1>16
<1>. QED BY <1>17, <1>18, <1>19

\* An average cost is never taken for more than the whole, and is the whole for all lots.
LEMMA RemovedShare ==
    ASSUME NEW c \in Nat, NEW q \in Nat, NEW n \in Nat, q > 0, n <= q
    PROVE  /\ (c * n) \div q \in Nat /\ (c * n) \div q <= c
           /\ n = q => (c * n) \div q = c
<1> DEFINE d == (c * n) \div q
           m == c * n
<1>1. m \in Nat /\ d \in Nat
  BY ProductNat, QuotientNat
<1>2. m <= c * q
  <2>1. c * (q - n) \in Nat
    BY ProductNat
  <2>2. c * (q - n) = c * q - c * n
    OBVIOUS
  <2>3. c * q \in Nat
    BY ProductNat
  <2>. QED BY <1>1, <2>1, <2>2, <2>3
<1>3. (c * q) \div q = c
  <2>1. (q * c) \div q = c
    BY QuotientExact
  <2>2. q * c = c * q
    OBVIOUS
  <2>. QED BY <2>1, <2>2
<1>4. d <= c
  <2>1. c * q \in Nat
    BY ProductNat
  <2>2. m \div q <= (c * q) \div q
    <3> HIDE DEF m
    <3> DEFINE k == c * q
    <3>1. k \in Nat /\ m <= k
      BY <1>2, <2>1
    <3> HIDE DEF k
    <3>2. m \div q <= k \div q
      BY <1>1, <3>1
    <3>. QED BY <3>2 DEF k
  <2>. QED BY <1>3, <2>2
<1>5. n = q => d = c
  BY <1>3
<1>. QED BY <1>1, <1>4, <1>5

\* Lots leave the position: at a known average their cost moves into the result.
LEMMA ReducedMoney ==
    ASSUME RowInv(record), NEW r, r = record \/ r = Ensured,
           NEW lots \in Nat, lots <= record.quantity,
           NEW proceeds \in Int, NEW priced \in BOOLEAN, NEW u \in Nat,
           record.quantity - record.priced >= u,
           Reduced(r, lots, proceeds, priced).pnlComplete
    PROVE  LET s == Reduced(r, lots, proceeds, priced)
           IN /\ record.pnlComplete
              /\ s.cost + s.proceeds - s.pnl = record.cost + record.proceeds - record.pnl
              /\ s.quantity - s.priced >= u
<1>1. /\ r \in Record /\ r.quantity = record.quantity /\ r.priced = record.priced
      /\ r.cost = record.cost /\ r.proceeds = record.proceeds /\ r.pnl = record.pnl
      /\ r.pnlComplete = record.pnlComplete
  BY DEF RowInv, Record, Ensured
<1>2. /\ record.quantity \in Nat /\ record.priced \in Nat /\ record.cost \in Nat
      /\ record.proceeds \in Int /\ record.pnl \in Int /\ record.priced <= record.quantity
  BY DEF RowInv, Record
<1> DEFINE removed == RemovedCost(lots)
           s == [r EXCEPT !.quantity = @ - lots,
                          !.priced = IF HasAverage THEN Larger(0, @ - lots) ELSE 0,
                          !.cost = IF HasAverage THEN Larger(0, @ - removed) ELSE 0,
                          !.proceeds = IF priced THEN @ + proceeds ELSE @,
                          !.pnl = IF HasAverage /\ priced THEN @ + proceeds - removed ELSE @,
                          !.pnlComplete = @ /\ HasAverage /\ priced]
           f == [s EXCEPT !.priced = 0, !.cost = 0, !.closed = TRUE]
<1>3. Reduced(r, lots, proceeds, priced) = IF s.quantity = 0 THEN f ELSE s
  BY DEF Reduced, Flattened
<1>4. DOMAIN r = {"known", "quantity", "priced", "cost", "proceeds", "pnl", "pnlComplete",
                  "closed"}
  BY <1>1 DEF Record
<1>5. /\ s.quantity = r.quantity - lots
      /\ s.priced = IF HasAverage THEN Larger(0, r.priced - lots) ELSE 0
      /\ s.cost = IF HasAverage THEN Larger(0, r.cost - removed) ELSE 0
      /\ s.proceeds = IF priced THEN r.proceeds + proceeds ELSE r.proceeds
      /\ s.pnl = IF HasAverage /\ priced THEN r.pnl + proceeds - removed ELSE r.pnl
      /\ s.pnlComplete = (r.pnlComplete /\ HasAverage /\ priced)
      /\ DOMAIN s = DOMAIN r
  BY <1>4
<1> HIDE DEF s
<1>6. /\ f.quantity = s.quantity /\ f.priced = 0 /\ f.cost = 0 /\ f.proceeds = s.proceeds
      /\ f.pnl = s.pnl /\ f.pnlComplete = s.pnlComplete
  BY <1>4, <1>5
<1> HIDE DEF f
<1>7. s.pnlComplete
  BY <1>3, <1>6
<1>8. record.pnlComplete /\ HasAverage /\ priced
  BY <1>1, <1>5, <1>7
<1>9. record.quantity > 0 /\ record.priced = record.quantity
  BY <1>2, <1>8 DEF HasAverage, CompleteBasis
<1>10. /\ removed \in Nat /\ removed <= record.cost
       /\ lots = record.quantity => removed = record.cost
  BY <1>2, <1>9, RemovedShare DEF RemovedCost
<1> HIDE DEF removed
<1>11. /\ s.quantity = record.quantity - lots /\ s.priced = record.priced - lots
       /\ s.cost = record.cost - removed
       /\ s.proceeds = record.proceeds + proceeds
       /\ s.pnl = record.pnl + proceeds - removed
  <2>1. s.priced = Larger(0, record.priced - lots) /\ s.cost = Larger(0, record.cost - removed)
        /\ s.quantity = record.quantity - lots /\ s.proceeds = record.proceeds + proceeds
        /\ s.pnl = record.pnl + proceeds - removed
    BY <1>1, <1>5, <1>8
  <2>2. record.priced - lots >= 0 /\ record.cost - removed >= 0
    BY <1>2, <1>9, <1>10
  <2>. QED BY <1>2, <1>10, <2>1, <2>2 DEF Larger
<1>12. CASE s.quantity = 0
  <2>1. Reduced(r, lots, proceeds, priced) = f
    BY <1>3, <1>12
  <2>2. lots = record.quantity
    BY <1>2, <1>11, <1>12
  <2>3. f.cost + f.proceeds - f.pnl = record.cost + record.proceeds - record.pnl
    BY <1>2, <1>6, <1>10, <1>11, <2>2
  <2>4. f.quantity - f.priced >= u
    BY <1>2, <1>6, <1>9, <1>12
  <2>. QED BY <1>8, <2>1, <2>3, <2>4
<1>13. CASE s.quantity # 0
  <2>1. Reduced(r, lots, proceeds, priced) = s
    BY <1>3, <1>13
  <2>2. s.cost + s.proceeds - s.pnl = record.cost + record.proceeds - record.pnl
    BY <1>2, <1>10, <1>11
  <2>3. s.quantity - s.priced >= u
    BY <1>2, <1>9, <1>11
  <2>. QED BY <1>8, <2>1, <2>2, <2>3
<1>. QED BY <1>12, <1>13

\* A result that is complete after lots left was complete before.
LEMMA CompletedBefore ==
    ASSUME RowInv(record), NEW r, r = record \/ r = Ensured,
           NEW lots \in Nat, lots <= record.quantity,
           NEW proceeds \in Int, NEW priced \in BOOLEAN,
           Reduced(r, lots, proceeds, priced).pnlComplete
    PROVE  record.pnlComplete
<1>1. record.quantity - record.priced >= 0
  BY DEF RowInv, Record
<1>2. 0 \in Nat
  OBVIOUS
<1>. QED BY <1>1, <1>2, ReducedMoney

LEMMA SellMoney ==
    ASSUME Booking, MoneyInv, NEW o \in SellOrder, NEW e \in Reports(o),
           ApplyBooked(o, e), settled' = settled
    PROVE  MoneyInv'
<1> SUFFICES ASSUME ~blurred', record'.pnlComplete
             PROVE  /\ Conserved'
                    /\ record'.quantity - record'.priced >= UnpricedLots'
                    /\ ~LotsGone' => /\ record'.priced = PricedLots'
                                     /\ record'.proceeds = 0 /\ record'.pnl = 0
  BY DEF MoneyInv
<1>1. ~blurred /\ ~Ignored(o, e) /\ Confirmed(o, e)
  BY DEF ApplyBooked
<1>2. /\ o \in Order /\ o \notin BuyOrder /\ exec \in [Order -> Execution] /\ RowInv(record)
      /\ e \in Report
  BY PositionOrdersAssumption, ReportsAreReports
  DEF Order, Booking, Inv, TypeOK, WithinInventory, RowInv
<1>3. /\ exec'[o].size = e.size /\ \A b \in Order \ {o} : exec'[b] = exec[b]
      /\ record' = Reopened(SellBooked(o, e))
  BY <1>2 DEF ApplyBooked, Booked
<1>4. UNCHANGED <<BoughtFor, PricedLots, UnpricedLots>>
  BY <1>2, <1>3, BuysStay DEF Order
<1>5. BoughtFor \in Nat /\ PricedLots \in Nat /\ UnpricedLots \in Nat
  BY <1>2, BuyTyped DEF BuyTyping
<1>6. /\ record \in Record /\ record.quantity \in Nat /\ record.priced \in Nat
      /\ record.cost \in Nat /\ record.proceeds \in Int /\ record.pnl \in Int
      /\ exec[o].size \in Nat /\ e.size \in Nat
      /\ AddedNotional(o, e) \in Int /\ AddedPriced(o, e) \in BOOLEAN
  BY <1>2 DEF RowInv, Record, Execution, Report, AddedNotional, AddedPriced, Unpriced
<1>7. exec[o].size <= e.size
  <2>1. ~exec[o].known => exec[o].size = 0
    BY <1>2 DEF Booking, EvidenceInv, NoExecution
  <2>. QED BY <1>1, <1>6, <2>1 DEF Ignored
<1>8. SellBooked(o, e) \in Record
  BY <1>1, <1>2, SellRow DEF Booking, RowInv
<1>9. Amounts(record') = Amounts(SellBooked(o, e))
  BY <1>3, <1>8, ReopenedAmounts
<1>10. Ensured \in Record /\ Amounts(Ensured) = Amounts(record)
  BY <1>6, EnsuredAmounts
<1>11. CASE AddedSize(o, e) > 0
  <2> DEFINE n == AddedSize(o, e)
             s == Reduced(Ensured, n, AddedNotional(o, e), AddedPriced(o, e))
  <2>1. SellBooked(o, e) = s /\ s.pnlComplete
    BY <1>9, <1>11 DEF SellBooked, Amounts
  <2>2. n \in Nat /\ n <= record.quantity /\ e.size > 0
    BY <1>1, <1>6, <1>11 DEF AddedSize, Larger, Confirmed
  <2> HIDE DEF n
  <2>3. record.pnlComplete
    BY <1>2, <1>6, <2>1, <2>2, CompletedBefore
  <2>4. /\ record.cost + record.proceeds - record.pnl = BoughtFor
        /\ record.quantity - record.priced >= UnpricedLots
    BY <1>1, <2>3 DEF MoneyInv, Conserved
  <2>5. /\ s.cost + s.proceeds - s.pnl = record.cost + record.proceeds - record.pnl
        /\ s.quantity - s.priced >= UnpricedLots
    BY <1>2, <1>5, <1>6, <2>1, <2>2, <2>4, ReducedMoney
  <2> HIDE DEF s
  <2>6. Amounts(record') = Amounts(s)
    BY <1>9, <2>1
  <2>7. /\ record'.cost = s.cost /\ record'.proceeds = s.proceeds /\ record'.pnl = s.pnl
        /\ record'.quantity = s.quantity /\ record'.priced = s.priced
    BY <2>6 DEF Amounts
  <2>8. LotsGone'
    BY <1>3, <2>2 DEF LotsGone
  <2>. QED BY <1>4, <2>4, <2>5, <2>7, <2>8 DEF Conserved
<1>12. CASE ~(AddedSize(o, e) > 0)
  <2>1. e.size = exec[o].size
    BY <1>6, <1>7, <1>12 DEF AddedSize, Larger
  <2>2. LotsGone' = LotsGone
    <3>1. \A b \in SellOrder : exec'[b].size = exec[b].size
      BY <1>3, <2>1 DEF Order
    <3>. QED BY <3>1 DEF LotsGone
  <2>3. record.pnlComplete = record'.pnlComplete
    <3>1. SellCorrected(o, e).pnlComplete = Ensured.pnlComplete
      BY <1>10 DEF SellCorrected, Record
    <3>. QED BY <1>9, <1>10, <1>12, <3>1 DEF SellBooked, Amounts
  <2>4. /\ record.cost + record.proceeds - record.pnl = BoughtFor
        /\ record.quantity - record.priced >= UnpricedLots
        /\ ~LotsGone => record.priced = PricedLots /\ record.proceeds = 0 /\ record.pnl = 0
    BY <1>1, <2>3 DEF MoneyInv, Conserved
  <2>5. CASE Corrects(o, e)
    <3> DEFINE d == AddedNotional(o, e)
               g == record.proceeds + d
               n == record.pnl + d
               s == SellCorrected(o, e)
    <3>1. s = [Ensured EXCEPT !.proceeds = g, !.pnl = n]
      BY <1>10, <2>3 DEF SellCorrected, Amounts
    <3> HIDE DEF d, g, n
    <3>2. /\ s.proceeds = g /\ s.pnl = n /\ s.cost = record.cost
          /\ s.quantity = record.quantity /\ s.priced = record.priced
      BY <1>10, <3>1 DEF Record, Amounts
    <3> HIDE DEF s
    <3>3. Amounts(record') = Amounts(s)
      BY <1>9, <1>12, <2>5 DEF SellBooked, s
    <3>4. /\ record'.proceeds = g /\ record'.pnl = n /\ record'.cost = record.cost
          /\ record'.quantity = record.quantity /\ record'.priced = record.priced
      BY <3>2, <3>3 DEF Amounts
    <3>5. ~LotsGone => d = 0
      <4>1. ~LotsGone => exec[o].size = 0
        BY <1>6 DEF LotsGone
      <4>2. exec[o].size = 0 => exec[o].notional = 0 /\ e.notional = 0
        BY <1>2, <2>1, <2>5 DEF Corrects, AddedPriced, Booking, Inv, ZeroIsFree, Report
      <4>. QED BY <4>1, <4>2 DEF AddedNotional, d
    <3>6. d \in Int
      BY <1>6 DEF d
    <3>7. record'.cost + record'.proceeds - record'.pnl = BoughtFor
      BY <1>6, <2>4, <3>4, <3>6 DEF g, n
    <3>8. ~LotsGone => record'.proceeds = 0 /\ record'.pnl = 0
      BY <2>4, <3>4, <3>5 DEF g, n
    <3>. QED BY <1>4, <2>2, <2>4, <3>4, <3>7, <3>8 DEF Conserved
  <2>6. CASE ~Corrects(o, e)
    <3>1. SellBooked(o, e) = Ensured
      BY <1>12, <2>6 DEF SellBooked
    <3>2. Amounts(record') = Amounts(record)
      BY <1>9, <1>10, <3>1
    <3>3. /\ record'.proceeds = record.proceeds /\ record'.pnl = record.pnl
          /\ record'.cost = record.cost
          /\ record'.quantity = record.quantity /\ record'.priced = record.priced
      BY <3>2 DEF Amounts
    <3>. QED BY <1>4, <2>2, <2>4, <3>3 DEF Conserved
  <2>. QED BY <2>5, <2>6
<1>. QED BY <1>11, <1>12

\* A step that leaves executions, settlements and the amounts of the row alone.
LEMMA MoneyStays ==
    ASSUME MoneyInv, UNCHANGED <<exec, settled, blurred>>,
           UNCHANGED <<record.quantity, record.priced, record.cost, record.proceeds, record.pnl,
                       record.pnlComplete>>
    PROVE  MoneyInv'
<1>1. UNCHANGED <<BoughtFor, PricedLots, UnpricedLots, LotsGone>>
  BY BuysStay DEF LotsGone
<1>. QED BY <1>1 DEF MoneyInv, Conserved

LEMMA SettledMoney ==
    ASSUME Booking, MoneyInv, NEW id \in Settlement, NEW payout \in Payout, Settle(id, payout)
    PROVE  MoneyInv'
<1>1. exec' = exec /\ blurred' = blurred
  BY DEF Settle
<1>2. CASE UNCHANGED <<record, settled>>
  BY <1>1, <1>2, MoneyStays
<1>3. CASE /\ settled' = settled \cup {id}
           /\ \E lots \in SettledLots(id) :
                  lots <= record.quantity /\ record' = Reduced(record, lots, lots * payout, TRUE)
  <2>1. PICK lots \in SettledLots(id) :
                  lots <= record.quantity /\ record' = Reduced(record, lots, lots * payout, TRUE)
    BY <1>3
  <2>2. /\ RowInv(record) /\ record.quantity \in Nat /\ redeemed[id] \in Nat /\ payout \in Nat
        /\ exec \in [Order -> Execution]
    BY PositionPricesAssumption DEF Booking, Inv, TypeOK, WithinInventory, RowInv, Record
  <2>3. lots \in Nat
    BY <2>2 DEF SettledLots
  <2>4. lots * payout \in Int
    BY <2>2, <2>3, ProductNat
  <2>5. UNCHANGED <<BoughtFor, UnpricedLots>> /\ UnpricedLots \in Nat
    BY <1>1, <2>2, BuysStay, BuyTyped DEF BuyTyping
  <2>6. LotsGone'
    BY <1>3 DEF LotsGone
  <2>7. ASSUME ~blurred', record'.pnlComplete
        PROVE  Conserved' /\ record'.quantity - record'.priced >= UnpricedLots'
    <3> DEFINE m == lots * payout
    <3>1. record' = Reduced(record, lots, m, TRUE) /\ m \in Int
      BY <2>1, <2>4
    <3> HIDE DEF m
    <3>2. record.pnlComplete
      BY <2>1, <2>2, <2>3, <2>7, <3>1, CompletedBefore
    <3>3. /\ record.cost + record.proceeds - record.pnl = BoughtFor
          /\ record.quantity - record.priced >= UnpricedLots
      BY <1>1, <2>7, <3>2 DEF MoneyInv, Conserved
    <3> DEFINE s == Reduced(record, lots, m, TRUE)
    <3>4. record' = s /\ s.pnlComplete
      BY <2>7, <3>1
    <3>5. /\ s.cost + s.proceeds - s.pnl = record.cost + record.proceeds - record.pnl
          /\ s.quantity - s.priced >= UnpricedLots
      <4>1. UnpricedLots \in Nat /\ record.quantity - record.priced >= UnpricedLots
        BY <2>5, <3>3
      <4>. QED BY <2>1, <2>2, <2>3, <3>1, <3>4, <4>1, ReducedMoney
    <3> HIDE DEF s
    <3>. QED BY <2>5, <3>3, <3>4, <3>5 DEF Conserved
  <2>. QED BY <2>6, <2>7 DEF MoneyInv
<1>. QED BY <1>2, <1>3 DEF Settle

LEMMA FloorMoney == ASSUME Booking, MoneyInv, ObserveFloor PROVE MoneyInv'
<1> DEFINE q == Larger(record.quantity, wallet)
           f == [Ensured EXCEPT !.quantity = q]
<1>1. /\ record \in Record /\ wallet \in Nat /\ record.quantity \in Nat /\ record.priced \in Nat
      /\ exec \in [Order -> Execution]
  BY DEF Booking, Inv, TypeOK, Record
<1>2. q \in Nat /\ record.quantity <= q
  BY <1>1 DEF Larger
<1>3. Ensured \in Record /\ Amounts(Ensured) = Amounts(record)
  BY <1>1, EnsuredAmounts
<1>4. record' = Reopened(f) /\ UNCHANGED <<exec, settled, blurred>>
  BY <1>3 DEF ObserveFloor, Amounts
<1> HIDE DEF q
<1>5. /\ f \in Record /\ f.quantity = q /\ f.priced = record.priced /\ f.cost = record.cost
      /\ f.proceeds = record.proceeds /\ f.pnl = record.pnl
      /\ f.pnlComplete = record.pnlComplete
  BY <1>2, <1>3 DEF Record, Amounts
<1> HIDE DEF f
<1>6. Amounts(record') = Amounts(f)
  BY <1>4, <1>5, ReopenedAmounts
<1>7. /\ record'.quantity = q /\ record'.priced = record.priced /\ record'.cost = record.cost
      /\ record'.proceeds = record.proceeds /\ record'.pnl = record.pnl
      /\ record'.pnlComplete = record.pnlComplete
  BY <1>5, <1>6 DEF Amounts
<1>8. UNCHANGED <<BoughtFor, PricedLots, UnpricedLots, LotsGone>> /\ UnpricedLots \in Nat
  BY <1>1, <1>4, BuysStay, BuyTyped DEF LotsGone, BuyTyping
<1>9. record.quantity - record.priced >= UnpricedLots
          => record'.quantity - record'.priced >= UnpricedLots
  BY <1>1, <1>2, <1>7, <1>8
<1>. QED BY <1>4, <1>7, <1>8, <1>9 DEF MoneyInv, Conserved

NothingBoughtYet ==
    (\A o \in BuyOrder : exec[o] = NoExecution)
        => BoughtFor = 0 /\ PricedLots = 0 /\ UnpricedLots = 0

LEMMA NothingBoughtYetHolds == NothingBoughtYet
BY NothingBought DEF NothingBoughtYet

LEMMA PrunedMoney == ASSUME Booking, PruneClosed PROVE MoneyInv'
<1>1. record' = NoRecord /\ exec' = [o \in Order |-> NoExecution]
  BY DEF PruneClosed
<1>2. BoughtFor' = 0 /\ PricedLots' = 0 /\ UnpricedLots' = 0
  <2>1. NothingBoughtYet'
    BY NothingBoughtYetHolds, PTL
  <2>. QED BY <1>1, <2>1 DEF NothingBoughtYet, Order
<1>. QED BY <1>1, <1>2 DEF MoneyInv, Conserved, NoRecord

LEMMA MoneyInit == ASSUME Init PROVE MoneyInv
<1>1. BoughtFor = 0 /\ PricedLots = 0 /\ UnpricedLots = 0
  BY NothingBought DEF Init, Order
<1>. QED BY <1>1 DEF Init, MoneyInv, Conserved, NoRecord

LEMMA MoneyStep == ASSUME Booking, PriceInv, MoneyInv, [Next]_vars PROVE MoneyInv'
<1>1. ASSUME NEW o \in Order, VenueFill(o) PROVE MoneyInv'
  BY <1>1, MoneyStays DEF VenueFill, Internal
<1>2. ASSUME NEW o \in Order, ApplyCumulative(o) PROVE MoneyInv'
  <2>1. PICK e \in Reports(o) : ApplyIgnored(o, e) \/ ApplyRefused(o, e) \/ ApplyBooked(o, e)
    BY <1>2 DEF ApplyCumulative
  <2>2. settled' = settled
    BY <1>2 DEF ApplyCumulative
  <2>3. CASE ApplyIgnored(o, e) \/ ApplyRefused(o, e)
    <3>1. record' = Ensured /\ UNCHANGED <<exec, blurred>>
      BY <2>3 DEF ApplyIgnored, ApplyRefused
    <3>2. Amounts(record') = Amounts(record)
      BY <3>1, EnsuredAmounts DEF Booking, Inv, TypeOK
    <3>. QED BY <2>2, <3>1, <3>2, MoneyStays DEF Amounts
  <2>4. CASE ApplyBooked(o, e)
    BY <2>2, <2>4, BuyMoney, SellMoney DEF Order
  <2>. QED BY <2>1, <2>3, <2>4
<1>3. ASSUME NEW id \in Settlement, Redeem(id) PROVE MoneyInv'
  BY <1>3, MoneyStays DEF Redeem, Internal
<1>4. ASSUME NEW id \in Settlement, NEW payout \in Payout, Settle(id, payout) PROVE MoneyInv'
  BY <1>4, SettledMoney
<1>5. CASE Inflow \/ UNCHANGED vars
  BY <1>5, MoneyStays DEF Inflow, Internal, vars
<1>. QED BY <1>1, <1>2, <1>3, <1>4, <1>5, FloorMoney, PrunedMoney DEF Next

\* What the orders paid is in the cost of the lots held or in the result of those gone,
\* whatever comes late, as long as results count as complete and no price was blurred.
THEOREM MoneyConservedHolds == Spec => []MoneyConserved
<1>1. Init => PriceInv /\ MoneyInv
  <2>1. Init => PriceInv
    <3> SUFFICES ASSUME Init PROVE PriceInv
      OBVIOUS
    <3>1. \A o \in Order : ~exec[o].known
      BY DEF Init, NoExecution
    <3>. QED BY <3>1 DEF PriceInv
  <2>. QED BY <2>1, MoneyInit
<1>2. Booking /\ PriceInv /\ MoneyInv /\ [Next]_vars => PriceInv' /\ MoneyInv'
  BY PriceStep, MoneyStep
<1>3. MoneyInv => MoneyConserved
  BY DEF MoneyInv, MoneyConserved
<1>. QED BY <1>1, <1>2, <1>3, BookingHolds, PTL DEF Spec
=============================================================================
