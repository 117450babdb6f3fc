------------------------ MODULE FillAccountingProofs ------------------------
(***************************************************************************)
(* Proofs about the fill ledger, for any number of orders and threads, any *)
(* size, price and inflow bounds.                                          *)
(*                                                                         *)
(*   Accounting    types without bounds, and every row counts what it saw  *)
(*                 (Typing, CountedInv): holds in every instance           *)
(*   HeldInv       a thread that nobody overtook holds the row as it is    *)
(*   FlaggedInv    an observation above the request is the wallet's, and   *)
(*                 it is flagged or about to be                            *)
(*   TruthInv      rows and observations tell of nothing that did not      *)
(*                 happen; the bounds of TypeOK follow from it             *)
(*                                                                         *)
(* The sections on sums come first, as in PositionBookProofs: a sum over a *)
(* set is a recursion over its subsets, and a smallest set on which two    *)
(* recursions differ cannot exist.                                         *)
(***************************************************************************)
EXTENDS FillAccounting, FiniteSetTheorems, TLAPS

LEMMA ProductNat == ASSUME NEW a \in Nat, NEW b \in Nat PROVE a * b \in Nat
OBVIOUS

-----------------------------------------------------------------------------
(* Sums over finite sets *)

\* Induction over the finite subsets of a set: one of the smallest exceptions.
LEMMA SmallestSet ==
    ASSUME NEW S, NEW T \in SUBSET FiniteSubsetsOf(S), T # {}
    PROVE  \E X \in T : \A Y \in T : ~(Y \subseteq X /\ Y # X)
<1>1. IsWellFoundedOn(StrictSubsetOrdering(S), FiniteSubsetsOf(S))
  BY FS_StrictSubsetOrderingWellFounded
<1>2. T \subseteq FiniteSubsetsOf(S)
  OBVIOUS
<1>3. \E X \in T : \A Y \in T : ~ (<<Y, X>> \in StrictSubsetOrdering(S))
  BY <1>1, <1>2, WFMin
<1>. QED BY <1>2, <1>3 DEF StrictSubsetOrdering, FiniteSubsetsOf

\* The recursion that SumFunctionOnSet(f, S) stands for.
First(s) == CHOOSE x \in s : TRUE
Summation(f, S, g) ==
    g = [s \in SUBSET S |-> IF s = {} THEN 0 ELSE f[First(s)] + g[s \ {First(s)}]]

LEMMA SumIsRecursion ==
    ASSUME NEW f, NEW S
    PROVE  SumFunctionOnSet(f, S) = (CHOOSE g : Summation(f, S, g))[S]
BY DEF SumFunctionOnSet, FoldFunctionOnSet, MapThenFoldSet, Summation, First

LEMMA SummationAt ==
    ASSUME NEW f, NEW S, NEW g, Summation(f, S, g), NEW s \in SUBSET S
    PROVE  g[s] = IF s = {} THEN 0 ELSE f[First(s)] + g[s \ {First(s)}]
BY DEF Summation

LEMMA FirstIn == ASSUME NEW s, s # {} PROVE First(s) \in s
BY DEF First

\* Two recursions agree where both are defined.
LEMMA SummationUnique ==
    ASSUME NEW f, NEW S, IsFiniteSet(S), NEW T \in SUBSET S,
           NEW g, NEW h, Summation(f, S, g), Summation(f, T, h), NEW s \in SUBSET T
    PROVE  g[s] = h[s]
<1> DEFINE Bad == {u \in SUBSET T : g[u] # h[u]}
<1> SUFFICES ASSUME s \in Bad PROVE FALSE
  OBVIOUS
<1>1. Bad \in SUBSET FiniteSubsetsOf(T)
  BY FS_Subset DEF FiniteSubsetsOf
<1>2. PICK X \in Bad : \A Y \in Bad : ~(Y \subseteq X /\ Y # X)
  <2> HIDE DEF Bad
  <2>. QED BY <1>1, SmallestSet
<1>3. X \in SUBSET T /\ X \in SUBSET S /\ g[X] # h[X]
  OBVIOUS
<1>4. /\ g[X] = IF X = {} THEN 0 ELSE f[First(X)] + g[X \ {First(X)}]
      /\ h[X] = IF X = {} THEN 0 ELSE f[First(X)] + h[X \ {First(X)}]
  <2> HIDE DEF Bad
  <2>1. g[X] = IF X = {} THEN 0 ELSE f[First(X)] + g[X \ {First(X)}]
    BY <1>3, SummationAt
  <2>2. h[X] = IF X = {} THEN 0 ELSE f[First(X)] + h[X \ {First(X)}]
    BY <1>3, SummationAt
  <2>. QED BY <2>1, <2>2
<1>5. X # {} /\ g[X \ {First(X)}] # h[X \ {First(X)}]
  BY <1>3, <1>4
<1>6. X \ {First(X)} \in Bad
  BY <1>3, <1>5
<1>7. X \ {First(X)} # X
  BY <1>5, FirstIn
<1>. QED BY <1>2, <1>6, <1>7

LEMMA SummationExists ==
    ASSUME NEW f, NEW S, IsFiniteSet(S)
    PROVE  \E g : Summation(f, S, g)
<1> DEFINE Bad == {u \in SUBSET S : ~\E g : Summation(f, u, g)}
<1> SUFFICES ASSUME S \in Bad PROVE FALSE
  OBVIOUS
<1>1. Bad \in SUBSET FiniteSubsetsOf(S)
  BY FS_Subset DEF FiniteSubsetsOf
<1>2. PICK X \in Bad : \A Y \in Bad : ~(Y \subseteq X /\ Y # X)
  <2> HIDE DEF Bad
  <2>. QED BY <1>1, SmallestSet
<1>3. X \in SUBSET S /\ ~\E g : Summation(f, X, g)
  OBVIOUS
<1> DEFINE of(u) == CHOOSE g : Summation(f, u, g)
           G == [s \in SUBSET X |-> IF s = {} THEN 0
                                    ELSE f[First(s)] + of(s \ {First(s)})[s \ {First(s)}]]
<1>4. ASSUME NEW u \in SUBSET X, u # X
      PROVE  Summation(f, u, of(u))
  BY <1>2, <1>3, <1>4
<1>5. ASSUME NEW s \in SUBSET X, s # X
      PROVE  G[s] = of(s)[s]
  <2>1. Summation(f, s, of(s)) /\ s \in SUBSET s /\ IsFiniteSet(s)
    BY <1>3, <1>4, <1>5, FS_Subset
  <2> HIDE DEF of
  <2>2. of(s)[s] = IF s = {} THEN 0 ELSE f[First(s)] + of(s)[s \ {First(s)}]
    BY <2>1, SummationAt
  <2>3. ASSUME s # {}
        PROVE  of(s)[s \ {First(s)}] = of(s \ {First(s)})[s \ {First(s)}]
    <3>1. First(s) \in s
      BY <2>3, FirstIn
    <3>2. Summation(f, s \ {First(s)}, of(s \ {First(s)}))
      BY <1>4, <3>1
    <3>3. s \ {First(s)} \in SUBSET s /\ s \ {First(s)} \in SUBSET (s \ {First(s)})
      OBVIOUS
    <3>. QED BY <2>1, <3>2, <3>3, SummationUnique
  <2>. QED BY <2>2, <2>3
<1>6. \A s \in SUBSET X : s # {} => G[s \ {First(s)}] = of(s \ {First(s)})[s \ {First(s)}]
  <2> SUFFICES ASSUME NEW s \in SUBSET X, s # {}
               PROVE  G[s \ {First(s)}] = of(s \ {First(s)})[s \ {First(s)}]
    OBVIOUS
  <2>1. First(s) \in s
    BY FirstIn
  <2>2. s \ {First(s)} \in SUBSET X /\ s \ {First(s)} # X
    BY <2>1
  <2> HIDE DEF G, of
  <2>. QED BY <1>5, <2>2
<1>7. Summation(f, X, G)
  <2> HIDE DEF of
  <2>1. \A s \in SUBSET X : G[s] = IF s = {} THEN 0 ELSE f[First(s)] + G[s \ {First(s)}]
    BY <1>6
  <2>2. G = [s \in SUBSET X |-> G[s]]
    OBVIOUS
  <2> HIDE DEF G
  <2>. QED BY <2>1, <2>2 DEF Summation
<1>. QED BY <1>3, <1>7

LEMMA SumStep ==
    ASSUME NEW f, NEW S, IsFiniteSet(S)
    PROVE  /\ SumFunctionOnSet(f, {}) = 0
           /\ S # {} => SumFunctionOnSet(f, S) = f[First(S)] + SumFunctionOnSet(f, S \ {First(S)})
<1> DEFINE of(u) == CHOOSE g : Summation(f, u, g)
<1>1. ASSUME NEW u, IsFiniteSet(u)
      PROVE  Summation(f, u, of(u)) /\ SumFunctionOnSet(f, u) = of(u)[u]
  BY <1>1, SummationExists, SumIsRecursion
<1> HIDE DEF of
<1>2. SumFunctionOnSet(f, {}) = 0
  <2>1. IsFiniteSet({})
    BY FS_EmptySet
  <2>. QED BY <1>1, <2>1, SummationAt
<1>3. ASSUME S # {}
      PROVE  SumFunctionOnSet(f, S) = f[First(S)] + SumFunctionOnSet(f, S \ {First(S)})
  <2> DEFINE R == S \ {First(S)}
  <2>1. R \in SUBSET S /\ IsFiniteSet(R) /\ R \in SUBSET R
    BY FS_Subset
  <2>2. SumFunctionOnSet(f, S) = of(S)[S] /\ Summation(f, S, of(S))
        /\ SumFunctionOnSet(f, R) = of(R)[R] /\ Summation(f, R, of(R))
    BY <1>1, <2>1
  <2>3. of(S)[S] = f[First(S)] + of(S)[R]
    BY <1>3, <2>2, SummationAt
  <2>4. of(S)[R] = of(R)[R]
    <3> HIDE DEF R
    <3>. QED BY <2>1, <2>2, SummationUnique
  <2>. QED BY <2>2, <2>3, <2>4
<1>. QED BY <1>2, <1>3

\* Any element may be taken first.
LEMMA SumRemove ==
    ASSUME NEW S, IsFiniteSet(S), NEW f, \A x \in S : f[x] \in Int
    PROVE  /\ SumFunctionOnSet(f, S) \in Int
           /\ \A y \in S : SumFunctionOnSet(f, S) = f[y] + SumFunctionOnSet(f, S \ {y})
<1> DEFINE V(u) == SumFunctionOnSet(f, u)
           Good(u) == V(u) \in Int /\ \A y \in u : V(u) = f[y] + V(u \ {y})
           Bad == {u \in SUBSET S : ~Good(u)}
<1> SUFFICES ASSUME S \in Bad PROVE FALSE
  OBVIOUS
<1>1. Bad \in SUBSET FiniteSubsetsOf(S)
  BY FS_Subset DEF FiniteSubsetsOf
<1>2. PICK X \in Bad : \A Y \in Bad : ~(Y \subseteq X /\ Y # X)
  <2> HIDE DEF Bad
  <2>. QED BY <1>1, SmallestSet
<1>3. X \in SUBSET S /\ ~Good(X) /\ IsFiniteSet(X)
  BY FS_Subset
<1>4. ASSUME NEW u \in SUBSET X, u # X
      PROVE  V(u) \in Int /\ \A y \in u : V(u) = f[y] + V(u \ {y})
  BY <1>2, <1>3, <1>4
<1>5. V({}) = 0 /\ (X # {} => V(X) = f[First(X)] + V(X \ {First(X)}))
  BY <1>3, SumStep
<1>6. X # {}
  <2>1. ASSUME X = {} PROVE V(X) = 0
    BY <1>5, <2>1
  <2>2. ASSUME X = {} PROVE Good(X)
    <3> HIDE DEF V
    <3>. QED BY <2>1, <2>2
  <2>. QED BY <1>3, <2>2
<1> DEFINE a == First(X)
           va == V(X \ {a})
<1>7. a \in X /\ f[a] \in Int
  BY <1>3, <1>6, FirstIn
<1>8. V(X) = f[a] + va /\ va \in Int
  BY <1>4, <1>5, <1>6, <1>7
<1>9. ASSUME NEW y \in X, y # a
      PROVE  V(X) = f[y] + V(X \ {y})
  <2> DEFINE w == V((X \ {a}) \ {y})
             vy == V(X \ {y})
             v == V(X)
  <2>1. va = f[y] + w
    BY <1>4, <1>7, <1>9
  <2>2. vy = f[a] + V((X \ {y}) \ {a})
    BY <1>4, <1>7, <1>9
  <2>3. (X \ {a}) \ {y} = (X \ {y}) \ {a}
    OBVIOUS
  <2>4. vy = f[a] + w
    BY <2>2, <2>3
  <2>5. w \in Int /\ f[y] \in Int
    BY <1>3, <1>4, <1>7
  <2>6. v = f[a] + va
    BY <1>8
  <2> HIDE DEF w, vy, va, v, a
  <2>7. v = f[y] + vy
    BY <1>7, <2>1, <2>4, <2>5, <2>6
  <2>. QED BY <2>7 DEF v, vy
<1>10. V(X) \in Int
  <2> HIDE DEF va, a
  <2>. QED BY <1>7, <1>8
<1>11. \A y \in X : V(X) = f[y] + V(X \ {y})
  BY <1>8, <1>9
<1>12. Good(X)
  <2> HIDE DEF V
  <2>. QED BY <1>10, <1>11
<1>. QED BY <1>3, <1>12

LEMMA SumEmpty == ASSUME NEW f PROVE SumFunctionOnSet(f, {}) = 0
BY FS_EmptySet, SumStep

LEMMA SumAdd ==
    ASSUME NEW S, IsFiniteSet(S), NEW f, \A x \in S : f[x] \in Int,
           NEW y, y \notin S, f[y] \in Int
    PROVE  SumFunctionOnSet(f, S \cup {y}) = f[y] + SumFunctionOnSet(f, S)
<1> DEFINE T == S \cup {y}
<1>1. IsFiniteSet(T) /\ (\A x \in T : f[x] \in Int) /\ T \ {y} = S /\ y \in T
  BY FS_AddElement
<1> HIDE DEF T
<1>2. SumFunctionOnSet(f, T) = f[y] + SumFunctionOnSet(f, T \ {y})
  BY <1>1, SumRemove
<1>. QED BY <1>1, <1>2 DEF T

\* Terms that grow make a sum that grows.
LEMMA SumGrows ==
    ASSUME NEW S, IsFiniteSet(S), NEW f, NEW g,
           \A x \in S : f[x] \in Int /\ g[x] \in Int /\ f[x] <= g[x]
    PROVE  SumFunctionOnSet(f, S) <= SumFunctionOnSet(g, S)
<1> DEFINE V(h, u) == SumFunctionOnSet(h, u)
           Bad == {u \in SUBSET S : ~(V(f, u) <= V(g, u))}
<1> SUFFICES ASSUME S \in Bad PROVE FALSE
  OBVIOUS
<1>1. Bad \in SUBSET FiniteSubsetsOf(S)
  BY FS_Subset DEF FiniteSubsetsOf
<1>2. PICK X \in Bad : \A Y \in Bad : ~(Y \subseteq X /\ Y # X)
  <2> HIDE DEF Bad
  <2>. QED BY <1>1, SmallestSet
<1>3. X \in SUBSET S /\ ~(V(f, X) <= V(g, X)) /\ IsFiniteSet(X)
  BY FS_Subset
<1>4. X # {}
  BY <1>3, SumEmpty
<1>5. PICK y \in X : TRUE
  BY <1>4
<1>6. V(f, X) = f[y] + V(f, X \ {y}) /\ V(g, X) = g[y] + V(g, X \ {y})
  BY <1>3, SumRemove
<1>7. V(f, X \ {y}) \in Int /\ V(g, X \ {y}) \in Int
  BY <1>3, FS_Subset, SumRemove
<1>8. ~(V(f, X \ {y}) <= V(g, X \ {y}))
  <2>1. f[y] \in Int /\ g[y] \in Int /\ f[y] <= g[y]
    BY <1>3
  <2> HIDE DEF V
  <2>. QED BY <1>3, <1>6, <1>7, <2>1
<1>. QED BY <1>2, <1>3, <1>8

LEMMA SumSame ==
    ASSUME NEW S, IsFiniteSet(S), NEW f, NEW g, \A x \in S : f[x] \in Int /\ g[x] = f[x]
    PROVE  SumFunctionOnSet(f, S) = SumFunctionOnSet(g, S)
<1>1. /\ SumFunctionOnSet(f, S) <= SumFunctionOnSet(g, S)
      /\ SumFunctionOnSet(g, S) <= SumFunctionOnSet(f, S)
  BY SumGrows
<1>2. SumFunctionOnSet(f, S) \in Int /\ SumFunctionOnSet(g, S) \in Int
  BY SumRemove
<1>. QED BY <1>1, <1>2

\* One term changes.
LEMMA SumChange ==
    ASSUME NEW S, IsFiniteSet(S), NEW f, NEW g, NEW y \in S,
           \A x \in S : f[x] \in Int /\ g[x] \in Int,
           \A x \in S \ {y} : g[x] = f[x]
    PROVE  SumFunctionOnSet(g, S) = SumFunctionOnSet(f, S) + (g[y] - f[y])
<1> DEFINE R == S \ {y}
           F == SumFunctionOnSet(f, R)
           G == SumFunctionOnSet(g, R)
<1>1. SumFunctionOnSet(f, S) = f[y] + F /\ SumFunctionOnSet(g, S) = g[y] + G
  BY SumRemove
<1>2. IsFiniteSet(R)
  BY FS_Subset
<1>3. F = G /\ F \in Int
  BY <1>2, SumSame, SumRemove
<1>4. f[y] \in Int /\ g[y] \in Int
  OBVIOUS
<1> HIDE DEF F, G
<1>. QED BY <1>1, <1>3, <1>4

LEMMA SumZero ==
    ASSUME NEW S, IsFiniteSet(S), NEW f, \A x \in S : f[x] = 0
    PROVE  SumFunctionOnSet(f, S) = 0
<1> DEFINE Bad == {u \in SUBSET S : SumFunctionOnSet(f, u) # 0}
<1> SUFFICES ASSUME S \in Bad PROVE FALSE
  OBVIOUS
<1>1. Bad \in SUBSET FiniteSubsetsOf(S)
  BY FS_Subset DEF FiniteSubsetsOf
<1>2. PICK X \in Bad : \A Y \in Bad : ~(Y \subseteq X /\ Y # X)
  <2> HIDE DEF Bad
  <2>. QED BY <1>1, SmallestSet
<1>3. X \in SUBSET S /\ SumFunctionOnSet(f, X) # 0 /\ IsFiniteSet(X)
  BY FS_Subset
<1>4. X # {}
  BY <1>3, SumEmpty
<1>5. PICK y \in X : TRUE
  BY <1>4
<1>6. SumFunctionOnSet(f, X) = f[y] + SumFunctionOnSet(f, X \ {y})
  BY <1>3, SumRemove
<1>7. SumFunctionOnSet(f, X \ {y}) = 0
  BY <1>2, <1>3
<1>. QED BY <1>3, <1>6, <1>7

\* A sum of naturals is at least each of its terms.
LEMMA SumNat ==
    ASSUME NEW S, IsFiniteSet(S), NEW f, \A x \in S : f[x] \in Nat
    PROVE  /\ SumFunctionOnSet(f, S) \in Nat
           /\ \A y \in S : f[y] <= SumFunctionOnSet(f, S)
<1>1. ASSUME NEW u \in SUBSET S
      PROVE  SumFunctionOnSet(f, u) \in Nat
  <2> DEFINE z == [x \in u |-> 0]
  <2>1. IsFiniteSet(u) /\ \A x \in u : f[x] \in Int /\ z[x] \in Int /\ z[x] <= f[x]
    BY FS_Subset
  <2>2. SumFunctionOnSet(z, u) = 0
    BY <2>1, SumZero
  <2> HIDE DEF z
  <2>3. 0 <= SumFunctionOnSet(f, u) /\ SumFunctionOnSet(f, u) \in Int
    BY <2>1, <2>2, SumGrows, SumRemove
  <2>. QED BY <2>3
<1>2. ASSUME NEW y \in S
      PROVE  f[y] <= SumFunctionOnSet(f, S)
  <2>1. SumFunctionOnSet(f, S) = f[y] + SumFunctionOnSet(f, S \ {y})
    BY SumRemove
  <2>2. SumFunctionOnSet(f, S \ {y}) \in Nat /\ f[y] \in Nat
    BY <1>1
  <2>. QED BY <2>1, <2>2
<1>. QED BY <1>1, <1>2

\* A part of a sum of naturals is not more than the whole.
LEMMA SumPart ==
    ASSUME NEW S, IsFiniteSet(S), NEW f, \A x \in S : f[x] \in Nat, NEW T \in SUBSET S
    PROVE  SumFunctionOnSet(f, T) <= SumFunctionOnSet(f, S)
<1> DEFINE V(u) == SumFunctionOnSet(f, u)
           Bad == {u \in SUBSET S : T \subseteq u /\ ~(V(T) <= V(u))}
<1> SUFFICES ASSUME S \in Bad PROVE FALSE
  OBVIOUS
<1>1. Bad \in SUBSET FiniteSubsetsOf(S)
  BY FS_Subset DEF FiniteSubsetsOf
<1>2. PICK X \in Bad : \A Y \in Bad : ~(Y \subseteq X /\ Y # X)
  <2> HIDE DEF Bad
  <2>. QED BY <1>1, SmallestSet
<1>3. X \in SUBSET S /\ T \subseteq X /\ ~(V(T) <= V(X)) /\ IsFiniteSet(X) /\ IsFiniteSet(T)
  BY FS_Subset
<1>4. V(T) \in Nat /\ V(X) \in Nat
  BY <1>3, SumNat
<1>5. T # X
  <2> HIDE DEF V
  <2>. QED BY <1>3, <1>4
<1>6. PICK y \in X : y \notin T
  BY <1>3, <1>5
<1>7. V(X) = f[y] + V(X \ {y}) /\ f[y] \in Nat
  BY <1>3, SumRemove
<1>8. V(X \ {y}) \in Nat
  BY <1>3, FS_Subset, SumNat
<1>9. V(T) <= V(X \ {y})
  BY <1>2, <1>3, <1>6
<1>. HIDE DEF V
<1>. QED BY <1>3, <1>4, <1>7, <1>8, <1>9

LEMMA ImageFinite ==
    ASSUME NEW S, IsFiniteSet(S), NEW h
    PROVE  IsFiniteSet({h[x] : x \in S})
<1> DEFINE T == {h[x] : x \in S}
           f == [x \in S |-> h[x]]
<1>1. f \in Surjection(S, T)
  BY DEF Surjection
<1>. QED BY <1>1, FS_Surjection

\* A sum may be taken over other names of its terms.
LEMMA SumImage ==
    ASSUME NEW S, IsFiniteSet(S), NEW f, NEW g, NEW h,
           \A x, y \in S : h[x] = h[y] => x = y,
           \A x \in S : f[x] \in Int /\ g[h[x]] = f[x]
    PROVE  SumFunctionOnSet(f, S) = SumFunctionOnSet(g, {h[x] : x \in S})
<1> DEFINE V(u) == SumFunctionOnSet(f, u)
           Im(u) == {h[x] : x \in u}
           W(u) == SumFunctionOnSet(g, Im(u))
           Bad == {u \in SUBSET S : V(u) # W(u)}
<1> SUFFICES ASSUME S \in Bad PROVE FALSE
  OBVIOUS
<1>1. Bad \in SUBSET FiniteSubsetsOf(S)
  BY FS_Subset DEF FiniteSubsetsOf
<1>2. PICK X \in Bad : \A Y \in Bad : ~(Y \subseteq X /\ Y # X)
  <2> HIDE DEF Bad
  <2>. QED BY <1>1, SmallestSet
<1>3. X \in SUBSET S /\ V(X) # W(X) /\ IsFiniteSet(X)
  BY FS_Subset
<1>4. X # {}
  <2>1. ASSUME X = {} PROVE Im(X) = {}
    BY <2>1
  <2>. QED BY <1>3, <2>1, SumEmpty
<1>5. PICK y \in X : TRUE
  BY <1>4
<1>6. V(X) = f[y] + V(X \ {y})
  BY <1>3, SumRemove
<1>7. IsFiniteSet(Im(X)) /\ \A z \in Im(X) : g[z] \in Int
  <2>1. IsFiniteSet(Im(X))
    BY <1>3, ImageFinite
  <2>. QED BY <1>3, <2>1
<1>8. h[y] \in Im(X) /\ Im(X) \ {h[y]} = Im(X \ {y})
  BY <1>3
<1>9. W(X) = g[h[y]] + W(X \ {y})
  <2>1. SumFunctionOnSet(g, Im(X)) = g[h[y]] + SumFunctionOnSet(g, Im(X) \ {h[y]})
    <3> HIDE DEF Im
    <3>. QED BY <1>7, <1>8, SumRemove
  <2>. QED BY <1>8, <2>1
<1>10. V(X \ {y}) = W(X \ {y})
  BY <1>2, <1>3
<1>11. g[h[y]] = f[y]
  BY <1>3
<1>. QED BY <1>3, <1>6, <1>9, <1>10, <1>11

\* Terms of at most c each.
LEMMA SumBounded ==
    ASSUME NEW S, IsFiniteSet(S), NEW c \in Nat, NEW f, \A x \in S : f[x] \in Nat /\ f[x] <= c
    PROVE  SumFunctionOnSet(f, S) <= c * Cardinality(S)
<1> DEFINE V(u) == SumFunctionOnSet(f, u)
           Bad == {u \in SUBSET S : ~(V(u) <= c * Cardinality(u))}
<1> SUFFICES ASSUME S \in Bad PROVE FALSE
  OBVIOUS
<1>1. Bad \in SUBSET FiniteSubsetsOf(S)
  BY FS_Subset DEF FiniteSubsetsOf
<1>2. PICK X \in Bad : \A Y \in Bad : ~(Y \subseteq X /\ Y # X)
  <2> HIDE DEF Bad
  <2>. QED BY <1>1, SmallestSet
<1>3. X \in SUBSET S /\ ~(V(X) <= c * Cardinality(X)) /\ IsFiniteSet(X)
  BY FS_Subset
<1>4. X # {}
  <2>1. V({}) = 0 /\ Cardinality({}) = 0
    BY SumEmpty, FS_EmptySet
  <2>. QED BY <1>3, <2>1
<1>5. PICK y \in X : TRUE
  BY <1>4
<1> DEFINE R == X \ {y}
           n == Cardinality(R)
<1>6. V(X) = f[y] + V(R) /\ f[y] \in Nat /\ f[y] <= c
  BY <1>3, SumRemove
<1>7. IsFiniteSet(R) /\ Cardinality(X) = n + 1 /\ n \in Nat
  <2>1. Cardinality(X) \in Nat
    BY <1>3, FS_CardinalityType
  <2>2. IsFiniteSet(R) /\ n = Cardinality(X) - 1
    BY <1>3, FS_RemoveElement
  <2>3. n \in Nat
    BY <2>2, FS_CardinalityType
  <2>. HIDE DEF n
  <2>. QED BY <2>1, <2>2, <2>3
<1>8. V(R) <= c * n /\ V(R) \in Nat
  <2>1. V(R) <= c * n
    BY <1>2, <1>3
  <2>. QED BY <1>3, <1>7, <2>1, SumNat
<1>9. c * (n + 1) = c * n + c /\ c * n \in Nat
  BY <1>7, ProductNat
<1>. HIDE DEF V, n, R
<1>. QED BY <1>3, <1>6, <1>7, <1>8, <1>9

-----------------------------------------------------------------------------
(* Executions *)

Execution == [size : 1..Requested, price : 1..MaxPrice]
SizesOf(e) == [k \in DOMAIN e |-> e[k].size]
CostsOf(e) == [k \in DOMAIN e |-> e[k].size * e[k].price]

LEMMA ExecutionsTyped ==
    ASSUME NEW e \in Seq(Execution)
    PROVE  /\ DOMAIN e = 1..Len(e) /\ Len(e) \in Nat /\ IsFiniteSet(DOMAIN e)
           /\ \A k \in DOMAIN e : /\ e[k] \in Execution
                                  /\ SizesOf(e)[k] = e[k].size /\ SizesOf(e)[k] \in 1..Requested
                                  /\ CostsOf(e)[k] = e[k].size * e[k].price
                                  /\ CostsOf(e)[k] \in Nat
<1>1. DOMAIN e = 1..Len(e) /\ Len(e) \in Nat
  OBVIOUS
<1>2. IsFiniteSet(DOMAIN e)
  BY <1>1, FS_Interval
<1>3. ASSUME NEW k \in DOMAIN e
      PROVE  /\ e[k] \in Execution
             /\ SizesOf(e)[k] = e[k].size /\ SizesOf(e)[k] \in 1..Requested
             /\ CostsOf(e)[k] = e[k].size * e[k].price
             /\ CostsOf(e)[k] \in Nat
  <2>1. e[k] \in Execution
    BY <1>1
  <2>2. e[k].size \in 1..Requested /\ e[k].price \in 1..MaxPrice
    BY <2>1 DEF Execution
  <2>3. e[k].size * e[k].price \in Nat
    BY <2>2, ProductNat
  <2>. QED BY <2>1, <2>2, <2>3 DEF SizesOf, CostsOf
<1>. QED BY <1>1, <1>2, <1>3

LEMMA SumsTyped ==
    ASSUME NEW e \in Seq(Execution), NEW ks \in SUBSET DOMAIN e
    PROVE  /\ SumFunctionOnSet(SizesOf(e), ks) \in Nat
           /\ SumFunctionOnSet(CostsOf(e), ks) \in Nat
           /\ SumFunctionOnSet(SizesOf(e), ks) <= SumFunctionOnSet(SizesOf(e), DOMAIN e)
           /\ IsFiniteSet(ks)
<1>1. IsFiniteSet(DOMAIN e) /\ \A k \in DOMAIN e : SizesOf(e)[k] \in Nat /\ CostsOf(e)[k] \in Nat
  BY ExecutionsTyped
<1>2. IsFiniteSet(ks)
  BY <1>1, FS_Subset
<1>3. SumFunctionOnSet(SizesOf(e), ks) \in Nat /\ SumFunctionOnSet(CostsOf(e), ks) \in Nat
  BY <1>1, <1>2, SumNat
<1>. QED BY <1>1, <1>2, <1>3, SumPart

\* One more execution leaves the sums over the others alone.
LEMMA AppendSums ==
    ASSUME NEW e \in Seq(Execution), NEW x \in Execution, NEW d, d = Append(e, x)
    PROVE  /\ d \in Seq(Execution) /\ Len(d) = Len(e) + 1
           /\ DOMAIN e \subseteq DOMAIN d /\ \A k \in DOMAIN e : d[k] = e[k]
           /\ \A ks \in SUBSET DOMAIN e :
                 /\ SumFunctionOnSet(SizesOf(d), ks) = SumFunctionOnSet(SizesOf(e), ks)
                 /\ SumFunctionOnSet(CostsOf(d), ks) = SumFunctionOnSet(CostsOf(e), ks)
           /\ SumFunctionOnSet(SizesOf(d), DOMAIN d)
                = SumFunctionOnSet(SizesOf(e), DOMAIN e) + x.size
<1> DEFINE n == Len(e) + 1
<1>1. /\ d \in Seq(Execution) /\ Len(d) = n /\ d[n] = x /\ n \notin DOMAIN e
      /\ DOMAIN d = DOMAIN e \cup {n} /\ \A k \in DOMAIN e : d[k] = e[k]
  OBVIOUS
<1>2. /\ \A k \in DOMAIN e : /\ SizesOf(e)[k] \in Int /\ SizesOf(d)[k] = SizesOf(e)[k]
                             /\ CostsOf(e)[k] \in Int /\ CostsOf(d)[k] = CostsOf(e)[k]
      /\ SizesOf(d)[n] = x.size /\ SizesOf(d)[n] \in Int
  <2>1. \A k \in DOMAIN e : SizesOf(e)[k] \in Int /\ CostsOf(e)[k] \in Int
    BY ExecutionsTyped
  <2>2. \A k \in DOMAIN e : SizesOf(d)[k] = SizesOf(e)[k] /\ CostsOf(d)[k] = CostsOf(e)[k]
    BY <1>1 DEF SizesOf, CostsOf
  <2>3. SizesOf(d)[n] = x.size
    BY <1>1 DEF SizesOf
  <2>4. x.size \in Int
    BY DEF Execution
  <2>. QED BY <2>1, <2>2, <2>3, <2>4
<1>3. IsFiniteSet(DOMAIN e)
  BY ExecutionsTyped
<1>4. ASSUME NEW ks \in SUBSET DOMAIN e
      PROVE  /\ SumFunctionOnSet(SizesOf(d), ks) = SumFunctionOnSet(SizesOf(e), ks)
             /\ SumFunctionOnSet(CostsOf(d), ks) = SumFunctionOnSet(CostsOf(e), ks)
  <2>1. IsFiniteSet(ks)
    BY <1>3, FS_Subset
  <2>. HIDE DEF n
  <2>. QED BY <1>2, <2>1, SumSame
<1>5. SumFunctionOnSet(SizesOf(d), DOMAIN e \cup {n})
        = SizesOf(d)[n] + SumFunctionOnSet(SizesOf(d), DOMAIN e)
  <2>. HIDE DEF n
  <2>. QED BY <1>1, <1>2, <1>3, SumAdd
<1>6. SumFunctionOnSet(SizesOf(d), DOMAIN e) = SumFunctionOnSet(SizesOf(e), DOMAIN e)
  BY <1>4
<1>7. SumFunctionOnSet(SizesOf(e), DOMAIN e) \in Nat /\ x.size \in Nat
  <2>1. DOMAIN e \in SUBSET DOMAIN e
    OBVIOUS
  <2>2. SumFunctionOnSet(SizesOf(e), DOMAIN e) \in Nat
    BY <2>1, SumsTyped
  <2>. QED BY <2>2 DEF Execution
<1>. QED BY <1>1, <1>2, <1>4, <1>5, <1>6, <1>7

LEMMA MatchedTyped ==
    ASSUME Typing, NEW o \in Order
    PROVE  /\ exec[o] \in Seq(Execution) /\ Matched(o) \in 0..Requested
           /\ Len(exec[o]) \in 0..Requested /\ DOMAIN exec[o] = 1..Len(exec[o])
           /\ Sizes(o) = SizesOf(exec[o]) /\ Costs(o) = CostsOf(exec[o])
           /\ \A ks \in SUBSET DOMAIN exec[o] :
                 Executed(o, ks) \in Nat /\ Cost(o, ks) \in Nat /\ Executed(o, ks) <= Matched(o)
<1>1. exec[o] \in Seq(Execution) /\ Len(exec[o]) <= Matched(o) /\ Matched(o) <= Requested
  BY DEF Typing, Execution
<1>2. Sizes(o) = SizesOf(exec[o]) /\ Costs(o) = CostsOf(exec[o])
  BY DEF Sizes, Costs, SizesOf, CostsOf
<1>3. \A ks \in SUBSET DOMAIN exec[o] :
         Executed(o, ks) \in Nat /\ Cost(o, ks) \in Nat /\ Executed(o, ks) <= Matched(o)
  <2> SUFFICES ASSUME NEW ks \in SUBSET DOMAIN exec[o]
               PROVE  Executed(o, ks) \in Nat /\ Cost(o, ks) \in Nat /\ Executed(o, ks) <= Matched(o)
    OBVIOUS
  <2>. QED BY <1>1, <1>2, SumsTyped DEF Executed, Cost, Matched
<1>4. Len(exec[o]) \in Nat /\ DOMAIN exec[o] = 1..Len(exec[o])
  BY <1>1, ExecutionsTyped
<1>5. Matched(o) \in Nat
  BY <1>3 DEF Matched
<1>6. Requested \in Nat
  BY FillSizesAssumption
<1>. HIDE DEF Matched
<1>. QED BY <1>1, <1>2, <1>3, <1>4, <1>5, <1>6

-----------------------------------------------------------------------------
(* Rows *)

\* The fill a row lists for an execution that the venue named.
Listed(e, k) == [id |-> [alias |-> "native", at |-> 0, k |-> k],
                 size |-> e[k].size, price |-> e[k].price]

LEMMA FillsTyped ==
    ASSUME NEW fs \in SUBSET Fill, IsFiniteSet(fs)
    PROVE  Total(fs) \in Nat /\ TotalCost(fs) \in Nat
<1>1. \A f \in fs : f.size \in Nat /\ f.price \in Nat
  BY DEF Fill
<1>2. \A f \in fs : f.size * f.price \in Nat
  BY <1>1, ProductNat
<1> DEFINE s == [f \in fs |-> f.size]
           c == [f \in fs |-> f.size * f.price]
<1>3. DOMAIN s = fs /\ DOMAIN c = fs /\ \A f \in fs : s[f] \in Nat /\ c[f] \in Nat
  BY <1>1, <1>2
<1>4. SumFunctionOnSet(s, fs) \in Nat /\ SumFunctionOnSet(c, fs) \in Nat
  <2>. HIDE DEF s, c
  <2>. QED BY <1>3, SumNat
<1>. QED BY <1>3, <1>4 DEF Total, TotalCost, SumFunction

LEMMA MoreFills ==
    ASSUME NEW fs \in SUBSET Fill, IsFiniteSet(fs), NEW gs \in SUBSET fs
    PROVE  Total(gs) <= Total(fs)
<1> DEFINE s == [f \in fs |-> f.size]
           t == [f \in gs |-> f.size]
<1>1. IsFiniteSet(gs)
  BY FS_Subset
<1>2. DOMAIN s = fs /\ DOMAIN t = gs /\ (\A f \in fs : s[f] \in Nat)
      /\ \A f \in gs : s[f] \in Int /\ t[f] = s[f]
  BY DEF Fill
<1>3. SumFunctionOnSet(s, gs) <= SumFunctionOnSet(s, fs)
      /\ SumFunctionOnSet(s, gs) = SumFunctionOnSet(t, gs)
  <2>. HIDE DEF s, t
  <2>1. SumFunctionOnSet(s, gs) <= SumFunctionOnSet(s, fs)
    BY <1>2, SumPart
  <2>2. SumFunctionOnSet(s, gs) = SumFunctionOnSet(t, gs)
    BY <1>1, <1>2, SumSame
  <2>. QED BY <2>1, <2>2
<1>. QED BY <1>2, <1>3 DEF Total, SumFunction

LEMMA LargerNat ==
    ASSUME NEW a \in Nat, NEW b \in Nat
    PROVE  /\ Larger(a, b) \in Nat /\ a <= Larger(a, b) /\ b <= Larger(a, b)
           /\ \A c \in Nat : Larger(a, b) <= c <=> a <= c /\ b <= c
BY DEF Larger

LEMMA MergedTyped ==
    ASSUME NEW r \in AnyRow, NEW ob \in AnyObservation
    PROVE  /\ Merged(r, ob) \in SUBSET Fill /\ IsFiniteSet(Merged(r, ob))
           /\ r.fills \subseteq Merged(r, ob) /\ Merged(r, ob) \subseteq r.fills \cup ob.fills
           /\ {f.id : f \in Merged(r, ob)} = Known(r) \cup {f.id : f \in ob.fills}
<1>1. /\ r.fills \in SUBSET Fill /\ ob.fills \in SUBSET Fill
      /\ IsFiniteSet(r.fills) /\ IsFiniteSet(ob.fills)
  BY DEF AnyRow, AnyObservation
<1>2. IsFiniteSet(r.fills \cup ob.fills)
  BY <1>1, FS_Union
<1>3. r.fills \subseteq Merged(r, ob) /\ Merged(r, ob) \subseteq r.fills \cup ob.fills
  BY DEF Merged
<1>4. {f.id : f \in Merged(r, ob)} = Known(r) \cup {f.id : f \in ob.fills}
  BY DEF Merged, Known
<1>. QED BY <1>1, <1>2, <1>3, <1>4, FS_Subset

LEMMA ChoosePriceTyped ==
    ASSUME NEW r \in AnyRow, NEW ob \in AnyObservation,
           NEW fs \in SUBSET Fill, IsFiniteSet(fs)
    PROVE  LET p == ChoosePrice(r, ob, fs) IN
           /\ \/ p = <<Total(fs), TotalCost(fs)>>
              \/ p = <<ob.covered, ob.notional>>
              \/ p = <<r.covered, r.notional>>
           /\ p[1] \in Nat /\ p[2] \in Nat /\ p[1] >= r.covered
<1>1. Total(fs) \in Nat /\ TotalCost(fs) \in Nat
  BY FillsTyped
<1>2. /\ r.covered \in Nat /\ r.notional \in Nat /\ ob.covered \in Nat /\ ob.notional \in Nat
  BY DEF AnyRow, AnyObservation
<1>. HIDE DEF AnyRow, AnyObservation
<1>3. CASE fs # {} /\ Total(fs) >= r.covered
  BY <1>1, <1>3 DEF ChoosePrice
<1>4. CASE ~(fs # {} /\ Total(fs) >= r.covered) /\ ob.notional > 0 /\ ob.covered >= r.covered
  BY <1>2, <1>4 DEF ChoosePrice
<1>5. CASE ~(fs # {} /\ Total(fs) >= r.covered) /\ ~(ob.notional > 0 /\ ob.covered >= r.covered)
  <2>1. ChoosePrice(r, ob, fs) = <<r.covered, r.notional>>
    BY <1>5 DEF ChoosePrice
  <2>. QED BY <1>2, <2>1
<1>. QED BY <1>3, <1>4, <1>5

\* What an observation leaves in the row.
LEMMA UpdatedFields ==
    ASSUME NEW r \in AnyRow, NEW ob \in AnyObservation,
           NEW u, u = Updated(r, ob), NEW fs, fs = Merged(r, ob)
    PROVE  /\ u \in AnyRow /\ u.registered = r.registered /\ u.resolved = r.resolved
           /\ u.fills = fs /\ u.seen = r.seen \cup {ob}
           /\ u.observed = Larger(Larger(r.observed, ob.size), Total(fs))
           /\ u.confirmed = Larger(Larger(r.confirmed, ob.size), Total(fs))
           /\ u.covered = ChoosePrice(r, ob, fs)[1]
           /\ u.notional = ChoosePrice(r, ob, fs)[2]
           /\ r.anomalies \subseteq u.anomalies
           /\ u.confirmed > Requested => "exceedsRequest" \in u.anomalies
<1> DEFINE p == ChoosePrice(r, ob, fs)
           p1 == p[1]
           p2 == p[2]
           total == Total(fs)
           confirmed == Larger(Larger(r.confirmed, ob.size), total)
           observed == Larger(Larger(r.observed, ob.size), total)
           anomalies == IF confirmed > Requested THEN r.anomalies \cup {"exceedsRequest"}
                        ELSE r.anomalies
           plain == [registered |-> r.registered, observed |-> observed, confirmed |-> confirmed,
                     covered |-> p1, notional |-> p2, fills |-> fs,
                     seen |-> r.seen \cup {ob}, resolved |-> r.resolved, anomalies |-> anomalies]
<1>1. /\ r.registered \in BOOLEAN /\ r.observed \in Nat /\ r.confirmed \in Nat
      /\ r.seen \in SUBSET AnyObservation /\ r.resolved \in BOOLEAN
      /\ r.anomalies \in SUBSET {"exceedsRequest", "walletOverfill", "noBaseline"}
  BY DEF AnyRow
<1>2. ob.size \in Nat
  BY DEF AnyObservation
<1>3. fs \in SUBSET Fill /\ IsFiniteSet(fs)
  BY MergedTyped
<1>4. total \in Nat
  BY <1>3, FillsTyped
<1>5. p1 \in Nat /\ p2 \in Nat
  BY <1>3, ChoosePriceTyped
<1>6. u = plain
  <2>1. r \in [registered : BOOLEAN, observed : Nat, confirmed : Nat, covered : Nat,
               notional : Nat, fills : SUBSET Fill, seen : SUBSET AnyObservation,
               resolved : BOOLEAN,
               anomalies : SUBSET {"exceedsRequest", "walletOverfill", "noBaseline"}]
    BY DEF AnyRow
  <2>2. u = [r EXCEPT !.observed = observed, !.confirmed = confirmed, !.covered = p1,
                      !.notional = p2, !.fills = fs, !.seen = r.seen \cup {ob},
                      !.anomalies = anomalies]
    BY DEF Updated
  <2>. HIDE DEF p, p1, p2, total, observed, confirmed, anomalies
  <2>. QED BY <2>1, <2>2
<1>7. observed \in Nat /\ confirmed \in Nat
  <2>1. Larger(r.observed, ob.size) \in Nat /\ Larger(r.confirmed, ob.size) \in Nat
    BY <1>1, <1>2, LargerNat
  <2>. HIDE DEF total
  <2>. QED BY <1>4, <2>1, LargerNat
<1>8. /\ anomalies \in SUBSET {"exceedsRequest", "walletOverfill", "noBaseline"}
      /\ r.anomalies \subseteq anomalies
      /\ confirmed > Requested => "exceedsRequest" \in anomalies
  <2>. HIDE DEF confirmed
  <2>. QED BY <1>1
<1>. HIDE DEF p, p1, p2, total, observed, confirmed, anomalies
<1>9. plain \in AnyRow
  <2>1. r.seen \cup {ob} \in SUBSET AnyObservation
    BY <1>1
  <2>2. plain \in [registered : BOOLEAN, observed : Nat, confirmed : Nat, covered : Nat,
                   notional : Nat, fills : SUBSET Fill, seen : SUBSET AnyObservation,
                   resolved : BOOLEAN,
                   anomalies : SUBSET {"exceedsRequest", "walletOverfill", "noBaseline"}]
    BY <1>1, <1>3, <1>5, <1>7, <1>8, <2>1
  <2>3. plain.fills = fs
    OBVIOUS
  <2>. HIDE DEF plain
  <2>. QED BY <1>3, <2>2, <2>3 DEF AnyRow
<1>10. /\ u.registered = r.registered /\ u.resolved = r.resolved /\ u.fills = fs
       /\ u.seen = r.seen \cup {ob} /\ u.observed = observed /\ u.confirmed = confirmed
       /\ u.covered = p1 /\ u.notional = p2 /\ u.anomalies = anomalies
  BY <1>6
<1>11. u \in AnyRow
  BY <1>6, <1>9
<1>. QED BY <1>8, <1>10, <1>11 DEF p, p1, p2, total, observed, confirmed

LEMMA FlaggedFields ==
    ASSUME NEW r \in AnyRow
    PROVE  LET u == Flagged(r) IN
           /\ u \in AnyRow /\ u.registered = r.registered /\ u.observed = r.observed
           /\ u.confirmed = r.confirmed /\ u.covered = r.covered /\ u.notional = r.notional
           /\ u.fills = r.fills /\ u.seen = r.seen /\ u.resolved = r.resolved
           /\ u.anomalies = r.anomalies \cup {"walletOverfill"}
BY DEF Flagged, AnyRow

-----------------------------------------------------------------------------
(* Responses *)

LEMMA ListingTyped ==
    ASSUME Typing, NEW o \in Order, NEW s \in Listings(o)
    PROVE  /\ IsFiniteSet(DOMAIN s)
           /\ \A i \in DOMAIN s : i \in 1..Requested /\ s[i] \in DOMAIN exec[o]
           /\ RepeatedRows \/ \A i, j \in DOMAIN s : s[i] = s[j] => i = j
           /\ RowTotal(o, s) \in Nat /\ RowCost(o, s) \in Nat
<1>1. PICK m \in 0..Requested : s \in [1..m -> DOMAIN exec[o]]
  BY DEF Listings
<1>2. DOMAIN s = 1..m /\ IsFiniteSet(DOMAIN s)
  BY <1>1, FS_Interval
<1>3. \A i \in DOMAIN s : i \in 1..Requested /\ s[i] \in DOMAIN exec[o]
  BY <1>1, <1>2, FillSizesAssumption
<1>4. RepeatedRows \/ \A i, j \in DOMAIN s : s[i] = s[j] => i = j
  BY DEF Listings
<1> DEFINE t == [i \in DOMAIN s |-> exec[o][s[i]].size]
           c == [i \in DOMAIN s |-> exec[o][s[i]].size * exec[o][s[i]].price]
<1>5. \A k \in DOMAIN exec[o] :
         exec[o][k].size \in Nat /\ exec[o][k].size * exec[o][k].price \in Nat
  <2>1. exec[o] \in Seq(Execution)
    BY MatchedTyped
  <2>2. \A k \in DOMAIN exec[o] : exec[o][k] \in Execution
    BY <2>1, ExecutionsTyped
  <2>3. \A k \in DOMAIN exec[o] : exec[o][k].size \in Nat /\ exec[o][k].price \in Nat
    BY <2>2 DEF Execution
  <2>. QED BY <2>3, ProductNat
<1>6. DOMAIN t = DOMAIN s /\ DOMAIN c = DOMAIN s /\ \A i \in DOMAIN s : t[i] \in Nat /\ c[i] \in Nat
  BY <1>3, <1>5
<1>7. SumFunctionOnSet(t, DOMAIN s) \in Nat /\ SumFunctionOnSet(c, DOMAIN s) \in Nat
  <2>. HIDE DEF t, c
  <2>. QED BY <1>2, <1>6, SumNat
<1>. QED BY <1>2, <1>3, <1>4, <1>6, <1>7 DEF RowTotal, RowCost, SumFunction

LEMMA ListedFillsTyped ==
    ASSUME Typing, NEW o \in Order, NEW s \in Listings(o), NEW alias \in Alias
    PROVE  Fills(o, alias, s) \in SUBSET Fill /\ IsFiniteSet(Fills(o, alias, s))
<1> DEFINE h == [i \in DOMAIN s |-> [id |-> RowEvidenceId(alias, i, s[i]),
                                     size |-> exec[o][s[i]].size, price |-> exec[o][s[i]].price]]
<1>1. Fills(o, alias, s) = {h[i] : i \in DOMAIN s}
  BY DEF Fills
<1>2. IsFiniteSet(DOMAIN s) /\ \A i \in DOMAIN s : i \in 1..Requested /\ s[i] \in DOMAIN exec[o]
  BY ListingTyped
<1>3. ASSUME NEW i \in DOMAIN s PROVE h[i] \in Fill
  <2>1. s[i] \in DOMAIN exec[o] /\ i \in 0..Requested
    BY <1>2
  <2>2. exec[o] \in Seq(Execution) /\ DOMAIN exec[o] = 1..Len(exec[o])
        /\ Len(exec[o]) \in 0..Requested
    BY MatchedTyped
  <2>3. s[i] \in 1..Requested /\ 0 \in 0..Requested
    <3>1. ASSUME NEW R \in Nat, NEW l \in 0..R, NEW k \in 1..l PROVE k \in 1..R /\ 0 \in 0..R
      OBVIOUS
    <3>2. s[i] \in 1..Len(exec[o])
      BY <2>1, <2>2
    <3>. QED BY <2>2, <3>1, <3>2, FillSizesAssumption
  <2>4. exec[o][s[i]] \in Execution
    BY <2>1, <2>2, ExecutionsTyped
  <2>5. RowEvidenceId(alias, i, s[i]) \in FillId
    <3>1. ASSUME NEW k \in 1..Requested PROVE RowEvidenceId(alias, i, k) \in FillId
      BY <2>1, <2>3 DEF RowEvidenceId, FillId
    <3>. QED BY <2>3, <3>1
  <2>. QED BY <2>4, <2>5 DEF Fill, Execution
<1>4. IsFiniteSet({h[i] : i \in DOMAIN s})
  <2>. HIDE DEF h
  <2>. QED BY <1>2, ImageFinite
<1>. HIDE DEF h
<1>. QED BY <1>1, <1>3, <1>4

\* What a payload says is its listing's and its prefix's.
LEMMA PayloadFields ==
    ASSUME Typing, NEW o \in Order, NEW ob \in Payloads(o)
    PROVE  \E n \in 0..Len(exec[o]), priced \in BOOLEAN, alias \in Alias, s \in Listings(o) :
              /\ ob.source = "venue" /\ ob.fills = Fills(o, alias, s)
              /\ ob.size = IF n > 0 THEN Executed(o, 1..n) ELSE RowTotal(o, s)
              /\ ob.covered = IF priced /\ n > 0 THEN Executed(o, 1..n) ELSE RowTotal(o, s)
              /\ ob.notional = IF priced /\ n > 0 THEN Cost(o, 1..n) ELSE RowCost(o, s)
              /\ 1..n \in SUBSET DOMAIN exec[o]
              /\ ob \in AnyObservation
<1>1. PICK n \in 0..Len(exec[o]), priced \in BOOLEAN, alias \in Alias, s \in Listings(o) :
         ob = Payload(o, n, priced, alias, s)
  BY DEF Payloads
<1> DEFINE a == IF n > 0 THEN Executed(o, 1..n) ELSE RowTotal(o, s)
           b == IF priced /\ n > 0 THEN Executed(o, 1..n) ELSE RowTotal(o, s)
           c == IF priced /\ n > 0 THEN Cost(o, 1..n) ELSE RowCost(o, s)
           fs == Fills(o, alias, s)
<1>2. ob = [source |-> "venue", size |-> a, fills |-> fs, covered |-> b, notional |-> c]
  BY <1>1 DEF Payload
<1>3. 1..n \in SUBSET DOMAIN exec[o]
  <2>1. Len(exec[o]) \in Nat /\ DOMAIN exec[o] = 1..Len(exec[o])
    BY MatchedTyped
  <2>. QED BY <2>1
<1>4. Executed(o, 1..n) \in Nat /\ Cost(o, 1..n) \in Nat
  BY <1>3, MatchedTyped
<1>5. RowTotal(o, s) \in Nat /\ RowCost(o, s) \in Nat
  BY ListingTyped
<1>6. a \in Nat /\ b \in Nat /\ c \in Nat
  BY <1>4, <1>5
<1>7. fs \in SUBSET Fill /\ IsFiniteSet(fs)
  BY ListedFillsTyped
<1>8. /\ ob.source = "venue" /\ ob.fills = fs /\ ob.size = a /\ ob.covered = b /\ ob.notional = c
      /\ ob \in AnyObservation
  <2>. HIDE DEF a, b, c, fs
  <2>1. ob \in [source : {"venue", "wallet"}, size : Nat, fills : SUBSET Fill,
                covered : Nat, notional : Nat]
    BY <1>2, <1>6, <1>7
  <2>2. ob.source = "venue" /\ ob.fills = fs /\ ob.size = a /\ ob.covered = b /\ ob.notional = c
    BY <1>2
  <2>. QED BY <1>7, <2>1, <2>2 DEF AnyObservation
<1>. QED BY <1>3, <1>8

\* The wallet never holds less than nothing, nor an order's share of it.
LEMMA WalletTyped ==
    ASSUME Typing
    PROVE  /\ Wallet \in 0..(MaxInflow + Requested * Cardinality(Order))
           /\ \A o \in Order : Matched(o) <= Wallet
           /\ \A o \in Order : WalletDelta(o) \in 0..Wallet \/ baseline[o] = NoBaseline
<1> DEFINE f == [o \in Order |-> Matched(o)]
           total == SumFunctionOnSet(f, Order)
           bound == Requested * Cardinality(Order)
<1>1. Wallet = inflow + total
  BY DEF Wallet, SumFunction
<1>2. IsFiniteSet(Order) /\ Requested \in Nat
  BY FillOrdersAssumption, FillSizesAssumption
<1>3. \A o \in Order : f[o] = Matched(o) /\ f[o] \in Nat /\ f[o] <= Requested
  <2>1. \A o \in Order : Matched(o) \in 0..Requested
    BY MatchedTyped
  <2>. HIDE DEF Matched
  <2>. QED BY <1>2, <2>1
<1>4. total \in Nat /\ (\A o \in Order : f[o] <= total) /\ total <= bound
  <2>. HIDE DEF f
  <2>1. total \in Nat /\ (\A o \in Order : f[o] <= total)
    BY <1>2, <1>3, SumNat
  <2>2. total <= bound
    BY <1>2, <1>3, SumBounded
  <2>. QED BY <2>1, <2>2
<1>5. inflow \in 0..MaxInflow /\ MaxInflow \in Nat
  BY FillInflowAssumption DEF Typing
<1>6. bound \in Nat
  BY <1>2, FS_CardinalityType, ProductNat
<1>7. Wallet \in 0..(MaxInflow + bound) /\ \A o \in Order : f[o] <= Wallet
  <2>. HIDE DEF f, total, bound
  <2>. QED BY <1>1, <1>3, <1>4, <1>5, <1>6
<1>8. ASSUME NEW o \in Order, baseline[o] # NoBaseline
      PROVE  WalletDelta(o) \in 0..Wallet
  <2>1. baseline[o] \in Nat
    BY <1>8 DEF Typing
  <2>2. Wallet \in Nat
    BY <1>5, <1>6, <1>7
  <2>. HIDE DEF Wallet
  <2>. QED BY <2>1, <2>2 DEF WalletDelta
<1>. QED BY <1>3, <1>7, <1>8

LEMMA ReadingTyped ==
    ASSUME Typing, NEW o \in Order, baseline[o] # NoBaseline
    PROVE  LET ob == WalletReading(o) IN
           /\ ob \in AnyObservation /\ ob.source = "wallet" /\ ob.size = WalletDelta(o)
           /\ ob.fills = {} /\ ob.covered = 0 /\ ob.notional = 0
<1>1. WalletDelta(o) \in Nat
  <2>1. WalletDelta(o) \in 0..Wallet
    BY WalletTyped
  <2>. HIDE DEF WalletDelta, Wallet
  <2>. QED BY <2>1
<1>2. Nothing \in [source : {"venue", "wallet"}, size : Nat, fills : {{}},
                  covered : {0}, notional : {0}]
  BY DEF Nothing
<1>3. /\ WalletReading(o) \in [source : {"venue", "wallet"}, size : Nat, fills : {{}},
                             covered : {0}, notional : {0}]
      /\ WalletReading(o).source = "wallet" /\ WalletReading(o).size = WalletDelta(o)
  <2>. HIDE DEF WalletDelta, Nothing
  <2>. QED BY <1>1, <1>2 DEF WalletReading
<1>4. IsFiniteSet({})
  BY FS_EmptySet
<1>. HIDE DEF WalletReading, WalletDelta
<1>. QED BY <1>3, <1>4 DEF AnyObservation

-----------------------------------------------------------------------------
(* Types *)

LEMMA NoRowTyped == NoRow \in AnyRow /\ FreshRow \in AnyRow
<1>1. IsFiniteSet({})
  BY FS_EmptySet
<1>. QED BY <1>1 DEF NoRow, FreshRow, AnyRow

LEMMA IdleTyped == Idle \in AnyThreadState /\ Idle.pc = "idle" /\ Idle.row = NoRow
<1>1. (CHOOSE o \in Order : TRUE) \in Order
  BY FillOrdersAssumption
<1>2. Nothing \in AnyObservation
  <2>1. IsFiniteSet({})
    BY FS_EmptySet
  <2>. QED BY <2>1 DEF Nothing, AnyObservation
<1>. HIDE DEF Nothing, NoRow, AnyRow, AnyObservation
<1>. QED BY <1>1, <1>2, NoRowTyped DEF Idle, AnyThreadState

\* A thread with an observation for o that is yet to be applied.
Decoded(o, ob) == [Idle EXCEPT !.pc = "decoded", !.o = o, !.seen = ob]

LEMMA DecodedFields ==
    ASSUME NEW o \in Order, NEW ob \in AnyObservation
    PROVE  /\ Decoded(o, ob) \in AnyThreadState /\ Decoded(o, ob).pc = "decoded"
           /\ Decoded(o, ob).o = o /\ Decoded(o, ob).seen = ob /\ Decoded(o, ob).row = NoRow
BY IdleTyped DEF AnyThreadState, Decoded

LEMMA TypingInit == ASSUME Init PROVE Typing
<1>1. ASSUME NEW o \in Order PROVE Len(exec[o]) = 0 /\ Matched(o) = 0
  <2>1. exec[o] = <<>>
    BY DEF Init
  <2>2. DOMAIN exec[o] = {} /\ Len(exec[o]) = 0
    BY <2>1
  <2>3. Matched(o) = 0
    BY <2>2, SumEmpty DEF Matched, Executed
  <2>. QED BY <2>2, <2>3
<1>2. /\ inflow \in 0..MaxInflow /\ open \subseteq Order
      /\ baseline \in [Order -> Nat \cup {NoBaseline}]
      /\ exec \in [Order -> Seq([size : 1..Requested, price : 1..MaxPrice])]
  BY FillInflowAssumption DEF Init
<1>3. ledger \in [Order -> AnyRow] /\ thread \in [Thread -> AnyThreadState]
  BY NoRowTyped, IdleTyped DEF Init
<1>4. \A o \in Order : Len(exec[o]) <= Matched(o) /\ Matched(o) <= Requested
  BY <1>1, FillSizesAssumption
<1>. QED BY <1>2, <1>3, <1>4 DEF Typing

\* Executions stay as they are; others may follow.
Grown(o) ==
    /\ DOMAIN exec[o] \subseteq DOMAIN exec'[o] /\ \A k \in DOMAIN exec[o] : exec'[o][k] = exec[o][k]
    /\ \A ks \in SUBSET DOMAIN exec[o] :
          Executed(o, ks)' = Executed(o, ks) /\ Cost(o, ks)' = Cost(o, ks)
    /\ Matched(o) \in Nat /\ Matched(o)' \in Nat /\ Matched(o) <= Matched(o)'

LEMMA ExecStays ==
    ASSUME Typing, exec' = exec
    PROVE  \A o \in Order : Grown(o) /\ Matched(o)' = Matched(o)
<1> SUFFICES ASSUME NEW o \in Order PROVE Grown(o) /\ Matched(o)' = Matched(o)
  OBVIOUS
<1>1. \A ks : Executed(o, ks)' = Executed(o, ks) /\ Cost(o, ks)' = Cost(o, ks)
  BY DEF Executed, Cost, Sizes, Costs
<1>2. Matched(o)' = Matched(o)
  BY <1>1 DEF Matched
<1>3. Matched(o) \in Nat /\ Matched(o) <= Matched(o)
  <2>1. Matched(o) \in 0..Requested
    BY MatchedTyped
  <2>. HIDE DEF Matched
  <2>. QED BY <2>1
<1>. HIDE DEF Matched, Executed, Cost
<1>. QED BY <1>1, <1>2, <1>3 DEF Grown

LEMMA MatchStep ==
    ASSUME Typing, NEW x \in Order, VenueMatch(x)
    PROVE  /\ \A o \in Order : Grown(o)
           /\ exec' \in [Order -> Seq([size : 1..Requested, price : 1..MaxPrice])]
           /\ \A o \in Order : Len(exec'[o]) <= Matched(o)' /\ Matched(o)' <= Requested
<1>1. PICK n \in 1..(Requested - Matched(x)), p \in 1..MaxPrice :
         exec' = [exec EXCEPT ![x] = Append(@, [size |-> n, price |-> p])]
  BY DEF VenueMatch
<1> DEFINE e == exec[x]
           d == exec'[x]
           f == [size |-> n, price |-> p]
<1>2. exec \in [Order -> Seq(Execution)]
  BY DEF Typing, Execution
<1>3. /\ e \in Seq(Execution) /\ Matched(x) \in 0..Requested /\ Len(e) <= Matched(x)
      /\ Len(e) \in Nat /\ Requested \in Nat
  BY MatchedTyped, ExecutionsTyped, FillSizesAssumption DEF Typing
<1>4. n \in 1..Requested /\ Matched(x) + n <= Requested
  <2>. HIDE DEF Matched
  <2>. QED BY <1>3
<1>5. f \in Execution /\ f.size = n
  BY <1>4 DEF Execution
<1>6. d = Append(e, f) /\ \A o \in Order \ {x} : exec'[o] = exec[o]
  BY <1>1, <1>2
<1>. HIDE DEF f
<1>7. /\ d \in Seq(Execution) /\ Len(d) = Len(e) + 1
      /\ DOMAIN e \subseteq DOMAIN d /\ \A k \in DOMAIN e : d[k] = e[k]
      /\ \A ks \in SUBSET DOMAIN e :
            /\ SumFunctionOnSet(SizesOf(d), ks) = SumFunctionOnSet(SizesOf(e), ks)
            /\ SumFunctionOnSet(CostsOf(d), ks) = SumFunctionOnSet(CostsOf(e), ks)
      /\ SumFunctionOnSet(SizesOf(d), DOMAIN d)
           = SumFunctionOnSet(SizesOf(e), DOMAIN e) + f.size
  BY <1>3, <1>5, <1>6, AppendSums
<1>8. exec' \in [Order -> Seq(Execution)]
  BY <1>1, <1>2, <1>6, <1>7
<1>9. /\ \A ks : /\ Executed(x, ks) = SumFunctionOnSet(SizesOf(e), ks)
                 /\ Executed(x, ks)' = SumFunctionOnSet(SizesOf(d), ks)
                 /\ Cost(x, ks) = SumFunctionOnSet(CostsOf(e), ks)
                 /\ Cost(x, ks)' = SumFunctionOnSet(CostsOf(d), ks)
      /\ Matched(x) = SumFunctionOnSet(SizesOf(e), DOMAIN e)
      /\ Matched(x)' = SumFunctionOnSet(SizesOf(d), DOMAIN d)
  BY DEF Matched, Executed, Cost, Sizes, Costs, SizesOf, CostsOf
<1>10. Matched(x)' = Matched(x) + n
  BY <1>5, <1>7, <1>9
<1>11. Grown(x)
  <2>1. Matched(x) \in Nat /\ Matched(x)' \in Nat /\ Matched(x) <= Matched(x)'
    <3>. HIDE DEF Matched
    <3>. QED BY <1>3, <1>4, <1>10
  <2>. QED BY <1>7, <1>9, <2>1 DEF Grown
<1>12. Len(d) <= Matched(x)' /\ Matched(x)' <= Requested
  <2>. HIDE DEF Matched, d, e
  <2>. QED BY <1>3, <1>4, <1>7, <1>10
<1>13. ASSUME NEW o \in Order \ {x}
       PROVE  Grown(o) /\ Len(exec'[o]) <= Matched(o)' /\ Matched(o)' <= Requested
  <2>1. exec'[o] = exec[o]
    BY <1>6
  <2>2. /\ \A ks : Executed(o, ks)' = Executed(o, ks) /\ Cost(o, ks)' = Cost(o, ks)
        /\ Matched(o)' = Matched(o)
    BY <2>1 DEF Executed, Cost, Sizes, Costs, Matched
  <2>3. Matched(o) \in 0..Requested /\ Len(exec[o]) <= Matched(o) /\ Matched(o) <= Requested
    BY MatchedTyped DEF Typing
  <2>. HIDE DEF Matched, Executed, Cost
  <2>4. Matched(o) \in Nat /\ Matched(o) <= Matched(o)
    BY <2>3
  <2>. QED BY <2>1, <2>2, <2>3, <2>4 DEF Grown
<1>. QED BY <1>8, <1>11, <1>12, <1>13 DEF Execution

\* The parts of the type invariant that most steps leave alone.
LEMMA TypingQuiet ==
    ASSUME Typing, exec' = exec, inflow' \in 0..MaxInflow, open' \subseteq Order,
           baseline' \in [Order -> Nat \cup {NoBaseline}], ledger' \in [Order -> AnyRow],
           thread' \in [Thread -> AnyThreadState]
    PROVE  Typing'
<1>1. \A o \in Order : Matched(o)' = Matched(o)
  BY ExecStays
<1>2. \A o \in Order : Len(exec'[o]) <= Matched(o)' /\ Matched(o)' <= Requested
  <2>. HIDE DEF Matched
  <2>. QED BY <1>1 DEF Typing
<1>. QED BY <1>2 DEF Typing

LEMMA TypingStep == Typing /\ [Next]_vars => Typing'
<1> SUFFICES ASSUME Typing, [Next]_vars PROVE Typing'
  OBVIOUS
<1>. /\ inflow \in 0..MaxInflow /\ open \subseteq Order
     /\ baseline \in [Order -> Nat \cup {NoBaseline}] /\ ledger \in [Order -> AnyRow]
     /\ thread \in [Thread -> AnyThreadState]
  BY DEF Typing
<1>1. CASE UNCHANGED vars
  BY <1>1, TypingQuiet DEF vars
<1>2. ASSUME NEW o \in Order, Submit(o) PROVE Typing'
  <2>1. Wallet \in Nat \cup {NoBaseline}
    <3>1. Wallet \in 0..(MaxInflow + Requested * Cardinality(Order))
      BY WalletTyped
    <3>. HIDE DEF Wallet
    <3>. QED BY <3>1
  <2>. HIDE DEF Wallet
  <2>2. PICK b \in {Wallet, NoBaseline} : baseline' = [baseline EXCEPT ![o] = b]
    BY <1>2 DEF Submit
  <2>3. baseline' \in [Order -> Nat \cup {NoBaseline}]
    BY <2>1, <2>2
  <2>. QED BY <1>2, <2>3, TypingQuiet DEF Submit
<1>3. ASSUME NEW o \in Order, VenueMatch(o) PROVE Typing'
  <2>1. /\ exec' \in [Order -> Seq([size : 1..Requested, price : 1..MaxPrice])]
        /\ \A x \in Order : Len(exec'[x]) <= Matched(x)' /\ Matched(x)' <= Requested
    BY <1>3, MatchStep
  <2>2. UNCHANGED <<inflow, open, baseline, ledger, thread>>
    BY <1>3 DEF VenueMatch
  <2>. HIDE DEF Matched
  <2>. QED BY <2>1, <2>2 DEF Typing
<1>4. ASSUME Inflow PROVE Typing'
  <2>1. inflow' \in 0..MaxInflow
    BY <1>4, FillInflowAssumption DEF Inflow
  <2>. QED BY <1>4, <2>1, TypingQuiet DEF Inflow
<1>5. ASSUME NEW o \in Order, RegisterOrder(o) PROVE Typing'
  BY <1>5, NoRowTyped, TypingQuiet DEF RegisterOrder
<1>6. ASSUME NEW o \in Order, ObserveWalletUnattributed(o) PROVE Typing'
  <2> DEFINE u == [ledger[o] EXCEPT !.anomalies = @ \cup {"noBaseline"}]
  <2>1. ledger[o] \in AnyRow
    OBVIOUS
  <2>2. u \in AnyRow
    BY <2>1 DEF AnyRow
  <2>3. ledger' = [ledger EXCEPT ![o] = u]
    BY <1>6 DEF ObserveWalletUnattributed
  <2>. HIDE DEF u
  <2>. QED BY <1>6, <2>2, <2>3, TypingQuiet DEF ObserveWalletUnattributed
<1>7. ASSUME NEW o \in Order, Resolve(o) PROVE Typing'
  <2> DEFINE u == [ledger[o] EXCEPT !.resolved = TRUE]
  <2>1. ledger[o] \in AnyRow
    OBVIOUS
  <2>2. u \in AnyRow
    BY <2>1 DEF AnyRow
  <2>3. ledger' = [ledger EXCEPT ![o] = u]
    BY <1>7 DEF Resolve
  <2>. HIDE DEF u
  <2>. QED BY <1>7, <2>2, <2>3, TypingQuiet DEF Resolve
<1>8. ASSUME NEW o \in Order, Prune(o) PROVE Typing'
  BY <1>8, NoRowTyped, TypingQuiet DEF Prune
<1>9. ASSUME NEW t \in Thread, ApplyObservation(t) PROVE Typing'
  <2>1. /\ thread[t].o \in Order /\ thread[t].seen \in AnyObservation
        /\ ledger[thread[t].o] \in AnyRow /\ thread[t] \in AnyThreadState
    BY DEF AnyThreadState
  <2> DEFINE o == thread[t].o
             row == IF Seen(ledger[o], thread[t].seen) THEN ledger[o]
                    ELSE Updated(ledger[o], thread[t].seen)
  <2>2. row \in AnyRow
    BY <2>1, UpdatedFields
  <2>3. [thread[t] EXCEPT !.pc = "applied", !.row = row] \in AnyThreadState
    <3>. HIDE DEF row
    <3>. QED BY <2>1, <2>2 DEF AnyThreadState
  <2>4. /\ ledger' = [ledger EXCEPT ![o] = row] \/ ledger' = ledger
        /\ \/ thread' = [thread EXCEPT ![t] = Idle]
           \/ thread' = [thread EXCEPT ![t] = [thread[t] EXCEPT !.pc = "applied", !.row = row]]
        /\ UNCHANGED <<exec, inflow, open, baseline>>
    BY <1>9 DEF ApplyObservation
  <2>. HIDE DEF row, o
  <2>5. ledger' \in [Order -> AnyRow]
    BY <2>2, <2>4
  <2>6. thread' \in [Thread -> AnyThreadState]
    <3> DEFINE held == [thread[t] EXCEPT !.pc = "applied", !.row = row]
    <3>1. held \in AnyThreadState /\ Idle \in AnyThreadState
      BY <2>3, IdleTyped
    <3>2. thread' = [thread EXCEPT ![t] = Idle] \/ thread' = [thread EXCEPT ![t] = held]
      BY <2>4
    <3>. HIDE DEF held, Idle
    <3>. QED BY <3>1, <3>2
  <2>. QED BY <2>4, <2>5, <2>6, TypingQuiet
<1>10. ASSUME NEW t \in Thread, FlagOverfill(t) PROVE Typing'
  <2>1. thread[t].row \in AnyRow
    BY DEF AnyThreadState
  <2>2. Flagged(thread[t].row) \in AnyRow
    BY <2>1, FlaggedFields
  <2>. QED BY <1>10, <2>2, IdleTyped, TypingQuiet DEF FlagOverfill
<1>11. ASSUME NEW t \in Thread, NEW o \in Order, NEW ob \in AnyObservation, Decode(t, o, ob)
       PROVE  Typing'
  <2>1. thread' = [thread EXCEPT ![t] = Decoded(o, ob)]
        /\ UNCHANGED <<exec, inflow, open, baseline, ledger>>
    BY <1>11 DEF Decode, Decoded
  <2>. QED BY <1>11, <2>1, DecodedFields, TypingQuiet
<1>12. ASSUME NEW t \in Thread, NEW o \in Order,
              ObserveOrderPayload(t, o) \/ ObserveWallet(t, o)
       PROVE  Typing'
  <2>1. \A ob \in Payloads(o) : ob \in AnyObservation
    BY PayloadFields
  <2>2. baseline[o] # NoBaseline => WalletReading(o) \in AnyObservation
    BY ReadingTyped
  <2>. QED BY <1>11, <1>12, <2>1, <2>2 DEF ObserveOrderPayload, ObserveWallet
<1>. QED BY <1>1, <1>2, <1>3, <1>4, <1>5, <1>6, <1>7, <1>8, <1>9, <1>10, <1>12 DEF Next

LEMMA ExecGrows == ASSUME Typing, [Next]_vars PROVE \A o \in Order : Grown(o)
<1>1. ASSUME NEW o \in Order, VenueMatch(o) PROVE \A x \in Order : Grown(x)
  BY <1>1, MatchStep
<1>2. ASSUME exec' = exec PROVE \A x \in Order : Grown(x)
  BY <1>2, ExecStays
<1>3. exec' = exec \/ \E o \in Order : VenueMatch(o)
  BY DEF Next, vars, Submit, Inflow, RegisterOrder, ObserveWalletUnattributed, Resolve, Prune,
         ApplyObservation, FlagOverfill, ObserveOrderPayload, ObserveWallet, Decode
<1>. QED BY <1>1, <1>2, <1>3

-----------------------------------------------------------------------------
(* Every observation is accounted for *)

LEMMA EmptyTotal == Total({}) = 0 /\ TotalCost({}) = 0
BY SumEmpty DEF Total, TotalCost, SumFunction

LEMMA NewRowCounted == RowCounted(NoRow) /\ RowCounted(FreshRow)
BY EmptyTotal, FillSizesAssumption DEF RowCounted, NoRow, FreshRow

LEMMA UpdatedCounted ==
    ASSUME NEW r \in AnyRow, NEW ob \in AnyObservation, RowCounted(r),
           NEW u, u = Updated(r, ob)
    PROVE  /\ RowCounted(u) /\ u.confirmed >= ob.size /\ u.confirmed >= r.confirmed
           /\ u.confirmed >= Total(u.fills)
           /\ {f.id : f \in ob.fills} \subseteq Known(u)
<1> DEFINE fs == Merged(r, ob)
           a == Larger(r.confirmed, ob.size)
           total == Total(fs)
<1>1. /\ u.fills = fs /\ u.seen = r.seen \cup {ob} /\ u.confirmed = Larger(a, total)
      /\ u.confirmed > Requested => "exceedsRequest" \in u.anomalies
  BY UpdatedFields
<1>2. /\ fs \in SUBSET Fill /\ IsFiniteSet(fs)
      /\ {f.id : f \in fs} = Known(r) \cup {f.id : f \in ob.fills}
  BY MergedTyped
<1>3. r.confirmed \in Nat /\ ob.size \in Nat /\ total \in Nat
  BY <1>2, FillsTyped DEF AnyRow, AnyObservation
<1>4. \A x \in r.seen : x.size \in Nat
  BY DEF AnyRow, AnyObservation
<1>. HIDE DEF fs, total
<1>5. a \in Nat /\ r.confirmed <= a /\ ob.size <= a
  BY <1>3, LargerNat
<1>. HIDE DEF a
<1>6. u.confirmed \in Nat /\ a <= u.confirmed /\ total <= u.confirmed
  BY <1>1, <1>3, <1>5, LargerNat
<1>7. Known(u) = Known(r) \cup {f.id : f \in ob.fills}
  BY <1>1, <1>2 DEF Known
<1>8. u.confirmed >= ob.size /\ u.confirmed >= r.confirmed /\ u.confirmed >= Total(u.fills)
  BY <1>1, <1>3, <1>5, <1>6 DEF total
<1>9. ASSUME NEW x \in u.seen
      PROVE  u.confirmed >= x.size /\ {f.id : f \in x.fills} \subseteq Known(u)
  <2>1. CASE x = ob
    BY <1>7, <1>8, <2>1
  <2>2. CASE x \in r.seen
    <3>1. r.confirmed >= x.size /\ {f.id : f \in x.fills} \subseteq Known(r)
      BY <2>2 DEF RowCounted
    <3>2. u.confirmed >= x.size
      BY <1>3, <1>4, <1>6, <1>8, <2>2, <3>1
    <3>. QED BY <1>7, <3>1, <3>2
  <2>. QED BY <1>1, <1>9, <2>1, <2>2
<1>. QED BY <1>1, <1>7, <1>8, <1>9 DEF RowCounted

\* Only remarks are added.
LEMMA RemarkedCounted ==
    ASSUME NEW r, NEW u, RowCounted(r), u.confirmed = r.confirmed, u.fills = r.fills,
           u.seen = r.seen, r.anomalies \subseteq u.anomalies
    PROVE  RowCounted(u)
BY DEF RowCounted, Known

LEMMA CountedInit == ASSUME Init PROVE CountedInv
<1>1. \A o \in Order : ledger[o] = NoRow /\ baseline[o] = NoBaseline
  BY DEF Init
<1>2. \A o \in Order : RowCounted(ledger[o])
  BY <1>1, NewRowCounted
<1>3. \A o \in Order : ~ledger[o].registered
  BY <1>1 DEF NoRow
<1>4. \A t \in Thread : thread[t] = Idle /\ thread[t].pc = "idle"
  BY IdleTyped DEF Init
<1>5. \A t \in Thread : ThreadCounted(t)
  BY <1>4 DEF ThreadCounted
<1>. QED BY <1>1, <1>2, <1>3, <1>5 DEF CountedInv

\* A baseline that was captured stays.
LEMMA BaselineStays ==
    ASSUME Typing, CountedInv, [Next]_vars
    PROVE  \A o \in Order : baseline[o] # NoBaseline => baseline'[o] = baseline[o]
<1>1. ASSUME NEW x \in Order, Submit(x), NEW o \in Order, baseline[o] # NoBaseline
      PROVE  baseline'[o] = baseline[o]
  <2>1. x \notin open /\ o # x
    BY <1>1 DEF Submit, CountedInv
  <2>. QED BY <1>1, <2>1 DEF Submit, Typing
<1>2. baseline' = baseline \/ \E x \in Order : Submit(x)
  BY DEF Next, vars, VenueMatch, Inflow, RegisterOrder, ObserveWalletUnattributed, Resolve,
         Prune, ApplyObservation, FlagOverfill, ObserveOrderPayload, ObserveWallet, Decode
<1>. QED BY <1>1, <1>2

LEMMA ThreadCountedStays ==
    ASSUME Typing, CountedInv, [Next]_vars, NEW t \in Thread, thread'[t] = thread[t]
    PROVE  ThreadCounted(t)'
<1>1. ThreadCounted(t) /\ thread[t].o \in Order
  BY DEF CountedInv, Typing, AnyThreadState
<1>2. baseline[thread[t].o] # NoBaseline => baseline'[thread[t].o] = baseline[thread[t].o]
  BY <1>1, BaselineStays
<1>. QED BY <1>1, <1>2 DEF ThreadCounted

\* A step writes one row.
LEMMA CountedRow ==
    ASSUME Typing, CountedInv, [Next]_vars, NEW x \in Order, NEW u,
           ledger' = [ledger EXCEPT ![x] = u] \/ ledger' = ledger, RowCounted(u),
           u.registered => x \in open', open' = open, baseline' = baseline,
           \A t \in Thread : ThreadCounted(t)'
    PROVE  CountedInv'
<1>1. \A o \in Order : ledger'[o] = ledger[o] \/ (o = x /\ ledger'[o] = u)
  BY DEF Typing
<1>2. \A o \in Order : RowCounted(ledger'[o])
  BY <1>1 DEF CountedInv
<1>3. \A o \in Order : o \notin open' => baseline'[o] = NoBaseline /\ ~ledger'[o].registered
  BY <1>1 DEF CountedInv
<1>. QED BY <1>2, <1>3 DEF CountedInv

LEMMA CountedStep == Typing /\ CountedInv /\ [Next]_vars => CountedInv'
<1> SUFFICES ASSUME Typing, CountedInv, [Next]_vars PROVE CountedInv'
  OBVIOUS
<1>. /\ ledger \in [Order -> AnyRow] /\ thread \in [Thread -> AnyThreadState]
  BY DEF Typing
<1>a. ASSUME thread' = thread PROVE \A t \in Thread : ThreadCounted(t)'
  BY <1>a, ThreadCountedStays
<1>1. ASSUME thread' = thread, ledger' = ledger, open' = open, baseline' = baseline PROVE CountedInv'
  BY <1>1, <1>a DEF CountedInv
<1>2. ASSUME NEW o \in Order, Submit(o) PROVE CountedInv'
  <2>1. \A x \in Order : x \notin open' => x # o /\ x \notin open
    BY <1>2 DEF Submit
  <2>2. \A x \in Order : x # o => baseline'[x] = baseline[x]
    BY <1>2 DEF Submit, Typing
  <2>3. \A x \in Order : x \notin open' => baseline'[x] = NoBaseline /\ ~ledger'[x].registered
    BY <1>2, <2>1, <2>2 DEF Submit, CountedInv
  <2>. QED BY <1>2, <1>a, <2>3 DEF Submit, CountedInv
<1>3. ASSUME NEW o \in Order, RegisterOrder(o) PROVE CountedInv'
  BY <1>3, <1>a, NewRowCounted, CountedRow DEF RegisterOrder
<1>4. ASSUME NEW o \in Order, ObserveWalletUnattributed(o) PROVE CountedInv'
  <2> DEFINE u == [ledger[o] EXCEPT !.anomalies = @ \cup {"noBaseline"}]
  <2>1. ledger[o] \in AnyRow /\ RowCounted(ledger[o]) /\ ledger[o].registered
    BY <1>4 DEF CountedInv, ObserveWalletUnattributed
  <2>2. /\ u.confirmed = ledger[o].confirmed /\ u.fills = ledger[o].fills
        /\ u.seen = ledger[o].seen /\ ledger[o].anomalies \subseteq u.anomalies
        /\ u.registered = ledger[o].registered
    BY <2>1 DEF AnyRow
  <2>3. ledger' = [ledger EXCEPT ![o] = u] /\ UNCHANGED <<exec, inflow, open, baseline, thread>>
    BY <1>4 DEF ObserveWalletUnattributed
  <2>4. o \in open
    BY <2>1 DEF CountedInv
  <2>. HIDE DEF u
  <2>5. RowCounted(u)
    BY <2>1, <2>2, RemarkedCounted
  <2>. QED BY <1>a, <2>3, <2>4, <2>5, CountedRow
<1>5. ASSUME NEW o \in Order, Resolve(o) PROVE CountedInv'
  <2> DEFINE u == [ledger[o] EXCEPT !.resolved = TRUE]
  <2>1. ledger[o] \in AnyRow /\ RowCounted(ledger[o]) /\ ledger[o].registered
    BY <1>5 DEF CountedInv, Resolve
  <2>2. /\ u.confirmed = ledger[o].confirmed /\ u.fills = ledger[o].fills
        /\ u.seen = ledger[o].seen /\ ledger[o].anomalies \subseteq u.anomalies
        /\ u.registered = ledger[o].registered
    BY <2>1 DEF AnyRow
  <2>3. ledger' = [ledger EXCEPT ![o] = u] /\ UNCHANGED <<exec, inflow, open, baseline, thread>>
    BY <1>5 DEF Resolve
  <2>4. o \in open
    BY <2>1 DEF CountedInv
  <2>. HIDE DEF u
  <2>5. RowCounted(u)
    BY <2>1, <2>2, RemarkedCounted
  <2>. QED BY <1>a, <2>3, <2>4, <2>5, CountedRow
<1>6. ASSUME NEW o \in Order, Prune(o) PROVE CountedInv'
  <2>1. ~NoRow.registered
    BY DEF NoRow
  <2>. QED BY <1>6, <1>a, <2>1, NewRowCounted, CountedRow DEF Prune
<1>7. ASSUME NEW t \in Thread, ApplyObservation(t) PROVE CountedInv'
  <2> DEFINE o == thread[t].o
             ob == thread[t].seen
             row == IF Seen(ledger[o], ob) THEN ledger[o] ELSE Updated(ledger[o], ob)
             held == [thread[t] EXCEPT !.pc = "applied", !.row = row]
  <2>1. /\ o \in Order /\ ob \in AnyObservation /\ ledger[o] \in AnyRow
        /\ thread[t] \in AnyThreadState /\ RowCounted(ledger[o]) /\ ThreadCounted(t)
    BY DEF AnyThreadState, CountedInv
  <2>2. thread[t].pc = "decoded" /\ UNCHANGED <<exec, inflow, open, baseline>>
    BY <1>7 DEF ApplyObservation
  <2>3. RowCounted(row) /\ row.registered = ledger[o].registered /\ ob \in row.seen
    <3>1. CASE Seen(ledger[o], ob)
      BY <2>1, <3>1 DEF Seen
    <3>2. CASE ~Seen(ledger[o], ob)
      <4>1. RowCounted(Updated(ledger[o], ob))
        BY <2>1, UpdatedCounted
      <4>2. /\ Updated(ledger[o], ob).registered = ledger[o].registered
            /\ Updated(ledger[o], ob).seen = ledger[o].seen \cup {ob}
        BY <2>1, UpdatedFields
      <4>. QED BY <3>2, <4>1, <4>2
    <3>. QED BY <3>1, <3>2
  <2>4. \/ /\ ledger' = [ledger EXCEPT ![o] = row] /\ ledger[o].registered
           /\ \/ thread' = [thread EXCEPT ![t] = Idle]
              \/ ob.source = "wallet" /\ thread' = [thread EXCEPT ![t] = held]
        \/ ledger' = ledger /\ thread' = [thread EXCEPT ![t] = Idle]
    BY <1>7 DEF ApplyObservation
  <2>5. /\ held.pc = "applied" /\ held.row = row /\ held.o = o /\ held.seen = ob
    <3>. HIDE DEF row
    <3>. QED BY <2>1 DEF AnyThreadState
  <2>. HIDE DEF o, ob, row, held
  <2>6. ASSUME NEW v \in Thread PROVE ThreadCounted(v)'
    <3>1. CASE thread'[v] = thread[v]
      BY <3>1, ThreadCountedStays
    <3>2. CASE thread'[v] = Idle
      BY <3>2, IdleTyped DEF ThreadCounted
    <3>3. CASE /\ v = t /\ thread'[v] = held /\ ob.source = "wallet" /\ ledger[o].registered
      <4>1. baseline[o] # NoBaseline
        BY <2>1, <2>2, <3>3 DEF ThreadCounted, o, ob
      <4>. QED BY <2>2, <2>3, <2>5, <3>3, <4>1 DEF ThreadCounted
    <3>. QED BY <2>4, <3>1, <3>2, <3>3
  <2>7. row.registered /\ ledger' # ledger => o \in open
    BY <2>1, <2>3 DEF CountedInv
  <2>8. CASE ledger' = ledger
    BY <2>2, <2>6, <2>8 DEF CountedInv
  <2>9. CASE ledger' # ledger
    BY <2>1, <2>2, <2>3, <2>4, <2>6, <2>7, <2>9, CountedRow
  <2>. QED BY <2>8, <2>9
<1>8. ASSUME NEW t \in Thread, FlagOverfill(t) PROVE CountedInv'
  <2> DEFINE o == thread[t].o
             r == thread[t].row
             u == Flagged(r)
  <2>1. /\ o \in Order /\ r \in AnyRow /\ ThreadCounted(t)
    BY DEF AnyThreadState, CountedInv
  <2>2. /\ thread[t].pc = "applied" /\ UNCHANGED <<exec, inflow, open, baseline>>
        /\ ledger' = [ledger EXCEPT ![o] = u] /\ thread' = [thread EXCEPT ![t] = Idle]
    BY <1>8 DEF FlagOverfill
  <2>3. RowCounted(r) /\ thread[t].seen.source = "wallet" /\ baseline[o] # NoBaseline
    BY <2>1, <2>2 DEF ThreadCounted
  <2>4. o \in open
    BY <2>1, <2>3 DEF CountedInv
  <2>5. /\ u.confirmed = r.confirmed /\ u.fills = r.fills /\ u.seen = r.seen
        /\ r.anomalies \subseteq u.anomalies
    BY <2>1, FlaggedFields
  <2>. HIDE DEF o, r, u
  <2>6. RowCounted(u)
    BY <2>3, <2>5, RemarkedCounted
  <2>7. ASSUME NEW v \in Thread PROVE ThreadCounted(v)'
    <3>1. CASE thread'[v] = thread[v]
      BY <3>1, ThreadCountedStays
    <3>2. CASE thread'[v] = Idle
      BY <3>2, IdleTyped DEF ThreadCounted
    <3>. QED BY <2>2, <3>1, <3>2
  <2>. QED BY <2>1, <2>2, <2>4, <2>6, <2>7, CountedRow
<1>9. ASSUME NEW t \in Thread, NEW o \in Order, NEW ob \in AnyObservation, Decode(t, o, ob),
             ob.source = "wallet" => baseline[o] # NoBaseline
      PROVE  CountedInv'
  <2> DEFINE d == Decoded(o, ob)
  <2>1. d.pc = "decoded" /\ d.o = o /\ d.seen = ob /\ d.row = NoRow
    BY <1>9, DecodedFields
  <2>2. thread' = [thread EXCEPT ![t] = d] /\ UNCHANGED <<exec, inflow, open, baseline, ledger>>
    BY <1>9 DEF Decode, Decoded
  <2>. HIDE DEF d
  <2>3. ASSUME NEW v \in Thread PROVE ThreadCounted(v)'
    <3>1. CASE thread'[v] = thread[v]
      BY <3>1, ThreadCountedStays
    <3>2. CASE thread'[v] = d
      BY <1>9, <2>1, <2>2, <3>2 DEF ThreadCounted
    <3>. QED BY <2>2, <3>1, <3>2
  <2>. QED BY <2>2, <2>3 DEF CountedInv
<1>10. ASSUME NEW t \in Thread, NEW o \in Order,
              ObserveOrderPayload(t, o) \/ ObserveWallet(t, o)
       PROVE  CountedInv'
  <2>1. \A ob \in Payloads(o) : ob \in AnyObservation /\ ob.source = "venue"
    BY PayloadFields
  <2>2. baseline[o] # NoBaseline => WalletReading(o) \in AnyObservation
    BY ReadingTyped
  <2>. QED BY <1>9, <1>10, <2>1, <2>2 DEF ObserveOrderPayload, ObserveWallet
<1>11. CASE UNCHANGED vars
  BY <1>1, <1>11 DEF vars
<1>12. ASSUME NEW o \in Order, VenueMatch(o) PROVE CountedInv'
  BY <1>1, <1>12 DEF VenueMatch
<1>13. ASSUME Inflow PROVE CountedInv'
  BY <1>1, <1>13 DEF Inflow
<1>. QED BY <1>2, <1>3, <1>4, <1>5, <1>6, <1>7, <1>8, <1>10, <1>11, <1>12, <1>13 DEF Next

\* Types and accounting together, for every instance.
Accounting == Typing /\ CountedInv

THEOREM AccountingHolds == Spec => []Accounting
<1>1. Init => Accounting
  BY TypingInit, CountedInit DEF Accounting
<1>2. Accounting /\ [Next]_vars => Accounting'
  BY TypingStep, CountedStep DEF Accounting
<1>. QED BY <1>1, <1>2, PTL DEF Spec

\* An observation that reaches its row is in it, and so is every execution that it
\* lists: for any number of threads, named executions or not, repeated rows or not.
THEOREM EvidenceCountedHolds == Spec => EvidenceCounted
<1> DEFINE Reached(t) ==
        thread[t].pc = "decoded" /\ thread'[t].pc # "decoded" /\ ledger[thread[t].o].registered =>
            /\ ledger'[thread[t].o].confirmed >= thread[t].seen.size
            /\ ledger'[thread[t].o].confirmed >= Total(ledger'[thread[t].o].fills)
            /\ {f.id : f \in thread[t].seen.fills} \subseteq Known(ledger'[thread[t].o])
<1>1. ASSUME Accounting, [Next]_vars, NEW t \in Thread PROVE Reached(t)
  <2> SUFFICES ASSUME thread[t].pc = "decoded", thread'[t].pc # "decoded",
                      ledger[thread[t].o].registered
               PROVE  /\ ledger'[thread[t].o].confirmed >= thread[t].seen.size
                      /\ ledger'[thread[t].o].confirmed >= Total(ledger'[thread[t].o].fills)
                      /\ {f.id : f \in thread[t].seen.fills} \subseteq Known(ledger'[thread[t].o])
    OBVIOUS
  <2>1. ledger \in [Order -> AnyRow] /\ thread \in [Thread -> AnyThreadState]
    BY <1>1 DEF Accounting, Typing
  <2>2. ApplyObservation(t)
    <3>1. thread' # thread
      OBVIOUS
    <3>2. \E v \in Thread : \/ ApplyObservation(v) \/ FlagOverfill(v)
                            \/ \E o \in Order : ObserveOrderPayload(v, o) \/ ObserveWallet(v, o)
      BY <1>1, <3>1 DEF Next, vars, Submit, VenueMatch, Inflow, RegisterOrder,
                        ObserveWalletUnattributed, Resolve, Prune
    <3>3. ASSUME NEW v \in Thread, ApplyObservation(v) PROVE v = t
      BY <2>1, <3>3 DEF ApplyObservation
    <3>4. ASSUME NEW v \in Thread, FlagOverfill(v) PROVE FALSE
      BY <2>1, <3>4 DEF FlagOverfill
    <3>5. ASSUME NEW v \in Thread, NEW o \in Order, NEW ob, MayObserve(v, o), Decode(v, o, ob)
          PROVE  FALSE
      BY <2>1, <3>5 DEF MayObserve, Decode
    <3>. QED BY <3>2, <3>3, <3>4, <3>5 DEF ObserveOrderPayload, ObserveWallet
  <2> DEFINE o == thread[t].o
             ob == thread[t].seen
             row == IF Seen(ledger[o], ob) THEN ledger[o] ELSE Updated(ledger[o], ob)
  <2>3. o \in Order /\ ob \in AnyObservation /\ ledger[o] \in AnyRow /\ RowCounted(ledger[o])
    BY <1>1, <2>1 DEF AnyThreadState, Accounting, CountedInv
  <2>4. ledger'[o] = row
    BY <2>1, <2>2, <2>3 DEF ApplyObservation
  <2>5. /\ row.confirmed >= ob.size /\ row.confirmed >= Total(row.fills)
        /\ {f.id : f \in ob.fills} \subseteq Known(row)
    <3>1. CASE Seen(ledger[o], ob)
      <4>. HIDE DEF o, ob
      <4>. QED BY <2>3, <3>1 DEF Seen, RowCounted
    <3>2. CASE ~Seen(ledger[o], ob)
      <4>. HIDE DEF o, ob
      <4>. QED BY <2>3, <3>2, UpdatedCounted
    <3>. QED BY <3>1, <3>2
  <2>. QED BY <2>4, <2>5
<1>2. ASSUME Accounting, [Next]_vars
      PROVE  [\A t \in Thread : Reached(t)]_vars
  BY <1>1, <1>2
<1>3. Spec => [][\A t \in Thread : Reached(t)]_vars
  <2>. HIDE DEF Reached
  <2>. QED BY <1>2, AccountingHolds, PTL DEF Spec
<1>. QED BY <1>3 DEF EvidenceCounted

-----------------------------------------------------------------------------
(* Facts only grow *)

LEMMA BelowItself == ASSUME NEW r \in AnyRow PROVE Below(r, r)
BY DEF Below, AnyRow

LEMMA UpdatedAbove ==
    ASSUME NEW r \in AnyRow, NEW ob \in AnyObservation
    PROVE  Below(r, Updated(r, ob)) /\ Updated(r, ob) \in AnyRow
<1> DEFINE u == Updated(r, ob)
           fs == Merged(r, ob)
           a == Larger(r.confirmed, ob.size)
           total == Total(fs)
<1>1. /\ u.fills = fs /\ u.confirmed = Larger(a, total) /\ u.registered = r.registered
      /\ u.covered = ChoosePrice(r, ob, fs)[1] /\ r.anomalies \subseteq u.anomalies
      /\ u.resolved = r.resolved /\ u \in AnyRow
  BY UpdatedFields
<1>2. fs \in SUBSET Fill /\ IsFiniteSet(fs) /\ r.fills \subseteq fs
  BY MergedTyped
<1>3. r.confirmed \in Nat /\ ob.size \in Nat /\ total \in Nat /\ r.covered \in Nat
  BY <1>2, FillsTyped DEF AnyRow, AnyObservation
<1>4. u.covered \in Nat /\ u.covered >= r.covered
  <2>1. ChoosePrice(r, ob, fs)[1] \in Nat /\ ChoosePrice(r, ob, fs)[1] >= r.covered
    <3>. HIDE DEF fs
    <3>. QED BY <1>2, ChoosePriceTyped
  <2>. QED BY <1>1, <2>1
<1>. HIDE DEF u, fs, total
<1>5. a \in Nat /\ r.confirmed <= a
  BY <1>3, LargerNat
<1>. HIDE DEF a
<1>6. u.confirmed \in Nat /\ a <= u.confirmed
  <2>1. Larger(a, total) \in Nat /\ a <= Larger(a, total)
    BY <1>3, <1>5, LargerNat
  <2>. QED BY <1>1, <2>1
<1>. QED BY <1>1, <1>2, <1>3, <1>4, <1>5, <1>6 DEF Below, u

\* A step that writes the row of an order overtakes the other threads that hold one.
LEMMA WritesOvertake ==
    ASSUME Accounting, [Next]_vars, NEW o \in Order, NEW t \in Holders(o), thread'[t] = thread[t]
    PROVE  t \in overtaken' \/ (ledger'[o] = ledger[o] /\ t \notin overtaken)
<1>. ledger \in [Order -> AnyRow] /\ thread \in [Thread -> AnyThreadState]
  BY DEF Accounting, Typing
<1>1. t \in Thread /\ thread[t].pc = "applied"
  BY DEF Holders
<1>2. CASE ledger' = ledger /\ overtaken' = overtaken
  BY <1>2
<1>3. ASSUME NEW x \in Order, NEW u, ledger' = [ledger EXCEPT ![x] = u],
             overtaken' = overtaken \cup Holders(x)
      PROVE  t \in overtaken' \/ (ledger'[o] = ledger[o] /\ t \notin overtaken)
  BY <1>3
<1>4. ASSUME NEW x \in Order, RegisterOrder(x) \/ ObserveWalletUnattributed(x)
                              \/ Resolve(x) \/ Prune(x)
      PROVE  t \in overtaken' \/ (ledger'[o] = ledger[o] /\ t \notin overtaken)
  BY <1>3, <1>4 DEF RegisterOrder, ObserveWalletUnattributed, Resolve, Prune
<1>5. ASSUME NEW v \in Thread, ApplyObservation(v)
      PROVE  t \in overtaken' \/ (ledger'[o] = ledger[o] /\ t \notin overtaken)
  <2> DEFINE x == thread[v].o
             row == IF Seen(ledger[x], thread[v].seen) THEN ledger[x]
                    ELSE Updated(ledger[x], thread[v].seen)
  <2>1. x \in Order
    BY DEF AnyThreadState
  <2>2. \/ ledger' = ledger /\ overtaken' = overtaken
        \/ /\ ledger' = [ledger EXCEPT ![x] = row]
           /\ overtaken' = IF row = ledger[x] THEN overtaken ELSE overtaken \cup Holders(x)
    BY <1>5 DEF ApplyObservation
  <2>. HIDE DEF row, x
  <2>. QED BY <1>2, <1>3, <2>1, <2>2
<1>6. ASSUME NEW v \in Thread, FlagOverfill(v)
      PROVE  t \in overtaken' \/ (ledger'[o] = ledger[o] /\ t \notin overtaken)
  <2>1. /\ ledger' = [ledger EXCEPT ![thread[v].o] = Flagged(thread[v].row)]
        /\ overtaken' = (overtaken \cup Holders(thread[v].o)) \ {v}
        /\ thread'[v] = Idle
    BY <1>6 DEF FlagOverfill
  <2>2. v # t
    BY <1>1, <2>1, IdleTyped
  <2>3. CASE thread[v].o = o
    BY <2>1, <2>2, <2>3
  <2>4. CASE thread[v].o # o
    BY <2>1, <2>2, <2>4
  <2>. QED BY <2>3, <2>4
<1>7. ASSUME NEW v \in Thread, NEW x \in Order, ObserveOrderPayload(v, x) \/ ObserveWallet(v, x)
      PROVE  ledger' = ledger /\ overtaken' = overtaken
  BY <1>7 DEF ObserveOrderPayload, ObserveWallet, Decode
<1>. QED BY <1>2, <1>4, <1>5, <1>6, <1>7 DEF Next, vars, Submit, VenueMatch, Inflow

LEMMA HeldStep ==
    ASSUME Accounting, HeldInv, [Next]_vars
    PROVE  HeldInv'
<1>. /\ ledger \in [Order -> AnyRow] /\ thread \in [Thread -> AnyThreadState]
  BY DEF Accounting, Typing
<1>1. overtaken' \subseteq Thread
  <2>1. overtaken \subseteq Thread /\ \A o : Holders(o) \subseteq Thread
    BY DEF HeldInv, Holders
  <2>2. ASSUME NEW v \in Thread, ApplyObservation(v) PROVE overtaken' \subseteq Thread
    BY <2>1, <2>2 DEF ApplyObservation
  <2>3. ASSUME NEW v \in Thread, NEW x \in Order,
               ObserveOrderPayload(v, x) \/ ObserveWallet(v, x)
        PROVE  overtaken' = overtaken
    BY <2>3 DEF ObserveOrderPayload, ObserveWallet, Decode
  <2>4. ASSUME NEW x \in Order, RegisterOrder(x) \/ ObserveWalletUnattributed(x)
                                \/ Resolve(x) \/ Prune(x)
        PROVE  overtaken' = overtaken \cup Holders(x)
    BY <2>4 DEF RegisterOrder, ObserveWalletUnattributed, Resolve, Prune
  <2>5. ASSUME NEW v \in Thread, FlagOverfill(v) PROVE overtaken' \subseteq Thread
    BY <2>1, <2>5 DEF FlagOverfill
  <2>. QED BY <2>1, <2>2, <2>3, <2>4, <2>5 DEF Next, vars, Submit, VenueMatch, Inflow
<1>2. ASSUME NEW t \in Thread, thread'[t].pc = "applied", t \notin overtaken'
      PROVE  ledger'[thread'[t].o] = thread'[t].row
  <2>1. CASE thread'[t] = thread[t]
    <3>1. thread[t].o \in Order /\ t \in Holders(thread[t].o)
      BY <1>2, <2>1 DEF Holders, AnyThreadState
    <3>2. ledger'[thread[t].o] = ledger[thread[t].o] /\ t \notin overtaken
      BY <1>2, <2>1, <3>1, WritesOvertake
    <3>. QED BY <1>2, <2>1, <3>2 DEF HeldInv
  <2>2. CASE thread'[t] # thread[t]
    <3>1. PICK v \in Thread : \/ ApplyObservation(v) \/ FlagOverfill(v)
                              \/ \E o \in Order : ObserveOrderPayload(v, o) \/ ObserveWallet(v, o)
      BY <2>2 DEF Next, vars, Submit, VenueMatch, Inflow, RegisterOrder,
                  ObserveWalletUnattributed, Resolve, Prune
    <3>2. v = t
      <4>1. \E s : thread' = [thread EXCEPT ![v] = s]
        BY <3>1 DEF ApplyObservation, FlagOverfill, ObserveOrderPayload, ObserveWallet, Decode
      <4>. QED BY <2>2, <4>1
    <3>3. ~FlagOverfill(t)
      BY <1>2, IdleTyped DEF FlagOverfill
    <3>4. ASSUME NEW o \in Order, NEW ob \in AnyObservation, Decode(t, o, ob) PROVE FALSE
      <4>1. thread'[t] = Decoded(o, ob)
        BY <3>4 DEF Decode, Decoded
      <4>. QED BY <1>2, <4>1, DecodedFields
    <3>5. \A o \in Order : ~ObserveOrderPayload(t, o) /\ ~ObserveWallet(t, o)
      <4>1. \A o \in Order : \A ob \in Payloads(o) : ob \in AnyObservation
        BY PayloadFields DEF Accounting
      <4>2. \A o \in Order : baseline[o] # NoBaseline => WalletReading(o) \in AnyObservation
        BY ReadingTyped DEF Accounting
      <4>. QED BY <3>4, <4>1, <4>2 DEF ObserveOrderPayload, ObserveWallet
    <3>6. ApplyObservation(t)
      BY <3>1, <3>2, <3>3, <3>5
    <3> DEFINE o == thread[t].o
               ob == thread[t].seen
               row == IF Seen(ledger[o], ob) THEN ledger[o] ELSE Updated(ledger[o], ob)
               held == [thread[t] EXCEPT !.pc = "applied", !.row = row]
    <3>7. o \in Order /\ thread[t] \in AnyThreadState
      BY DEF AnyThreadState
    <3>8. held.row = row /\ held.o = o
      <4>. HIDE DEF row
      <4>. QED BY <3>7 DEF AnyThreadState
    <3>9. thread'[t] = held /\ ledger'[o] = row
      <4>1. \/ thread' = [thread EXCEPT ![t] = Idle]
            \/ /\ thread' = [thread EXCEPT ![t] = held]
               /\ ledger' = [ledger EXCEPT ![o] = row]
        BY <3>6 DEF ApplyObservation
      <4>. HIDE DEF held, row, o
      <4>. QED BY <1>2, <3>7, <4>1, IdleTyped
    <3>. HIDE DEF held, row, o
    <3>. QED BY <3>8, <3>9
  <2>. QED BY <2>1, <2>2
<1>. QED BY <1>1, <1>2 DEF HeldInv

LEMMA HeldHolds == Spec => [](Accounting /\ HeldInv)
<1>1. ASSUME Init PROVE HeldInv
  <2>1. overtaken = {} /\ \A t \in Thread : thread[t] = Idle
    BY <1>1 DEF Init
  <2>. QED BY <2>1, IdleTyped DEF HeldInv
<1>2. Accounting /\ HeldInv /\ [Next]_vars => HeldInv'
  BY HeldStep
<1>. QED BY <1>1, <1>2, AccountingHolds, PTL DEF Spec

\* Whichever threads write, what is known about an order only grows, only a resolved row
\* disappears and an unknown order starts afresh, except where a thread that was overtaken
\* between two of its sections stores the row it read before: for any number of threads.
THEOREM FactsKeptHolds == Spec => FactsKept
<1> DEFINE Kept(o) ==
              \/ IF ledger[o].registered THEN Below(ledger[o], ledger'[o])
                 ELSE ledger'[o] \in {ledger[o], FreshRow}
              \/ ledger[o].registered /\ ledger[o].resolved /\ ledger'[o] = NoRow
              \/ StoresOvertaken(o)
<1>1. ASSUME Accounting, HeldInv, [Next]_vars, NEW o \in Order PROVE Kept(o)
  <2>. /\ ledger \in [Order -> AnyRow] /\ thread \in [Thread -> AnyThreadState]
    BY <1>1 DEF Accounting, Typing
  <2>1. ledger[o] \in AnyRow /\ ledger[o].confirmed \in Nat /\ ledger[o].covered \in Nat
    BY DEF AnyRow
  <2>2. ASSUME NEW u \in AnyRow, ledger'[o] = u, Below(ledger[o], u), ledger[o].registered
        PROVE  Kept(o)
    BY <2>2
  <2>3. CASE ledger'[o] = ledger[o]
    BY <2>1, <2>3, BelowItself
  <2>4. ASSUME ObserveWalletUnattributed(o) PROVE Kept(o)
    <3> DEFINE u == [ledger[o] EXCEPT !.anomalies = @ \cup {"noBaseline"}]
    <3>1. /\ u.confirmed = ledger[o].confirmed /\ u.covered = ledger[o].covered
          /\ u.fills = ledger[o].fills /\ ledger[o].anomalies \subseteq u.anomalies
          /\ u.registered = ledger[o].registered /\ u.resolved = ledger[o].resolved /\ u \in AnyRow
      BY <2>1 DEF AnyRow
    <3>2. ledger'[o] = u /\ ledger[o].registered
      BY <2>4 DEF ObserveWalletUnattributed
    <3>. HIDE DEF u, Kept
    <3>3. Below(ledger[o], u)
      BY <2>1, <3>1 DEF Below
    <3>. QED BY <2>2, <3>1, <3>2, <3>3
  <2>5. ASSUME Resolve(o) PROVE Kept(o)
    <3> DEFINE u == [ledger[o] EXCEPT !.resolved = TRUE]
    <3>1. /\ u.confirmed = ledger[o].confirmed /\ u.covered = ledger[o].covered
          /\ u.fills = ledger[o].fills /\ u.anomalies = ledger[o].anomalies
          /\ u.registered = ledger[o].registered /\ u.resolved /\ u \in AnyRow
      BY <2>1 DEF AnyRow
    <3>2. ledger'[o] = u /\ ledger[o].registered
      BY <2>5 DEF Resolve
    <3>. HIDE DEF u, Kept
    <3>3. Below(ledger[o], u)
      BY <2>1, <3>1 DEF Below
    <3>. QED BY <2>2, <3>1, <3>2, <3>3
  <2>6. ASSUME Prune(o) PROVE Kept(o)
    BY <2>6 DEF Prune
  <2>7. ASSUME RegisterOrder(o) PROVE Kept(o)
    BY <2>7 DEF RegisterOrder
  <2>8. ASSUME NEW t \in Thread, ApplyObservation(t), thread[t].o = o PROVE Kept(o)
    <3> DEFINE ob == thread[t].seen
               row == IF Seen(ledger[o], ob) THEN ledger[o] ELSE Updated(ledger[o], ob)
    <3>1. ob \in AnyObservation
      BY DEF AnyThreadState
    <3>2. row \in AnyRow /\ Below(ledger[o], row)
      BY <2>1, <3>1, UpdatedAbove, BelowItself
    <3>3. (ledger'[o] = row /\ ledger[o].registered) \/ ledger'[o] = ledger[o]
      BY <2>8 DEF ApplyObservation
    <3>. HIDE DEF row, Kept
    <3>. QED BY <2>2, <2>3, <3>2, <3>3
  <2>9. ASSUME NEW t \in Thread, FlagOverfill(t), thread[t].o = o PROVE Kept(o)
    <3> DEFINE row == thread[t].row
               u == Flagged(row)
    <3>1. row \in AnyRow /\ row.registered /\ t \in Holders(o)
      BY <1>1, <2>9 DEF AnyThreadState, FlagOverfill, Accounting, CountedInv, ThreadCounted, Holders
    <3>2. ledger'[o] = u /\ thread'[t].pc = "idle"
      BY <2>9, IdleTyped DEF FlagOverfill
    <3>3. CASE t \in overtaken
      BY <3>1, <3>2, <3>3 DEF StoresOvertaken
    <3>4. CASE t \notin overtaken
      <4>1. ledger[o] = row
        BY <1>1, <2>9, <3>4 DEF FlagOverfill, HeldInv
      <4>2. /\ u \in AnyRow /\ u.registered = row.registered /\ u.confirmed = row.confirmed
            /\ u.covered = row.covered /\ u.fills = row.fills /\ u.resolved = row.resolved
            /\ row.anomalies \subseteq u.anomalies
        BY <3>1, FlaggedFields
      <4>. HIDE DEF u, row
      <4>3. Below(ledger[o], u)
        BY <2>1, <4>1, <4>2 DEF Below
      <4>. HIDE DEF Kept
      <4>. QED BY <2>2, <3>1, <3>2, <4>1, <4>2, <4>3
    <3>. QED BY <3>3, <3>4
  <2>10. \/ ledger'[o] = ledger[o]
         \/ ObserveWalletUnattributed(o) \/ Resolve(o) \/ Prune(o) \/ RegisterOrder(o)
         \/ \E t \in Thread : thread[t].o = o /\ (ApplyObservation(t) \/ FlagOverfill(t))
    <3>1. ASSUME NEW x \in Order, x # o, RegisterOrder(x) \/ Resolve(x) \/ Prune(x)
                 \/ ObserveWalletUnattributed(x)
          PROVE  ledger'[o] = ledger[o]
      BY <3>1 DEF RegisterOrder, Resolve, Prune, ObserveWalletUnattributed
    <3>2. ASSUME NEW t \in Thread, thread[t].o # o, ApplyObservation(t) \/ FlagOverfill(t)
          PROVE  ledger'[o] = ledger[o]
      BY <3>2 DEF ApplyObservation, FlagOverfill
    <3>3. ASSUME NEW t \in Thread, NEW x \in Order, ObserveOrderPayload(t, x) \/ ObserveWallet(t, x)
          PROVE  ledger' = ledger
      BY <3>3 DEF ObserveOrderPayload, ObserveWallet, Decode
    <3>. QED BY <1>1, <3>1, <3>2, <3>3 DEF Next, vars, Submit, VenueMatch, Inflow
  <2>. HIDE DEF Kept
  <2>. QED BY <2>3, <2>4, <2>5, <2>6, <2>7, <2>8, <2>9, <2>10
<1>2. ASSUME Accounting, HeldInv, [Next]_vars
      PROVE  [\A o \in Order : Kept(o)]_vars
  BY <1>1, <1>2
<1>3. Spec => [][\A o \in Order : Kept(o)]_vars
  <2>. HIDE DEF Kept
  <2>. QED BY <1>2, HeldHolds, PTL DEF Spec
<1>. QED BY <1>3 DEF FactsKept

-----------------------------------------------------------------------------
(* What the venue reports *)

\* A listing without repetitions is a part of what was executed.
LEMMA ListingSums ==
    ASSUME Typing, ~RepeatedRows, NEW o \in Order, NEW s \in Listings(o),
           NEW ks, ks = {s[i] : i \in DOMAIN s}
    PROVE  /\ ks \in SUBSET DOMAIN exec[o]
           /\ RowTotal(o, s) = Executed(o, ks) /\ RowCost(o, s) = Cost(o, ks)
<1> DEFINE t == [i \in DOMAIN s |-> exec[o][s[i]].size]
           c == [i \in DOMAIN s |-> exec[o][s[i]].size * exec[o][s[i]].price]
<1>1. /\ IsFiniteSet(DOMAIN s) /\ \A i \in DOMAIN s : s[i] \in DOMAIN exec[o]
      /\ \A i, j \in DOMAIN s : s[i] = s[j] => i = j
  BY ListingTyped
<1>2. \A k \in DOMAIN exec[o] :
         /\ Sizes(o)[k] = exec[o][k].size /\ Sizes(o)[k] \in Int
         /\ Costs(o)[k] = exec[o][k].size * exec[o][k].price /\ Costs(o)[k] \in Int
  <2>1. exec[o] \in Seq(Execution) /\ Sizes(o) = SizesOf(exec[o]) /\ Costs(o) = CostsOf(exec[o])
    BY MatchedTyped
  <2>. QED BY <2>1, ExecutionsTyped
<1>3. /\ \A i \in DOMAIN s : t[i] \in Int /\ Sizes(o)[s[i]] = t[i]
      /\ \A i \in DOMAIN s : c[i] \in Int /\ Costs(o)[s[i]] = c[i]
      /\ DOMAIN t = DOMAIN s /\ DOMAIN c = DOMAIN s
  BY <1>1, <1>2
<1>4. /\ SumFunctionOnSet(t, DOMAIN s) = SumFunctionOnSet(Sizes(o), ks)
      /\ SumFunctionOnSet(c, DOMAIN s) = SumFunctionOnSet(Costs(o), ks)
  <2>. HIDE DEF t, c
  <2>. QED BY <1>1, <1>3, SumImage
<1>. QED BY <1>1, <1>3, <1>4 DEF RowTotal, RowCost, SumFunction, Executed, Cost

LEMMA PayloadSize ==
    ASSUME Typing, ~RepeatedRows, NEW o \in Order, NEW ob \in Payloads(o)
    PROVE  ob.size <= Matched(o)
<1>1. PICK n \in 0..Len(exec[o]), s \in Listings(o) :
         /\ ob.size = IF n > 0 THEN Executed(o, 1..n) ELSE RowTotal(o, s)
         /\ 1..n \in SUBSET DOMAIN exec[o]
  BY PayloadFields
<1> DEFINE ks == {s[i] : i \in DOMAIN s}
<1>2. ks \in SUBSET DOMAIN exec[o] /\ RowTotal(o, s) = Executed(o, ks)
  BY ListingSums
<1>. HIDE DEF ks
<1>3. Executed(o, ks) <= Matched(o) /\ Executed(o, 1..n) <= Matched(o)
  BY <1>1, <1>2, MatchedTyped
<1>. QED BY <1>1, <1>2, <1>3

-----------------------------------------------------------------------------
(* An overfill stays visible *)

ReportsMatched == \A t \in Thread, o \in Order :
    thread[t].pc # "idle" /\ thread[t].o = o /\ thread[t].seen.source = "venue" =>
        thread[t].seen.size <= Matched(o)

FlaggedAt(o) == \A ob \in ledger[o].seen : ob.size > Requested =>
    \/ "walletOverfill" \in ledger[o].anomalies
    \/ \E t \in Thread : thread[t].pc = "applied" /\ thread[t].o = o

LEMMA ReportsMatchedStep ==
    ASSUME ~RepeatedRows, Accounting, ReportsMatched, [Next]_vars
    PROVE  ReportsMatched'
<1>. /\ ledger \in [Order -> AnyRow] /\ thread \in [Thread -> AnyThreadState]
  BY DEF Accounting, Typing
<1> SUFFICES ASSUME NEW t \in Thread, NEW x \in Order, thread'[t].pc # "idle",
                    thread'[t].o = x, thread'[t].seen.source = "venue"
             PROVE  thread'[t].seen.size <= Matched(x)'
  BY DEF ReportsMatched
<1>1. Matched(x) \in Nat /\ Matched(x)' \in Nat /\ Matched(x) <= Matched(x)'
  BY ExecGrows DEF Accounting, Grown
<1>2. CASE thread'[t] = thread[t]
  <2>1. thread[t].seen \in AnyObservation
    BY DEF AnyThreadState
  <2>2. thread[t].seen.size <= Matched(x) /\ thread[t].seen.size \in Nat
    BY <1>2, <2>1 DEF ReportsMatched, AnyObservation
  <2>. HIDE DEF Matched
  <2>. QED BY <1>1, <1>2, <2>2
<1>3. ASSUME ApplyObservation(t) \/ FlagOverfill(t) PROVE FALSE
  <2> DEFINE row == IF Seen(ledger[thread[t].o], thread[t].seen) THEN ledger[thread[t].o]
                    ELSE Updated(ledger[thread[t].o], thread[t].seen)
             held == [thread[t] EXCEPT !.pc = "applied", !.row = row]
  <2>1. thread[t] \in AnyThreadState
    OBVIOUS
  <2>2. held.seen = thread[t].seen
    <3>. HIDE DEF row
    <3>. QED BY <2>1 DEF AnyThreadState
  <2>3. \/ thread' = [thread EXCEPT ![t] = Idle]
        \/ /\ thread' = [thread EXCEPT ![t] = held]
           /\ thread[t].seen.source = "wallet"
    BY <1>3 DEF ApplyObservation, FlagOverfill
  <2>. HIDE DEF held
  <2>4. thread'[t] = Idle \/ thread'[t].seen.source = "wallet"
    BY <2>2, <2>3
  <2>. QED BY <2>4, IdleTyped
<1>4. ASSUME NEW o \in Order, ObserveOrderPayload(t, o)
      PROVE  thread'[t].seen.size <= Matched(x)'
  <2>1. PICK ob \in Payloads(o) : Decode(t, o, ob)
    BY <1>4 DEF ObserveOrderPayload
  <2>2. thread'[t] = Decoded(o, ob) /\ exec' = exec
    BY <2>1 DEF Decode, Decoded
  <2>3. ob \in AnyObservation /\ ob.size <= Matched(o)
    BY PayloadFields, PayloadSize DEF Accounting
  <2>4. thread'[t].o = o /\ thread'[t].seen = ob
    BY <2>2, <2>3, DecodedFields
  <2>5. Matched(o)' = Matched(o) /\ o = x
    BY <2>2, <2>4, ExecStays DEF Accounting
  <2>. HIDE DEF Matched
  <2>. QED BY <2>3, <2>4, <2>5
<1>5. ASSUME NEW o \in Order, ObserveWallet(t, o) PROVE FALSE
  <2>1. /\ thread'[t] = Decoded(o, WalletReading(o)) /\ baseline[o] # NoBaseline
    BY <1>5 DEF ObserveWallet, Decode, Decoded
  <2>2. WalletReading(o) \in AnyObservation /\ WalletReading(o).source = "wallet"
    BY <2>1, ReadingTyped DEF Accounting
  <2>3. thread'[t].seen = WalletReading(o)
    BY <2>1, <2>2, DecodedFields
  <2>. QED BY <2>2, <2>3
<1>6. \/ thread'[t] = thread[t] \/ ApplyObservation(t) \/ FlagOverfill(t)
      \/ \E o \in Order : ObserveOrderPayload(t, o) \/ ObserveWallet(t, o)
  <2>1. ASSUME NEW v \in Thread, v # t,
               \/ ApplyObservation(v) \/ FlagOverfill(v)
               \/ \E o \in Order : ObserveOrderPayload(v, o) \/ ObserveWallet(v, o)
        PROVE  thread'[t] = thread[t]
    BY <2>1 DEF ApplyObservation, FlagOverfill, ObserveOrderPayload, ObserveWallet, Decode
  <2>. QED BY <2>1 DEF Next, vars, Submit, VenueMatch, Inflow, RegisterOrder,
                       ObserveWalletUnattributed, Resolve, Prune
<1>. HIDE DEF Matched
<1>. QED BY <1>2, <1>3, <1>4, <1>5, <1>6

LEMMA FlaggedStep ==
    ASSUME ~RepeatedRows, Accounting, ReportsMatched, \A o \in Order : FlaggedAt(o), [Next]_vars
    PROVE  \A o \in Order : FlaggedAt(o)'
<1>. /\ ledger \in [Order -> AnyRow] /\ thread \in [Thread -> AnyThreadState]
  BY DEF Accounting, Typing
<1> SUFFICES ASSUME NEW o \in Order, NEW ob \in ledger'[o].seen, ob.size > Requested
             PROVE  \/ "walletOverfill" \in ledger'[o].anomalies
                    \/ \E t \in Thread : thread'[t].pc = "applied" /\ thread'[t].o = o
  BY DEF FlaggedAt
<1>1. ledger[o] \in AnyRow
  OBVIOUS
<1>2. CASE UNCHANGED <<ledger, thread>>
  BY <1>2 DEF FlaggedAt
<1>3. ASSUME NEW x \in Order, RegisterOrder(x) \/ Prune(x)
      PROVE  \/ "walletOverfill" \in ledger'[o].anomalies
             \/ \E t \in Thread : thread'[t].pc = "applied" /\ thread'[t].o = o
  <2>1. ledger'[o] = ledger[o] \/ ledger'[o].seen = {}
    <3>1. NoRow.seen = {} /\ FreshRow.seen = {}
      BY DEF NoRow, FreshRow
    <3>. QED BY <1>3, <3>1 DEF RegisterOrder, Prune
  <2>2. thread' = thread
    BY <1>3 DEF RegisterOrder, Prune
  <2>. QED BY <2>1, <2>2 DEF FlaggedAt
<1>4. ASSUME NEW x \in Order, ObserveWalletUnattributed(x) \/ Resolve(x)
      PROVE  \/ "walletOverfill" \in ledger'[o].anomalies
             \/ \E t \in Thread : thread'[t].pc = "applied" /\ thread'[t].o = o
  <2> DEFINE u == [ledger[o] EXCEPT !.anomalies = @ \cup {"noBaseline"}]
             w == [ledger[o] EXCEPT !.resolved = TRUE]
  <2>1. /\ u.seen = ledger[o].seen /\ ledger[o].anomalies \subseteq u.anomalies
        /\ w.seen = ledger[o].seen /\ w.anomalies = ledger[o].anomalies
    BY <1>1 DEF AnyRow
  <2>2. ledger'[o] = ledger[o] \/ ledger'[o] = u \/ ledger'[o] = w
    BY <1>4 DEF ObserveWalletUnattributed, Resolve
  <2>. HIDE DEF u, w
  <2>3. ledger'[o].seen = ledger[o].seen /\ ledger[o].anomalies \subseteq ledger'[o].anomalies
    BY <2>1, <2>2
  <2>4. thread' = thread
    BY <1>4 DEF ObserveWalletUnattributed, Resolve
  <2>. QED BY <2>3, <2>4 DEF FlaggedAt
<1>5. ASSUME NEW t \in Thread, NEW x \in Order, ObserveOrderPayload(t, x) \/ ObserveWallet(t, x)
      PROVE  \/ "walletOverfill" \in ledger'[o].anomalies
             \/ \E v \in Thread : thread'[v].pc = "applied" /\ thread'[v].o = o
  <2>1. /\ ledger' = ledger /\ thread[t].pc = "idle"
        /\ \A v \in Thread : v # t => thread'[v] = thread[v]
    BY <1>5 DEF ObserveOrderPayload, ObserveWallet, MayObserve, Decode
  <2>. QED BY <2>1 DEF FlaggedAt
<1>6. ASSUME NEW t \in Thread, FlagOverfill(t)
      PROVE  \/ "walletOverfill" \in ledger'[o].anomalies
             \/ \E v \in Thread : thread'[v].pc = "applied" /\ thread'[v].o = o
  <2>1. \A v \in Thread : v # t => thread'[v] = thread[v]
    BY <1>6 DEF FlagOverfill
  <2>2. CASE o = thread[t].o
    <3>1. thread[t].row \in AnyRow
      BY DEF AnyThreadState
    <3>2. ledger'[o] = Flagged(thread[t].row)
      BY <1>6, <2>2 DEF FlagOverfill
    <3>. QED BY <3>1, <3>2, FlaggedFields
  <2>3. CASE o # thread[t].o
    <3>1. ledger'[o] = ledger[o]
      BY <1>6, <2>3 DEF FlagOverfill
    <3>. QED BY <2>1, <2>3, <3>1 DEF FlaggedAt
  <2>. QED BY <2>2, <2>3
<1>7. ASSUME NEW t \in Thread, ApplyObservation(t)
      PROVE  \/ "walletOverfill" \in ledger'[o].anomalies
             \/ \E v \in Thread : thread'[v].pc = "applied" /\ thread'[v].o = o
  <2> DEFINE x == thread[t].o
             new == thread[t].seen
             row == IF Seen(ledger[x], new) THEN ledger[x] ELSE Updated(ledger[x], new)
             held == [thread[t] EXCEPT !.pc = "applied", !.row = row]
             overfill == new.source = "wallet" /\ new.size > Requested
  <2>1. /\ x \in Order /\ new \in AnyObservation /\ ledger[x] \in AnyRow
        /\ thread[t] \in AnyThreadState
    BY DEF AnyThreadState
  <2>2. /\ thread[t].pc = "decoded"
        /\ \/ /\ ledger' = [ledger EXCEPT ![x] = row]
              /\ thread' = [thread EXCEPT ![t] = IF overfill THEN held ELSE Idle]
           \/ ledger' = ledger /\ thread' = [thread EXCEPT ![t] = Idle]
    BY <1>7 DEF ApplyObservation
  <2>3. row.seen \subseteq ledger[x].seen \cup {new} /\ ledger[x].anomalies \subseteq row.anomalies
    <3>1. /\ Updated(ledger[x], new).seen = ledger[x].seen \cup {new}
          /\ ledger[x].anomalies \subseteq Updated(ledger[x], new).anomalies
      BY <2>1, UpdatedFields
    <3>. QED BY <3>1
  <2>4. held.pc = "applied" /\ held.o = x
    <3>. HIDE DEF row
    <3>. QED BY <2>1 DEF AnyThreadState
  <2>5. \A v \in Thread : v # t => thread'[v] = thread[v]
    BY <2>2
  <2>6. CASE ob \in ledger[o].seen
    <3>1. ledger[o].anomalies \subseteq ledger'[o].anomalies
      <4>. HIDE DEF row, held, overfill
      <4>. QED BY <2>1, <2>2, <2>3
    <3>. QED BY <2>2, <2>5, <2>6, <3>1 DEF FlaggedAt
  <2>7. CASE ob \notin ledger[o].seen
    <3>1. o = x /\ ob = new /\ thread' = [thread EXCEPT ![t] = IF overfill THEN held ELSE Idle]
      <4>. HIDE DEF row, held, overfill, x, new
      <4>. QED BY <2>1, <2>2, <2>3, <2>7
    <3>2. new.source = "wallet"
      <4>1. new.source = "venue" => new.size <= Matched(x)
        BY <2>1, <2>2 DEF ReportsMatched
      <4>2. Matched(x) <= Requested /\ Matched(x) \in Nat /\ Requested \in Nat
        <5>1. Matched(x) \in 0..Requested
          BY <2>1, MatchedTyped DEF Accounting
        <5>. HIDE DEF Matched, x
        <5>. QED BY <5>1, FillSizesAssumption
      <4>3. new.size \in Nat /\ new.source \in {"venue", "wallet"}
        BY <2>1 DEF AnyObservation
      <4>. HIDE DEF Matched, x, new
      <4>. QED BY <3>1, <4>1, <4>2, <4>3
    <3>3. thread'[t] = held
      BY <3>1, <3>2
    <3>. HIDE DEF held, x
    <3>. QED BY <2>4, <3>1, <3>3
  <2>. QED BY <2>6, <2>7
<1>. QED BY <1>2, <1>3, <1>4, <1>5, <1>6, <1>7 DEF Next, vars, Submit, VenueMatch, Inflow

\* The venue reports no more than it matched, and every overfill is flagged or about to be.
LEMMA FlaggedHolds == ASSUME ~RepeatedRows PROVE Spec => [](Accounting /\ FlaggedInv)
<1>1. FlaggedInv <=> ReportsMatched /\ \A o \in Order : FlaggedAt(o)
  BY DEF FlaggedInv, ReportsMatched, FlaggedAt
<1>2. ASSUME Init PROVE FlaggedInv
  <2>1. \A t \in Thread : thread[t].pc = "idle"
    BY <1>2, IdleTyped DEF Init
  <2>2. \A o \in Order : ledger[o].seen = {}
    BY <1>2 DEF Init, NoRow
  <2>. QED BY <2>1, <2>2 DEF FlaggedInv
<1>3. ASSUME Accounting, FlaggedInv, [Next]_vars PROVE FlaggedInv'
  <2>1. ReportsMatched'
    BY <1>1, <1>3, ReportsMatchedStep
  <2>2. \A o \in Order : FlaggedAt(o)'
    BY <1>1, <1>3, FlaggedStep
  <2>. QED BY <2>1, <2>2 DEF FlaggedInv, ReportsMatched, FlaggedAt
<1>. QED BY <1>2, <1>3, AccountingHolds, PTL DEF Spec

\* An inventory gain above the request is neither hidden nor cut, for any number of
\* threads, as long as no response lists one execution twice.
THEOREM OverfillKeptHolds == ASSUME ~RepeatedRows PROVE Spec => []OverfillKept
<1>1. ASSUME Accounting, FlaggedInv PROVE OverfillKept
  <2> SUFFICES ASSUME NEW o \in Order, NEW ob \in ledger[o].seen, ob.size > Requested,
                      \A t \in Thread : thread[t].pc # "applied"
               PROVE  /\ ledger[o].confirmed >= ob.size
                      /\ {"exceedsRequest", "walletOverfill"} \subseteq ledger[o].anomalies
    BY DEF OverfillKept
  <2>1. ledger[o] \in AnyRow /\ RowCounted(ledger[o])
    BY <1>1 DEF Accounting, Typing, CountedInv
  <2>2. ledger[o].confirmed \in Nat /\ ob.size \in Nat /\ Requested \in Nat
    BY <2>1, FillSizesAssumption DEF AnyRow, AnyObservation
  <2>3. ledger[o].confirmed >= ob.size
    BY <2>1 DEF RowCounted
  <2>4. "exceedsRequest" \in ledger[o].anomalies
    BY <2>1, <2>2, <2>3 DEF RowCounted
  <2>5. "walletOverfill" \in ledger[o].anomalies
    BY <1>1 DEF FlaggedInv
  <2>. QED BY <2>3, <2>4, <2>5
<1>. QED BY <1>1, FlaggedHolds, PTL

-----------------------------------------------------------------------------
(* Nothing is claimed that did not happen *)

\* The venue names every execution and lists none twice in a response.
Trustworthy == NativeIds /\ ~RepeatedRows

\* Named fills are a part of what was executed.
LEMMA FillsAreExecutions ==
    ASSUME Typing, NEW o \in Order, NEW fs \in SUBSET Fill, IsFiniteSet(fs),
           fs \subseteq ExecutedFills(o), NEW ks, ks = {f.id.k : f \in fs}
    PROVE  /\ ks \in SUBSET DOMAIN exec[o]
           /\ Total(fs) = Executed(o, ks) /\ TotalCost(fs) = Cost(o, ks)
           /\ Total(fs) \in Nat /\ Total(fs) <= Matched(o)
<1> DEFINE h == [f \in fs |-> f.id.k]
           t == [f \in fs |-> f.size]
           c == [f \in fs |-> f.size * f.price]
<1>1. \A f \in fs : /\ f.id.k \in DOMAIN exec[o] /\ f.size = exec[o][f.id.k].size
                    /\ f.price = exec[o][f.id.k].price
                    /\ f = Listed(exec[o], f.id.k)
  BY DEF ExecutedFills, Listed
<1>2. \A k \in DOMAIN exec[o] :
         /\ Sizes(o)[k] = exec[o][k].size /\ Sizes(o)[k] \in Int
         /\ Costs(o)[k] = exec[o][k].size * exec[o][k].price /\ Costs(o)[k] \in Int
  <2>1. exec[o] \in Seq(Execution) /\ Sizes(o) = SizesOf(exec[o]) /\ Costs(o) = CostsOf(exec[o])
    BY MatchedTyped
  <2>. QED BY <2>1, ExecutionsTyped
<1>3. \A f, g \in fs : h[f] = h[g] => f = g
  BY <1>1
<1>4. /\ \A f \in fs : t[f] \in Int /\ Sizes(o)[h[f]] = t[f]
      /\ \A f \in fs : c[f] \in Int /\ Costs(o)[h[f]] = c[f]
      /\ DOMAIN t = fs /\ DOMAIN c = fs
  BY <1>1, <1>2
<1>5. ks = {h[f] : f \in fs} /\ ks \in SUBSET DOMAIN exec[o]
  BY <1>1
<1>6. /\ SumFunctionOnSet(t, fs) = SumFunctionOnSet(Sizes(o), ks)
      /\ SumFunctionOnSet(c, fs) = SumFunctionOnSet(Costs(o), ks)
  <2>. HIDE DEF t, c, h
  <2>1. SumFunctionOnSet(t, fs) = SumFunctionOnSet(Sizes(o), {h[f] : f \in fs})
    BY <1>3, <1>4, SumImage
  <2>2. SumFunctionOnSet(c, fs) = SumFunctionOnSet(Costs(o), {h[f] : f \in fs})
    BY <1>3, <1>4, SumImage
  <2>. QED BY <1>5, <2>1, <2>2
<1>7. Total(fs) = Executed(o, ks) /\ TotalCost(fs) = Cost(o, ks)
  BY <1>4, <1>6 DEF Total, TotalCost, SumFunction, Executed, Cost
<1>8. Executed(o, ks) \in Nat /\ Executed(o, ks) <= Matched(o)
  BY <1>5, MatchedTyped
<1>. QED BY <1>5, <1>7, <1>8

LEMMA PayloadTrue ==
    ASSUME Typing, Trustworthy, NEW o \in Order, NEW ob \in Payloads(o)
    PROVE  ObservationTrue(o, ob)
<1>1. PICK n \in 0..Len(exec[o]), priced \in BOOLEAN, alias \in Alias, s \in Listings(o) :
         /\ ob.source = "venue" /\ ob.fills = Fills(o, alias, s)
         /\ ob.size = IF n > 0 THEN Executed(o, 1..n) ELSE RowTotal(o, s)
         /\ ob.covered = IF priced /\ n > 0 THEN Executed(o, 1..n) ELSE RowTotal(o, s)
         /\ ob.notional = IF priced /\ n > 0 THEN Cost(o, 1..n) ELSE RowCost(o, s)
         /\ 1..n \in SUBSET DOMAIN exec[o]
         /\ ob \in AnyObservation
  BY PayloadFields
<1> DEFINE ks == {s[i] : i \in DOMAIN s}
<1>2. ks \in SUBSET DOMAIN exec[o] /\ RowTotal(o, s) = Executed(o, ks) /\ RowCost(o, s) = Cost(o, ks)
  BY ListingSums DEF Trustworthy
<1>3. /\ \A i \in DOMAIN s : s[i] \in DOMAIN exec[o]
      /\ ob.fills = {Listed(exec[o], s[i]) : i \in DOMAIN s}
  <2>1. \A i \in DOMAIN s : s[i] \in DOMAIN exec[o]
    BY ListingTyped
  <2>2. Fills(o, alias, s) = {Listed(exec[o], s[i]) : i \in DOMAIN s}
    BY DEF Fills, RowEvidenceId, Trustworthy, Listed
  <2>. QED BY <1>1, <2>1, <2>2
<1>4. ob.fills \subseteq ExecutedFills(o) /\ ks = {f.id.k : f \in ob.fills}
  <2>1. \A k : Listed(exec[o], k).id.k = k
    BY DEF Listed
  <2>2. ks = {f.id.k : f \in ob.fills}
    BY <1>3, <2>1
  <2>3. ob.fills \subseteq ExecutedFills(o)
    BY <1>3 DEF Listed, ExecutedFills
  <2>. QED BY <2>2, <2>3
<1>5. Total(ob.fills) = Executed(o, ks) /\ Total(ob.fills) \in Nat
  <2>1. ob.fills \in SUBSET Fill /\ IsFiniteSet(ob.fills)
    BY <1>1, ListedFillsTyped
  <2>. HIDE DEF ks
  <2>. QED BY <1>4, <2>1, FillsAreExecutions
<1>6. ob.size <= Matched(o)
  BY PayloadSize DEF Trustworthy
<1>7. Priced(o, ob)
  <2>1. CASE priced /\ n > 0
    BY <1>1, <2>1 DEF Priced
  <2>2. CASE ~(priced /\ n > 0)
    <3>. HIDE DEF ks
    <3>. QED BY <1>1, <1>2, <2>2 DEF Priced
  <2>. QED BY <2>1, <2>2
<1>8. ob.covered <= Larger(ob.size, Total(ob.fills))
  <2>1. ob.size \in Nat
    BY <1>1 DEF AnyObservation
  <2>2. ob.covered = ob.size \/ ob.covered = Total(ob.fills)
    BY <1>1, <1>2, <1>5
  <2>3. ob.size <= Larger(ob.size, Total(ob.fills)) /\ Total(ob.fills) <= Larger(ob.size, Total(ob.fills))
    BY <1>5, <2>1, LargerNat
  <2>. QED BY <2>2, <2>3
<1>. QED BY <1>1, <1>4, <1>6, <1>7, <1>8 DEF ObservationTrue

LEMMA ReadingTrue ==
    ASSUME Typing, NEW o \in Order, baseline[o] # NoBaseline
    PROVE  ObservationTrue(o, WalletReading(o))
<1> DEFINE ob == WalletReading(o)
<1>1. /\ ob \in AnyObservation /\ ob.source = "wallet" /\ ob.size = WalletDelta(o)
      /\ ob.fills = {} /\ ob.covered = 0 /\ ob.notional = 0
  BY ReadingTyped
<1>2. ob.size \in Nat
  BY <1>1 DEF AnyObservation
<1>3. Gained(o) = ob.size
  BY <1>1 DEF Gained
<1>4. Priced(o, ob)
  <2>1. Executed(o, {}) = 0 /\ Cost(o, {}) = 0
    BY SumEmpty DEF Executed, Cost
  <2>. HIDE DEF ob
  <2>. QED BY <1>1, <2>1 DEF Priced
<1>5. ob.covered <= Larger(ob.size, Total(ob.fills))
  <2>1. Larger(ob.size, Total(ob.fills)) \in Nat
    BY <1>1, <1>2, EmptyTotal, LargerNat
  <2>. QED BY <1>1, <2>1
<1>. HIDE DEF ob
<1>6. ob.size <= Gained(o)
  BY <1>2, <1>3
<1>7. ObservationTrue(o, ob)
  BY <1>1, <1>4, <1>5, <1>6 DEF ObservationTrue
<1>. QED BY <1>7 DEF ob

LEMMA LimitTyped ==
    ASSUME Typing, NEW o \in Order
    PROVE  /\ Gained(o) \in 0..Wallet /\ Limit(o) \in 0..Wallet
           /\ Matched(o) <= Limit(o) /\ Gained(o) <= Limit(o)
           /\ Matched(o) \in Nat /\ Wallet \in Nat
<1>1. /\ Wallet \in 0..(MaxInflow + Requested * Cardinality(Order)) /\ Matched(o) <= Wallet
      /\ WalletDelta(o) \in 0..Wallet \/ baseline[o] = NoBaseline
  BY WalletTyped
<1>2. Matched(o) \in 0..Requested
  BY MatchedTyped
<1>. HIDE DEF Matched, Wallet, WalletDelta
<1>3. Matched(o) \in Nat /\ Wallet \in Nat
  BY <1>1, <1>2
<1>4. Gained(o) \in 0..Wallet
  BY <1>1, <1>3 DEF Gained
<1>5. Limit(o) = Matched(o) \/ Limit(o) = Gained(o)
  BY DEF Limit, Larger
<1>6. Gained(o) \in Nat
  BY <1>3, <1>4
<1>7. Matched(o) <= Limit(o) /\ Gained(o) <= Limit(o)
  BY <1>3, <1>6, LargerNat DEF Limit
<1>. QED BY <1>1, <1>3, <1>4, <1>5, <1>7

\* What is observed stays within what happened.
LEMMA UpdatedTrue ==
    ASSUME Typing, NEW o \in Order, NEW r \in AnyRow, NEW ob \in AnyObservation,
           RowTrue(o, r), ObservationTrue(o, ob), NEW u, u = Updated(r, ob)
    PROVE  RowTrue(o, u)
<1> DEFINE fs == Merged(r, ob)
           total == Total(fs)
           a == Larger(r.confirmed, ob.size)
           b == Larger(r.observed, ob.size)
           limit == Limit(o)
<1>1. /\ u.fills = fs /\ u.seen = r.seen \cup {ob}
      /\ u.observed = Larger(b, total) /\ u.confirmed = Larger(a, total)
      /\ u.covered = ChoosePrice(r, ob, fs)[1] /\ u.notional = ChoosePrice(r, ob, fs)[2]
      /\ u \in AnyRow
  BY UpdatedFields
<1>2. /\ fs \in SUBSET Fill /\ IsFiniteSet(fs) /\ r.fills \subseteq fs
      /\ fs \subseteq r.fills \cup ob.fills
  BY MergedTyped
<1>3. fs \subseteq ExecutedFills(o)
  BY <1>2 DEF RowTrue, ObservationTrue
<1>4. ob.fills \subseteq fs
  <2>1. \A f, g \in ExecutedFills(o) : f.id = g.id => f = g
    BY DEF ExecutedFills
  <2>. QED BY <2>1 DEF RowTrue, ObservationTrue, Merged, Known
<1>5. /\ limit \in Nat /\ Matched(o) <= limit /\ Gained(o) <= limit
      /\ Matched(o) \in Nat /\ Gained(o) \in Nat
  <2>1. /\ Gained(o) \in 0..Wallet /\ Limit(o) \in 0..Wallet
        /\ Matched(o) <= Limit(o) /\ Gained(o) <= Limit(o)
        /\ Matched(o) \in Nat /\ Wallet \in Nat
    BY LimitTyped
  <2>. HIDE DEF Gained, Limit, Matched, Wallet
  <2>. QED BY <2>1
<1>6. /\ r.confirmed \in Nat /\ r.observed \in Nat /\ ob.size \in Nat /\ ob.covered \in Nat
      /\ \A x \in r.seen : x.covered \in Nat
  BY DEF AnyRow, AnyObservation
<1> DEFINE ks == {f.id.k : f \in fs}
<1>7. /\ ks \in SUBSET DOMAIN exec[o] /\ total = Executed(o, ks) /\ TotalCost(fs) = Cost(o, ks)
      /\ total \in Nat /\ total <= Matched(o)
  <2>. HIDE DEF fs
  <2>. QED BY <1>2, <1>3, FillsAreExecutions
<1>8. r.confirmed <= limit /\ r.observed <= limit /\ ob.size <= limit
  <2>1. r.confirmed <= limit /\ r.observed <= limit
    BY DEF RowTrue
  <2>2. ob.size <= Gained(o) \/ ob.size <= Matched(o)
    BY DEF ObservationTrue
  <2>. HIDE DEF limit, Gained, Matched
  <2>. QED BY <1>5, <1>6, <2>1, <2>2
<1>9. Total(ob.fills) \in Nat /\ Total(ob.fills) <= total
  <2>1. ob.fills \in SUBSET Fill /\ IsFiniteSet(ob.fills)
    BY DEF AnyObservation
  <2>2. Total(ob.fills) \in Nat
    BY <2>1, FillsTyped
  <2>. HIDE DEF fs
  <2>. QED BY <1>2, <1>4, <2>2, MoreFills
<1>10. /\ a \in Nat /\ b \in Nat /\ a <= limit /\ b <= limit /\ r.confirmed <= a /\ ob.size <= a
  <2>. HIDE DEF limit
  <2>. QED BY <1>5, <1>6, <1>8, LargerNat
<1>11. total <= limit
  <2>. HIDE DEF total, limit, Matched
  <2>. QED BY <1>5, <1>7
<1>12. /\ u.observed \in Nat /\ u.observed <= limit
       /\ u.confirmed \in Nat /\ u.confirmed <= limit /\ a <= u.confirmed /\ total <= u.confirmed
  <2>. HIDE DEF total, limit, a, b
  <2>1. /\ Larger(b, total) \in Nat /\ Larger(b, total) <= limit
        /\ Larger(a, total) \in Nat /\ Larger(a, total) <= limit
        /\ a <= Larger(a, total) /\ total <= Larger(a, total)
    BY <1>5, <1>7, <1>10, <1>11, LargerNat
  <2>. QED BY <1>1, <2>1
<1>13. ob.covered <= u.confirmed
  <2>1. ob.covered <= Larger(ob.size, Total(ob.fills))
    BY DEF ObservationTrue
  <2>2. ob.size <= u.confirmed /\ Total(ob.fills) <= u.confirmed
    <3>. HIDE DEF total, a, limit
    <3>. QED BY <1>6, <1>7, <1>9, <1>10, <1>12
  <2>3. Larger(ob.size, Total(ob.fills)) <= u.confirmed /\ Larger(ob.size, Total(ob.fills)) \in Nat
    BY <1>6, <1>9, <1>12, <2>2, LargerNat
  <2>. QED BY <1>6, <1>12, <2>1, <2>3
<1>14. r.confirmed <= u.confirmed
  <2>. HIDE DEF a
  <2>. QED BY <1>6, <1>10, <1>12
<1>15. Priced(o, u) /\ u.covered <= u.confirmed
  <2> DEFINE p == ChoosePrice(r, ob, fs)
  <2>1. \/ p = <<total, TotalCost(fs)>> \/ p = <<ob.covered, ob.notional>>
        \/ p = <<r.covered, r.notional>>
    <3>. HIDE DEF fs
    <3>. QED BY <1>2, ChoosePriceTyped
  <2>2. u.covered = p[1] /\ u.notional = p[2]
    BY <1>1
  <2>. HIDE DEF p, total, fs, ks, a, b, limit
  <2>3. CASE p = <<total, TotalCost(fs)>>
    <3>1. u.covered = total /\ u.notional = TotalCost(fs)
      BY <2>2, <2>3
    <3>. QED BY <1>7, <1>12, <3>1 DEF Priced
  <2>4. CASE p = <<ob.covered, ob.notional>>
    <3>1. u.covered = ob.covered /\ u.notional = ob.notional
      BY <2>2, <2>4
    <3>. QED BY <1>13, <3>1 DEF Priced, ObservationTrue
  <2>5. CASE p = <<r.covered, r.notional>>
    <3>1. u.covered = r.covered /\ u.notional = r.notional
      BY <2>2, <2>5
    <3>2. r.covered <= r.confirmed /\ r.covered \in Nat
      BY DEF RowTrue, AnyRow
    <3>3. u.covered <= u.confirmed
      BY <1>6, <1>12, <1>14, <3>1, <3>2
    <3>. QED BY <3>1, <3>3 DEF Priced, RowTrue
  <2>. QED BY <2>1, <2>3, <2>4, <2>5
<1>16. \A x \in u.seen : x.covered <= u.confirmed
  <2>1. \A x \in r.seen : x.covered <= r.confirmed
    BY DEF RowTrue
  <2>2. \A x \in r.seen : x.covered <= u.confirmed
    BY <1>6, <1>12, <1>14, <2>1
  <2>. QED BY <1>1, <1>13, <2>2
<1>. HIDE DEF fs, total, a, b
<1>. QED BY <1>1, <1>3, <1>12, <1>15, <1>16 DEF RowTrue

-----------------------------------------------------------------------------
(* What was true stays true *)

LEMMA WalletGrows ==
    ASSUME Typing, [Next]_vars
    PROVE  Wallet \in Nat /\ Wallet' \in Nat /\ Wallet <= Wallet'
<1> DEFINE f == [o \in Order |-> Matched(o)]
           g == [o \in Order |-> Matched(o)']
<1>1. \A o \in Order : Matched(o) \in Nat /\ Matched(o)' \in Nat /\ Matched(o) <= Matched(o)'
  BY ExecGrows DEF Grown
<1>2. Wallet = inflow + SumFunctionOnSet(f, Order) /\ Wallet' = inflow' + SumFunctionOnSet(g, Order)
  BY DEF Wallet, SumFunction
<1>3. inflow \in Nat /\ inflow' \in Nat /\ inflow <= inflow'
  <2>1. inflow \in Nat
    BY FillInflowAssumption DEF Typing
  <2>2. inflow' = inflow \/ inflow' = inflow + 1
    BY DEF Next, vars, Submit, VenueMatch, Inflow, RegisterOrder, ObserveWalletUnattributed,
           Resolve, Prune, ApplyObservation, FlagOverfill, ObserveOrderPayload, ObserveWallet, Decode
  <2>. QED BY <2>1, <2>2
<1>4. /\ IsFiniteSet(Order)
      /\ \A o \in Order : f[o] \in Nat /\ g[o] \in Nat /\ f[o] \in Int /\ g[o] \in Int /\ f[o] <= g[o]
  BY <1>1, FillOrdersAssumption
<1>. HIDE DEF f, g
<1>5. SumFunctionOnSet(f, Order) \in Nat /\ SumFunctionOnSet(g, Order) \in Nat
  BY <1>4, SumNat
<1>6. SumFunctionOnSet(f, Order) <= SumFunctionOnSet(g, Order)
  BY <1>4, SumGrows
<1>. HIDE DEF Wallet
<1>. QED BY <1>2, <1>3, <1>5, <1>6

LEMMA GainedGrows ==
    ASSUME Accounting, [Next]_vars, NEW o \in Order
    PROVE  /\ Gained(o) \in Nat /\ Gained(o)' \in Nat /\ Gained(o) <= Gained(o)'
           /\ Limit(o) \in Nat /\ Limit(o)' \in Nat /\ Limit(o) <= Limit(o)'
<1>1. Wallet \in Nat /\ Wallet' \in Nat /\ Wallet <= Wallet'
  BY WalletGrows DEF Accounting
<1>2. Matched(o) \in Nat /\ Matched(o)' \in Nat /\ Matched(o) <= Matched(o)'
  BY ExecGrows DEF Accounting, Grown
<1>3. /\ baseline[o] \in Nat \cup {NoBaseline} /\ baseline'[o] \in Nat \cup {NoBaseline}
      /\ baseline[o] # NoBaseline => baseline'[o] = baseline[o]
  <2>1. Typing'
    BY TypingStep DEF Accounting
  <2>. QED BY <2>1, BaselineStays DEF Accounting, Typing
<1>4. /\ Gained(o) = IF baseline[o] = NoBaseline THEN 0
                     ELSE IF Wallet > baseline[o] THEN Wallet - baseline[o] ELSE 0
      /\ Gained(o)' = IF baseline'[o] = NoBaseline THEN 0
                      ELSE IF Wallet' > baseline'[o] THEN Wallet' - baseline'[o] ELSE 0
  BY DEF Gained, WalletDelta
<1>. HIDE DEF Wallet, Matched, Gained
<1>5. Gained(o) \in Nat /\ Gained(o)' \in Nat /\ Gained(o) <= Gained(o)'
  BY <1>1, <1>3, <1>4
<1>6. /\ Limit(o) = IF Matched(o) >= Gained(o) THEN Matched(o) ELSE Gained(o)
      /\ Limit(o)' = IF Matched(o)' >= Gained(o)' THEN Matched(o)' ELSE Gained(o)'
  BY DEF Limit, Larger
<1>. QED BY <1>2, <1>5, <1>6

LEMMA PricedStays ==
    ASSUME Accounting, [Next]_vars, NEW o \in Order, NEW x, Priced(o, x)
    PROVE  Priced(o, x)'
<1>1. Grown(o)
  BY ExecGrows DEF Accounting
<1>2. PICK ks \in SUBSET DOMAIN exec[o] : Executed(o, ks) = x.covered /\ Cost(o, ks) = x.notional
  BY DEF Priced
<1>3. /\ ks \in SUBSET DOMAIN exec'[o]
      /\ Executed(o, ks)' = x.covered /\ Cost(o, ks)' = x.notional
  BY <1>1, <1>2 DEF Grown
<1>. QED BY <1>3 DEF Priced

LEMMA ExecutedFillsStay ==
    ASSUME Accounting, [Next]_vars, NEW o \in Order
    PROVE  ExecutedFills(o) \subseteq ExecutedFills(o)'
<1>1. Grown(o)
  BY ExecGrows DEF Accounting
<1>2. DOMAIN exec[o] \subseteq DOMAIN exec'[o] /\ \A k \in DOMAIN exec[o] : exec'[o][k] = exec[o][k]
  BY <1>1 DEF Grown
<1>. QED BY <1>2 DEF ExecutedFills

LEMMA TruthStays ==
    ASSUME Accounting, [Next]_vars, NEW o \in Order
    PROVE  /\ \A r \in AnyRow : RowTrue(o, r) => RowTrue(o, r)'
           /\ \A ob \in AnyObservation : ObservationTrue(o, ob) => ObservationTrue(o, ob)'
<1>1. ExecutedFills(o) \subseteq ExecutedFills(o)'
  BY ExecutedFillsStay
<1>2. /\ Gained(o) \in Nat /\ Gained(o)' \in Nat /\ Gained(o) <= Gained(o)'
      /\ Limit(o) \in Nat /\ Limit(o)' \in Nat /\ Limit(o) <= Limit(o)'
  BY GainedGrows
<1>3. Matched(o) \in Nat /\ Matched(o)' \in Nat /\ Matched(o) <= Matched(o)'
  BY ExecGrows DEF Accounting, Grown
<1>. HIDE DEF Limit, Gained, Matched, ExecutedFills
<1>4. ASSUME NEW r \in AnyRow, RowTrue(o, r) PROVE RowTrue(o, r)'
  <2>1. r.observed \in Nat /\ r.confirmed \in Nat
    BY DEF AnyRow
  <2>2. r.observed <= Limit(o) /\ r.confirmed <= Limit(o)
    BY <1>4 DEF RowTrue
  <2>3. r.observed <= Limit(o)' /\ r.confirmed <= Limit(o)'
    BY <1>2, <2>1, <2>2
  <2>4. r.fills \subseteq ExecutedFills(o)'
    BY <1>1, <1>4 DEF RowTrue
  <2>5. Priced(o, r)'
    BY <1>4, PricedStays DEF RowTrue
  <2>6. r.covered <= r.confirmed /\ \A ob \in r.seen : ob.covered <= r.confirmed
    BY <1>4 DEF RowTrue
  <2>. QED BY <2>3, <2>4, <2>5, <2>6 DEF RowTrue
<1>5. ASSUME NEW ob \in AnyObservation, ObservationTrue(o, ob) PROVE ObservationTrue(o, ob)'
  <2>1. ob.size \in Nat
    BY DEF AnyObservation
  <2>2. ob.size <= IF ob.source = "wallet" THEN Gained(o) ELSE Matched(o)
    BY <1>5 DEF ObservationTrue
  <2>3. ob.size <= IF ob.source = "wallet" THEN Gained(o)' ELSE Matched(o)'
    BY <1>2, <1>3, <2>1, <2>2
  <2>4. ob.fills \subseteq ExecutedFills(o)'
    BY <1>1, <1>5 DEF ObservationTrue
  <2>5. Priced(o, ob)'
    BY <1>5, PricedStays DEF ObservationTrue
  <2>6. ob.covered <= Larger(ob.size, Total(ob.fills))
    BY <1>5 DEF ObservationTrue
  <2>. QED BY <2>3, <2>4, <2>5, <2>6 DEF ObservationTrue
<1>. QED BY <1>4, <1>5
-----------------------------------------------------------------------------
(* Rows and observations are true *)

LedgerTrue == \A o \in Order : \A r \in AnyRow : r = ledger[o] => RowTrue(o, r)
SeenTrue == \A t \in Thread, o \in Order : \A ob \in AnyObservation :
    thread[t].pc # "idle" /\ thread[t].o = o /\ thread[t].seen = ob => ObservationTrue(o, ob)
HeldTrue == \A t \in Thread, o \in Order : \A r \in AnyRow :
    thread[t].pc = "applied" /\ thread[t].o = o /\ thread[t].row = r => RowTrue(o, r)
AllTrue == LedgerTrue /\ SeenTrue /\ HeldTrue

LEMMA AllTrueIsTruth == Typing => (AllTrue <=> TruthInv)
<1> SUFFICES ASSUME Typing PROVE AllTrue <=> TruthInv
  OBVIOUS
<1>1. /\ \A o \in Order : ledger[o] \in AnyRow
      /\ \A t \in Thread : thread[t].seen \in AnyObservation /\ thread[t].row \in AnyRow
  BY DEF Typing, AnyThreadState
<1>. QED BY <1>1 DEF AllTrue, LedgerTrue, SeenTrue, HeldTrue, TruthInv

LEMMA NewRowTrue ==
    ASSUME Typing, NEW o \in Order
    PROVE  RowTrue(o, NoRow) /\ RowTrue(o, FreshRow)
<1>1. Executed(o, {}) = 0 /\ Cost(o, {}) = 0
  BY SumEmpty DEF Executed, Cost
<1>2. Limit(o) \in Nat
  <2>1. Limit(o) \in 0..Wallet /\ Wallet \in Nat
    BY LimitTyped
  <2>. HIDE DEF Limit, Wallet
  <2>. QED BY <2>1
<1>. HIDE DEF Limit
<1>3. ASSUME NEW r, r = NoRow \/ r = FreshRow PROVE RowTrue(o, r)
  <2>1. /\ r.fills = {} /\ r.observed = 0 /\ r.confirmed = 0 /\ r.covered = 0
        /\ r.notional = 0 /\ r.seen = {}
    BY <1>3 DEF NoRow, FreshRow
  <2>. QED BY <1>1, <1>2, <2>1 DEF RowTrue, Priced
<1>. QED BY <1>3

\* Remarks tell nothing.
LEMMA RemarkedTrue ==
    ASSUME NEW o, NEW r, NEW u, RowTrue(o, r), u.fills = r.fills, u.observed = r.observed,
           u.confirmed = r.confirmed, u.covered = r.covered, u.notional = r.notional,
           u.seen = r.seen
    PROVE  RowTrue(o, u)
BY DEF RowTrue, Priced

\* A row written by a step is true when it is written.
LEMMA WrittenTrue ==
    ASSUME Trustworthy, Accounting, AllTrue, [Next]_vars, NEW x \in Order
    PROVE  RowTrue(x, ledger'[x])
<1>. /\ ledger \in [Order -> AnyRow] /\ thread \in [Thread -> AnyThreadState]
  BY DEF Accounting, Typing
<1>1. ledger[x] \in AnyRow /\ RowTrue(x, ledger[x])
  BY DEF AllTrue, LedgerTrue
<1>2. CASE ledger'[x] = ledger[x]
  BY <1>1, <1>2
<1>3. CASE ledger'[x] = NoRow \/ ledger'[x] = FreshRow
  BY <1>3, NewRowTrue DEF Accounting
<1>4. CASE \/ ledger'[x] = [ledger[x] EXCEPT !.anomalies = @ \cup {"noBaseline"}]
           \/ ledger'[x] = [ledger[x] EXCEPT !.resolved = TRUE]
  <2> DEFINE u == [ledger[x] EXCEPT !.anomalies = @ \cup {"noBaseline"}]
             w == [ledger[x] EXCEPT !.resolved = TRUE]
             r == ledger[x]
  <2>1. /\ u.fills = r.fills /\ u.observed = r.observed /\ u.confirmed = r.confirmed
        /\ u.covered = r.covered /\ u.notional = r.notional /\ u.seen = r.seen
    BY <1>1 DEF AnyRow
  <2>2. /\ w.fills = r.fills /\ w.observed = r.observed /\ w.confirmed = r.confirmed
        /\ w.covered = r.covered /\ w.notional = r.notional /\ w.seen = r.seen
    BY <1>1 DEF AnyRow
  <2>. HIDE DEF u, w
  <2>3. RowTrue(x, u)
    BY <1>1, <2>1, RemarkedTrue
  <2>4. RowTrue(x, w)
    BY <1>1, <2>2, RemarkedTrue
  <2>. QED BY <1>4, <2>3, <2>4 DEF u, w
<1>5. ASSUME NEW t \in Thread, ApplyObservation(t) PROVE RowTrue(x, ledger'[x])
  <2> DEFINE o == thread[t].o
             ob == thread[t].seen
             row == IF Seen(ledger[o], ob) THEN ledger[o] ELSE Updated(ledger[o], ob)
  <2>1. o \in Order /\ ob \in AnyObservation /\ thread[t].pc # "idle"
    BY <1>5 DEF AnyThreadState, ApplyObservation
  <2>2. ObservationTrue(o, ob) /\ RowTrue(o, ledger[o]) /\ ledger[o] \in AnyRow
    BY <2>1 DEF AllTrue, SeenTrue, LedgerTrue
  <2>3. RowTrue(o, row)
    BY <2>1, <2>2, UpdatedTrue DEF Accounting
  <2>4. ledger' = [ledger EXCEPT ![o] = row] \/ ledger' = ledger
    BY <1>5 DEF ApplyObservation
  <2>. HIDE DEF row, o
  <2>5. ledger'[x] = ledger[x] \/ (x = o /\ ledger'[x] = row)
    BY <2>4
  <2>. QED BY <1>1, <2>3, <2>5
<1>6. ASSUME NEW t \in Thread, FlagOverfill(t) PROVE RowTrue(x, ledger'[x])
  <2> DEFINE o == thread[t].o
             r == thread[t].row
             u == Flagged(r)
  <2>1. o \in Order /\ r \in AnyRow /\ thread[t].pc = "applied"
    BY <1>6 DEF AnyThreadState, FlagOverfill
  <2>2. RowTrue(o, r)
    BY <2>1 DEF AllTrue, HeldTrue
  <2>3. /\ u.observed = r.observed /\ u.confirmed = r.confirmed /\ u.covered = r.covered
        /\ u.notional = r.notional /\ u.fills = r.fills /\ u.seen = r.seen
    BY <2>1, FlaggedFields
  <2>4. ledger' = [ledger EXCEPT ![o] = u]
    BY <1>6 DEF FlagOverfill
  <2>. HIDE DEF o, r, u
  <2>5. RowTrue(o, u)
    BY <2>2, <2>3, RemarkedTrue
  <2>6. ledger'[x] = ledger[x] \/ (x = o /\ ledger'[x] = u)
    BY <2>4
  <2>. QED BY <1>1, <2>5, <2>6
<1>7. \/ \E t \in Thread : ApplyObservation(t) \/ FlagOverfill(t)
      \/ ledger'[x] = ledger[x] \/ ledger'[x] = NoRow \/ ledger'[x] = FreshRow
      \/ ledger'[x] = [ledger[x] EXCEPT !.anomalies = @ \cup {"noBaseline"}]
      \/ ledger'[x] = [ledger[x] EXCEPT !.resolved = TRUE]
  <2>1. CASE ledger' = ledger
    BY <2>1
  <2>2. ASSUME NEW o \in Order, RegisterOrder(o) \/ Prune(o)
        PROVE  ledger'[x] = ledger[x] \/ ledger'[x] = NoRow \/ ledger'[x] = FreshRow
    BY <2>2 DEF RegisterOrder, Prune
  <2>3. ASSUME NEW o \in Order, ObserveWalletUnattributed(o) \/ Resolve(o)
        PROVE  \/ ledger'[x] = ledger[x]
               \/ ledger'[x] = [ledger[x] EXCEPT !.anomalies = @ \cup {"noBaseline"}]
               \/ ledger'[x] = [ledger[x] EXCEPT !.resolved = TRUE]
    <3>1. CASE o = x
      BY <2>3, <3>1 DEF ObserveWalletUnattributed, Resolve
    <3>2. CASE o # x
      BY <2>3, <3>2 DEF ObserveWalletUnattributed, Resolve
    <3>. QED BY <3>1, <3>2
  <2>4. \/ ledger' = ledger
        \/ \E t \in Thread : ApplyObservation(t) \/ FlagOverfill(t)
        \/ \E o \in Order : \/ RegisterOrder(o) \/ Prune(o)
                            \/ ObserveWalletUnattributed(o) \/ Resolve(o)
    BY DEF Next, vars, Submit, VenueMatch, Inflow, ObserveOrderPayload, ObserveWallet, Decode
  <2>. QED BY <2>1, <2>2, <2>3, <2>4
<1>. QED BY <1>2, <1>3, <1>4, <1>5, <1>6, <1>7

\* So is an observation that a thread holds, and the row it takes out.
LEMMA TakenTrue ==
    ASSUME Trustworthy, Accounting, AllTrue, [Next]_vars, NEW t \in Thread,
           thread'[t].pc # "idle"
    PROVE  /\ thread'[t].o \in Order /\ ObservationTrue(thread'[t].o, thread'[t].seen)
           /\ thread'[t].pc = "applied" => RowTrue(thread'[t].o, thread'[t].row)
<1>. /\ ledger \in [Order -> AnyRow] /\ thread \in [Thread -> AnyThreadState]
  BY DEF Accounting, Typing
<1>1. thread[t] \in AnyThreadState
  OBVIOUS
<1> DEFINE o == thread[t].o
           ob == thread[t].seen
<1>2. o \in Order /\ ob \in AnyObservation /\ thread[t].row \in AnyRow /\ ledger[o] \in AnyRow
  BY <1>1 DEF AnyThreadState
<1>3. /\ thread[t].pc # "idle" => ObservationTrue(o, ob)
      /\ thread[t].pc = "applied" => RowTrue(o, thread[t].row)
  BY <1>2 DEF AllTrue, SeenTrue, HeldTrue
<1>4. CASE thread'[t] = thread[t]
  BY <1>2, <1>3, <1>4
<1>5. CASE thread'[t] = Idle
  BY <1>5, IdleTyped
<1>6. ASSUME ApplyObservation(t), thread'[t] # Idle
      PROVE  /\ thread'[t].o \in Order /\ ObservationTrue(thread'[t].o, thread'[t].seen)
             /\ RowTrue(thread'[t].o, thread'[t].row)
  <2> DEFINE row == IF Seen(ledger[o], ob) THEN ledger[o] ELSE Updated(ledger[o], ob)
             held == [thread[t] EXCEPT !.pc = "applied", !.row = row]
  <2>1. thread' = [thread EXCEPT ![t] = held] /\ ledger' = [ledger EXCEPT ![o] = row]
        /\ thread[t].pc = "decoded"
    BY <1>6 DEF ApplyObservation
  <2>2. held.o = o /\ held.seen = ob /\ held.row = row
    <3>. HIDE DEF row
    <3>. QED BY <1>1 DEF AnyThreadState
  <2>. HIDE DEF o, ob, row, held
  <2>3. ledger'[o] = row /\ thread'[t] = held
    BY <1>2, <2>1
  <2>4. RowTrue(o, ledger'[o])
    BY <1>2, WrittenTrue
  <2>. QED BY <1>2, <1>3, <2>1, <2>2, <2>3, <2>4
<1>7. ASSUME NEW x \in Order, NEW new \in AnyObservation, Decode(t, x, new), ObservationTrue(x, new)
      PROVE  /\ thread'[t].o \in Order /\ ObservationTrue(thread'[t].o, thread'[t].seen)
             /\ thread'[t].pc # "applied"
  <2>1. thread'[t] = Decoded(x, new)
    BY <1>7 DEF Decode, Decoded
  <2>2. thread'[t].o = x /\ thread'[t].seen = new /\ thread'[t].pc = "decoded"
    BY <2>1, DecodedFields
  <2>. QED BY <1>7, <2>2
<1>8. ASSUME NEW x \in Order, ObserveOrderPayload(t, x) \/ ObserveWallet(t, x)
      PROVE  /\ thread'[t].o \in Order /\ ObservationTrue(thread'[t].o, thread'[t].seen)
             /\ thread'[t].pc # "applied"
  <2>1. \A new \in Payloads(x) : new \in AnyObservation /\ ObservationTrue(x, new)
    BY PayloadFields, PayloadTrue DEF Accounting
  <2>2. baseline[x] # NoBaseline =>
           WalletReading(x) \in AnyObservation /\ ObservationTrue(x, WalletReading(x))
    BY ReadingTyped, ReadingTrue DEF Accounting
  <2>. QED BY <1>7, <1>8, <2>1, <2>2 DEF ObserveOrderPayload, ObserveWallet
<1>9. \/ thread'[t] = thread[t] \/ thread'[t] = Idle \/ ApplyObservation(t)
      \/ \E x \in Order : ObserveOrderPayload(t, x) \/ ObserveWallet(t, x)
  <2>1. ASSUME NEW v \in Thread, v # t,
               \/ ApplyObservation(v) \/ FlagOverfill(v)
               \/ \E x \in Order : ObserveOrderPayload(v, x) \/ ObserveWallet(v, x)
        PROVE  thread'[t] = thread[t]
    BY <2>1 DEF ApplyObservation, FlagOverfill, ObserveOrderPayload, ObserveWallet, Decode
  <2>2. ASSUME FlagOverfill(t) PROVE thread'[t] = Idle
    BY <2>2 DEF FlagOverfill
  <2>. QED BY <2>1, <2>2 DEF Next, vars, Submit, VenueMatch, Inflow, RegisterOrder,
                             ObserveWalletUnattributed, Resolve, Prune
<1>. QED BY <1>4, <1>5, <1>6, <1>8, <1>9

LEMMA AllTrueStep ==
    ASSUME Trustworthy, Accounting, AllTrue, [Next]_vars
    PROVE  AllTrue'
<1>1. \A o \in Order : /\ \A r \in AnyRow : RowTrue(o, r) => RowTrue(o, r)'
                       /\ \A ob \in AnyObservation : ObservationTrue(o, ob) => ObservationTrue(o, ob)'
  BY TruthStays
<1>2. LedgerTrue'
  <2>1. \A o \in Order : RowTrue(o, ledger'[o])
    BY WrittenTrue
  <2>2. \A o \in Order : \A r \in AnyRow : r = ledger'[o] => RowTrue(o, r)
    BY <2>1
  <2>3. \A o \in Order : \A r \in AnyRow : r = ledger'[o] => RowTrue(o, r)'
    BY <1>1, <2>2
  <2>. QED BY <2>3 DEF LedgerTrue
<1>3. SeenTrue'
  <2>1. ASSUME NEW t \in Thread, NEW o \in Order, NEW ob \in AnyObservation,
               thread'[t].pc # "idle", thread'[t].o = o, thread'[t].seen = ob
        PROVE  ObservationTrue(o, ob)
    BY <2>1, TakenTrue
  <2>2. ASSUME NEW t \in Thread, NEW o \in Order, NEW ob \in AnyObservation,
               thread'[t].pc # "idle", thread'[t].o = o, thread'[t].seen = ob
        PROVE  ObservationTrue(o, ob)'
    BY <1>1, <2>1, <2>2
  <2>. QED BY <2>2 DEF SeenTrue
<1>4. HeldTrue'
  <2>1. ASSUME NEW t \in Thread, NEW o \in Order, NEW r \in AnyRow,
               thread'[t].pc = "applied", thread'[t].o = o, thread'[t].row = r
        PROVE  RowTrue(o, r)
    BY <2>1, TakenTrue
  <2>2. ASSUME NEW t \in Thread, NEW o \in Order, NEW r \in AnyRow,
               thread'[t].pc = "applied", thread'[t].o = o, thread'[t].row = r
        PROVE  RowTrue(o, r)'
    BY <1>1, <2>1, <2>2
  <2>. QED BY <2>2 DEF HeldTrue
<1>. QED BY <1>2, <1>3, <1>4 DEF AllTrue

LEMMA TruthHolds == ASSUME Trustworthy PROVE Spec => [](Accounting /\ TruthInv)
<1>1. ASSUME Init PROVE AllTrue
  <2>1. /\ \A o \in Order : ledger[o] = NoRow
        /\ \A t \in Thread : thread[t].pc = "idle"
    BY <1>1, IdleTyped DEF Init
  <2>2. \A o \in Order : RowTrue(o, NoRow)
    BY <1>1, TypingInit, NewRowTrue
  <2>. QED BY <2>1, <2>2 DEF AllTrue, LedgerTrue, SeenTrue, HeldTrue
<1>2. Accounting /\ AllTrue /\ [Next]_vars => AllTrue'
  BY AllTrueStep
<1>3. Accounting => (AllTrue <=> TruthInv)
  BY AllTrueIsTruth DEF Accounting
<1>. QED BY <1>1, <1>2, <1>3, AccountingHolds, PTL DEF Spec

\* However often and in whatever pieces the venue repeats itself, no row claims more than
\* the venue executed or the wallet gained, when the venue names its executions and lists
\* none twice in a response.
THEOREM FillTruthHolds == ASSUME Trustworthy PROVE Spec => []FillTruth
<1>1. ASSUME Accounting, TruthInv PROVE FillTruth
  <2>1. \A o \in Order : ledger[o].observed <= Limit(o) /\ ledger[o].confirmed <= Limit(o)
    BY <1>1 DEF TruthInv, RowTrue
  <2>. QED BY <2>1 DEF FillTruth, Larger
<1>. QED BY <1>1, TruthHolds, PTL

\* A realized price is the average of executions that happened, covers exactly the size it
\* claims to cover and no more than the confirmed fill, under the same conditions.
THEOREM PriceTruthHolds == ASSUME Trustworthy PROVE Spec => []PriceTruth
<1>1. ASSUME TruthInv PROVE PriceTruth
  BY <1>1 DEF TruthInv, RowTrue, PriceTruth
<1>. QED BY <1>1, TruthHolds, PTL

\* What is true fits the bounds: every quantity stays within what the wallet can receive.
LEMMA TrueIsTyped ==
    ASSUME Accounting, TruthInv, NEW o \in Order
    PROVE  /\ \A r \in AnyRow : RowTrue(o, r) /\ RowCounted(r) => r \in Row
           /\ \A ob \in AnyObservation : ObservationTrue(o, ob) => ob \in Observation
<1> DEFINE bound == MaxInflow + Requested * Cardinality(Order)
<1>1. /\ Gained(o) \in 0..Wallet /\ Limit(o) \in 0..Wallet
      /\ Matched(o) \in Nat /\ Matched(o) <= Wallet /\ Wallet \in 0..bound
  BY LimitTyped, WalletTyped DEF Accounting
<1>2. bound \in Nat
  <2>1. Requested \in Nat /\ MaxInflow \in Nat /\ Cardinality(Order) \in Nat
    BY FillSizesAssumption, FillInflowAssumption, FillOrdersAssumption, FS_CardinalityType
  <2>2. Requested * Cardinality(Order) \in Nat
    BY <2>1, ProductNat
  <2>. QED BY <2>1, <2>2
<1>3. Quantity = 0..bound
  BY DEF Quantity
<1>. HIDE DEF bound, Gained, Limit, Matched, Wallet, Quantity
<1>4. ASSUME NEW r \in AnyRow, RowTrue(o, r), RowCounted(r) PROVE r \in Row
  <2>1. /\ r.observed \in Nat /\ r.confirmed \in Nat /\ r.covered \in Nat /\ r.notional \in Nat
        /\ r.seen \subseteq AnyObservation
    BY DEF AnyRow
  <2>2. r.observed <= Limit(o) /\ r.confirmed <= Limit(o) /\ r.covered <= r.confirmed
    BY <1>4 DEF RowTrue
  <2>3. r.observed \in Quantity /\ r.confirmed \in Quantity /\ r.covered \in Quantity
    BY <1>1, <1>2, <1>3, <2>1, <2>2
  <2>4. \A ob \in r.seen : ob \in Observation
    <3> SUFFICES ASSUME NEW ob \in r.seen PROVE ob \in Observation
      OBVIOUS
    <3>1. ob.size <= r.confirmed /\ ob.covered <= r.confirmed
      <4>1. r.confirmed >= ob.size /\ ob.covered <= r.confirmed
        BY <1>4 DEF RowTrue, RowCounted
      <4>2. ob.size \in Nat
        BY <2>1 DEF AnyObservation
      <4>. QED BY <2>1, <4>1, <4>2
    <3>2. ob.size \in Nat /\ ob.covered \in Nat
      BY <2>1 DEF AnyObservation
    <3>3. ob.size \in Quantity /\ ob.covered \in Quantity
      BY <1>1, <1>2, <1>3, <2>1, <2>2, <3>1, <3>2
    <3>. QED BY <2>1, <3>3 DEF AnyObservation, Observation
  <2>. QED BY <2>3, <2>4 DEF AnyRow, Row
<1>5. ASSUME NEW ob \in AnyObservation, ObservationTrue(o, ob) PROVE ob \in Observation
  <2>1. ob.size \in Nat /\ ob.covered \in Nat /\ ob.fills \in SUBSET Fill /\ IsFiniteSet(ob.fills)
    BY DEF AnyObservation
  <2>2. /\ ob.size <= Gained(o) \/ ob.size <= Matched(o)
        /\ ob.covered <= Larger(ob.size, Total(ob.fills))
        /\ ob.fills \subseteq ExecutedFills(o)
    BY <1>5 DEF ObservationTrue
  <2>3. Total(ob.fills) \in Nat /\ Total(ob.fills) <= Matched(o)
    <3> DEFINE ks == {f.id.k : f \in ob.fills}
    <3>. HIDE DEF ks
    <3>. QED BY <2>1, <2>2, FillsAreExecutions DEF Accounting, ks
  <2>4. ob.size <= bound /\ Total(ob.fills) <= bound
    BY <1>1, <1>2, <2>1, <2>2, <2>3
  <2>5. ob.covered <= bound
    BY <1>2, <2>1, <2>2, <2>3, <2>4 DEF Larger
  <2>6. ob.size \in Quantity /\ ob.covered \in Quantity
    BY <1>2, <1>3, <2>1, <2>4, <2>5
  <2>. QED BY <2>6 DEF AnyObservation, Observation
<1>. QED BY <1>4, <1>5

\* Every variable keeps its type: no row, no observation and no row a thread has taken out
\* ever tells of more than the wallet can receive.
THEOREM TypeCorrect == ASSUME Trustworthy PROVE Spec => []TypeOK
<1>1. ASSUME Accounting, HeldInv, TruthInv PROVE TypeOK
  <2>. /\ ledger \in [Order -> AnyRow] /\ thread \in [Thread -> AnyThreadState]
    BY <1>1 DEF Accounting, Typing
  <2>1. ASSUME NEW o \in Order PROVE ledger[o] \in Row
    <3>1. RowTrue(o, ledger[o]) /\ RowCounted(ledger[o]) /\ ledger[o] \in AnyRow
      BY <1>1 DEF TruthInv, Accounting, CountedInv
    <3>. QED BY <1>1, <3>1, TrueIsTyped
  <2>2. NoRow \in Row /\ Nothing \in Observation
    <3>1. 0 \in Quantity
      <4>1. Requested * Cardinality(Order) \in Nat
        BY FillSizesAssumption, FillOrdersAssumption, FS_CardinalityType, ProductNat
      <4>. QED BY <4>1, FillInflowAssumption DEF Quantity
    <3>. QED BY <3>1 DEF NoRow, Nothing, Row, Observation
  <2>3. ASSUME NEW t \in Thread PROVE thread[t] \in ThreadState
    <3>1. thread[t] \in AnyThreadState /\ ThreadCounted(t)
      BY <1>1 DEF Accounting, CountedInv
    <3>2. thread[t].seen \in Observation /\ thread[t].row \in Row
      <4>1. CASE thread[t].pc = "idle"
        <5>1. thread[t].seen = Nothing /\ thread[t].row = NoRow
          BY <3>1, <4>1 DEF ThreadCounted, Idle
        <5>. QED BY <2>2, <5>1
      <4>2. CASE thread[t].pc # "idle"
        <5> DEFINE o == thread[t].o
        <5>1. /\ o \in Order /\ thread[t].seen \in AnyObservation /\ thread[t].row \in AnyRow
              /\ thread[t].pc \in {"decoded", "applied"}
          BY <3>1, <4>2 DEF AnyThreadState
        <5>2. /\ ObservationTrue(o, thread[t].seen)
              /\ thread[t].pc = "applied" => RowTrue(o, thread[t].row)
          BY <1>1, <4>2, <5>1 DEF TruthInv
        <5>. HIDE DEF o
        <5>3. thread[t].seen \in Observation
          BY <1>1, <5>1, <5>2, TrueIsTyped
        <5>4. CASE thread[t].pc = "decoded"
          BY <2>2, <3>1, <5>3, <5>4 DEF ThreadCounted
        <5>5. CASE thread[t].pc = "applied"
          <6>1. RowCounted(thread[t].row)
            BY <3>1, <5>5 DEF ThreadCounted
          <6>2. thread[t].row \in Row
            BY <1>1, <5>1, <5>2, <5>5, <6>1, TrueIsTyped
          <6>. QED BY <5>3, <6>2
        <5>. QED BY <5>1, <5>4, <5>5
      <4>. QED BY <4>1, <4>2
    <3>. HIDE DEF Observation, Row
    <3>. QED BY <3>1, <3>2 DEF AnyThreadState, ThreadState
  <2>. HIDE DEF Row, ThreadState, AnyRow, AnyThreadState
  <2>4. ledger \in [Order -> Row] /\ thread \in [Thread -> ThreadState]
    BY <2>1, <2>3
  <2>. QED BY <1>1, <2>4 DEF Accounting, HeldInv, Typing, TypeOK
<1>. QED BY <1>1, TruthHolds, HeldHolds, PTL
=============================================================================
