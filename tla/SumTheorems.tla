----------------------------- MODULE SumTheorems -----------------------------
(***************************************************************************)
(* Sums over finite sets, as the folds of the community modules compute    *)
(* them: by picking one element after another.  The facts below are        *)
(* proved by taking a minimal counterexample among the subsets of the set  *)
(* (the subset order of a finite set is well founded), so that no          *)
(* induction theorem with an operator for a parameter is needed.           *)
(***************************************************************************)
EXTENDS Paging, FiniteSetTheorems, TLAPS

\* The element a fold takes next.
Pick(s) == CHOOSE x \in s : TRUE

\* One unfolding of the sum of w over s, when h gives the sums of smaller sets.
SumStep(w, h, s) == IF s = {} THEN 0 ELSE w[Pick(s)] + h[s \ {Pick(s)}]

\* h[s] is the sum of w over s, for every subset s of T.
Sums(w, h, T) == h = [s \in SUBSET T |-> SumStep(w, h, s)]

\* Among subsets of a finite set, one with a bad property is minimal: induction
\* over finite sets, stated for the set of the bad ones.
LEMMA MinimalSubset ==
    ASSUME NEW S, IsFiniteSet(S), NEW Bad, Bad \subseteq SUBSET S, Bad # {}
    PROVE  \E T \in Bad : \A U \in SUBSET T : U # T => U \notin Bad
<1>1. IsWellFoundedOn(StrictSubsetOrdering(S), FiniteSubsetsOf(S))
  BY FS_StrictSubsetOrderingWellFounded
<1>2. Bad \subseteq FiniteSubsetsOf(S)
  BY FS_Subset DEF FiniteSubsetsOf
<1>3. PICK T \in Bad : \A U \in Bad : ~(<<U, T>> \in StrictSubsetOrdering(S))
  BY <1>1, <1>2, WFMin
<1>4. ASSUME NEW U \in SUBSET T, U # T, U \in Bad PROVE FALSE
  BY <1>3, <1>4 DEF StrictSubsetOrdering
<1> QED BY <1>4

\* The element picked is one of the set.
LEMMA PickIsIn == ASSUME NEW s, s # {} PROVE Pick(s) \in s
BY DEF Pick

\* The two cases of a sum: nothing to add, or one element and the rest.
LEMMA SumsUnfold ==
    ASSUME NEW w, NEW h, NEW T, Sums(w, h, T)
    PROVE  \A s \in SUBSET T :
              /\ s = {} => h[s] = 0
              /\ s # {} => h[s] = w[Pick(s)] + h[s \ {Pick(s)}]
BY DEF Sums, SumStep

\* There is one sum: two functions that both add w up agree where both do.
LEMMA SumsAgree ==
    ASSUME NEW S, IsFiniteSet(S), NEW A \in SUBSET S, NEW B \in SUBSET S,
           NEW w, NEW g, NEW h, Sums(w, g, A), Sums(w, h, B),
           NEW s \in SUBSET (A \cap B)
    PROVE  g[s] = h[s]
<1> PICK Bad : Bad = {t \in SUBSET (A \cap B) : g[t] # h[t]}
  OBVIOUS
<1>1. SUFFICES ASSUME Bad # {} PROVE FALSE
  OBVIOUS
<1>2. Bad \subseteq SUBSET S /\ IsFiniteSet(S)
  OBVIOUS
<1>3. PICK T \in Bad : \A U \in SUBSET T : U # T => U \notin Bad
  BY <1>1, <1>2, MinimalSubset
<1>4. T \in SUBSET A /\ T \in SUBSET B /\ g[T] # h[T]
  OBVIOUS
<1>5. T # {}
  BY <1>4, SumsUnfold
<1> PICK U : U = T \ {Pick(T)}
  OBVIOUS
<1>6. U \in SUBSET T /\ U # T
  BY <1>5, PickIsIn
<1>7. g[U] = h[U]
  BY <1>3, <1>4, <1>6
<1>8. \A t \in SUBSET A : t # {} => g[t] = w[Pick(t)] + g[t \ {Pick(t)}]
  BY SumsUnfold
<1>9. \A t \in SUBSET B : t # {} => h[t] = w[Pick(t)] + h[t \ {Pick(t)}]
  BY SumsUnfold
<1>10. g[T] = w[Pick(T)] + g[U] /\ h[T] = w[Pick(T)] + h[U]
  BY <1>4, <1>5, <1>8, <1>9
<1> QED
  BY <1>4, <1>7, <1>10

\* w can be added up over T: the recursion has a solution.
Summable(w, T) == \E h : Sums(w, h, T)

\* Over a finite set everything can be added up.
LEMMA SumsExist ==
    ASSUME NEW S, IsFiniteSet(S), NEW w
    PROVE  Summable(w, S)
<1> PICK Bad : Bad = {t \in SUBSET S : ~Summable(w, t)}
  OBVIOUS
<1>1. SUFFICES ASSUME Bad # {} PROVE FALSE
  OBVIOUS
<1>2. Bad \subseteq SUBSET S /\ IsFiniteSet(S)
  OBVIOUS
<1>m. \A B \in SUBSET (SUBSET S) :
         B # {} => \E T \in B : \A U \in SUBSET T : U # T => U \notin B
  BY MinimalSubset
<1>3. PICK T \in Bad : \A U \in SUBSET T : U # T => U \notin Bad
  BY <1>1, <1>2, <1>m
<1> DEFINE H(t) == CHOOSE h : Sums(w, h, t)
<1>4. \A U \in SUBSET T : U # T => Sums(w, H(U), U)
  <2>1. ASSUME NEW U \in SUBSET T, U # T PROVE Summable(w, U)
    BY <2>1, <1>3
  <2> QED
    BY <2>1 DEF Summable
<1> DEFINE g == [s \in SUBSET T |-> IF s = T THEN SumStep(w, H(T \ {Pick(T)}), T) ELSE H(s)[s]]
<1> HIDE DEF H
<1>5. \A s \in SUBSET T : g[s] = IF s = T THEN SumStep(w, H(T \ {Pick(T)}), T) ELSE H(s)[s]
  OBVIOUS
<1>6. ASSUME NEW s \in SUBSET T PROVE g[s] = SumStep(w, g, s)
  <2>1. CASE s = {}
    <3>1. s # T => H(s)[s] = 0
      BY <1>4, <2>1, SumsUnfold
    <3> HIDE DEF g
    <3> QED
      BY <2>1, <3>1, <1>5 DEF SumStep
  <2>2. CASE s # {}
    <3> PICK u : u = s \ {Pick(s)}
      OBVIOUS
    <3>1. u \in SUBSET s /\ u \in SUBSET T /\ u # T /\ u # s
      BY <2>2, PickIsIn
    <3>2. g[u] = H(u)[u]
      BY <1>5, <3>1
    <3>3. CASE s = T
      <4>1. g[s] = w[Pick(s)] + H(u)[u]
        BY <3>3, <1>5, <2>2 DEF SumStep
      <4> HIDE DEF g
      <4> QED
        BY <4>1, <3>2, <2>2 DEF SumStep
    <3>4. CASE s # T
      <4>1. Sums(w, H(s), s) /\ Sums(w, H(u), u)
        BY <1>4, <3>1, <3>4
      <4>2. H(s)[s] = w[Pick(s)] + H(s)[u]
        BY <4>1, <2>2, SumsUnfold
      <4>3. s \in SUBSET S /\ u \in SUBSET S /\ u \in SUBSET (s \cap u)
        BY <3>1, <1>2
      <4>4. H(s)[u] = H(u)[u]
        BY <4>1, <4>3, SumsAgree
      <4>5. g[s] = H(s)[s]
        BY <1>5, <3>4
      <4> HIDE DEF g
      <4> QED
        BY <4>2, <4>4, <4>5, <3>2, <2>2 DEF SumStep
    <3> QED
      BY <3>3, <3>4
  <2> QED
    BY <2>1, <2>2
<1>7. Sums(w, g, T)
  BY <1>6 DEF Sums
<1> QED
  BY <1>7 DEF Summable

\* The sum of w over S.
Total(w, S) == LET h == CHOOSE k : Sums(w, k, S) IN h[S]

\* Whatever adds up like a sum is the sum.
LEMMA SumsIsTotal ==
    ASSUME NEW S, IsFiniteSet(S), NEW w, NEW h, Sums(w, h, S)
    PROVE  h[S] = Total(w, S)
<1> PICK g : g = CHOOSE k : Sums(w, k, S)
  OBVIOUS
<1>1. Sums(w, g, S)
  BY Zenon
<1>2. S \in SUBSET S /\ S \in SUBSET (S \cap S)
  OBVIOUS
<1>3. h[S] = g[S]
  BY <1>1, <1>2, SumsAgree
<1> QED
  BY <1>3 DEF Total

\* The sum unfolds at the element the fold picks.
LEMMA TotalUnfolds ==
    ASSUME NEW T, IsFiniteSet(T), NEW w
    PROVE  /\ T = {} => Total(w, T) = 0
           /\ T # {} => Total(w, T) = w[Pick(T)] + Total(w, T \ {Pick(T)})
<1> PICK h : Sums(w, h, T)
  BY SumsExist DEF Summable
<1>1. h[T] = Total(w, T)
  BY SumsIsTotal
<1>2. /\ T = {} => h[T] = 0
      /\ T # {} => h[T] = w[Pick(T)] + h[T \ {Pick(T)}]
  <2>1. \A s \in SUBSET T : /\ s = {} => h[s] = 0
                            /\ s # {} => h[s] = w[Pick(s)] + h[s \ {Pick(s)}]
    BY DEF Sums, SumStep
  <2>2. T \in SUBSET T
    OBVIOUS
  <2> QED
    BY <2>1, <2>2, Zenon
<1>3. ASSUME T # {} PROVE h[T \ {Pick(T)}] = Total(w, T \ {Pick(T)})
  <2> PICK U : U = T \ {Pick(T)}
    OBVIOUS
  <2>1. IsFiniteSet(U) /\ U \in SUBSET T /\ T \in SUBSET T /\ U \in SUBSET (T \cap U)
    BY FS_Subset
  <2> PICK g : Sums(w, g, U)
    BY <2>1, SumsExist DEF Summable
  <2>2. g[U] = Total(w, U)
    BY <2>1, SumsIsTotal
  <2>3. h[U] = g[U]
    BY <2>1, SumsAgree
  <2> QED
    BY <2>2, <2>3
<1> QED
  BY <1>1, <1>2, <1>3

\* The sum over T is a number, and unfolds at any element of T.
AnyOrder(w, T) ==
    /\ Total(w, T) \in Int
    /\ \A x \in T : Total(w, T) = w[x] + Total(w, T \ {x})

\* A sum of integers does not depend on the order of its terms.
LEMMA TotalSplits ==
    ASSUME NEW S, IsFiniteSet(S), NEW w, \A x \in S : w[x] \in Int
    PROVE  AnyOrder(w, S)
<1> PICK Bad : Bad = {T \in SUBSET S : ~AnyOrder(w, T)}
  OBVIOUS
<1>1. SUFFICES ASSUME Bad # {} PROVE FALSE
  OBVIOUS
<1>m. \A B \in SUBSET (SUBSET S) :
         B # {} => \E T \in B : \A U \in SUBSET T : U # T => U \notin B
  BY MinimalSubset
<1>2. Bad \in SUBSET (SUBSET S)
  OBVIOUS
<1>3. PICK T \in Bad : \A U \in SUBSET T : U # T => U \notin Bad
  BY <1>1, <1>2, <1>m
<1>4. T \in SUBSET S /\ ~AnyOrder(w, T)
  OBVIOUS
<1>5. ASSUME NEW U \in SUBSET T, U # T PROVE AnyOrder(w, U)
  BY <1>3, <1>5
<1>6. \A U \in SUBSET T : IsFiniteSet(U)
  BY <1>4, FS_Subset
<1>7. T # {}
  <2> SUFFICES ASSUME T = {} PROVE AnyOrder(w, T)
    BY <1>4
  <2>1. Total(w, T) = 0
    BY <1>6, TotalUnfolds
  <2> QED
    BY <2>1 DEF AnyOrder
<1> PICK c : c = Pick(T)
  OBVIOUS
<1>8. c \in T
  BY <1>7, PickIsIn
<1>9. Total(w, T) = w[c] + Total(w, T \ {c})
  BY <1>6, <1>7, TotalUnfolds
<1>10. Total(w, T \ {c}) \in Int /\ w[c] \in Int
  BY <1>4, <1>5, <1>8 DEF AnyOrder
<1>11. ASSUME NEW x \in T PROVE Total(w, T) = w[x] + Total(w, T \ {x})
  <2>1. CASE x = c
    BY <2>1, <1>9
  <2>2. CASE x # c
    <3>1. /\ T \ {c} \in SUBSET T /\ T \ {c} # T /\ x \in T \ {c}
          /\ T \ {x} \in SUBSET T /\ T \ {x} # T /\ c \in T \ {x}
          /\ T \ {c, x} \in SUBSET T /\ T \ {c, x} # T
          /\ (T \ {c}) \ {x} = T \ {c, x} /\ (T \ {x}) \ {c} = T \ {c, x}
      BY <1>8, <2>2
    <3>2. Total(w, T \ {c}) = w[x] + Total(w, T \ {c, x})
      BY <1>5, <3>1 DEF AnyOrder
    <3>3. Total(w, T \ {x}) = w[c] + Total(w, T \ {c, x})
      BY <1>5, <3>1 DEF AnyOrder
    <3>4. Total(w, T \ {c, x}) \in Int /\ w[x] \in Int
      BY <1>4, <1>5, <3>1 DEF AnyOrder
    <3> QED
      BY <1>9, <1>10, <3>2, <3>3, <3>4
  <2> QED
    BY <2>1, <2>2
<1>12. Total(w, T) \in Int
  BY <1>9, <1>10
<1>13. AnyOrder(w, T)
  BY <1>11, <1>12 DEF AnyOrder
<1> QED
  BY <1>4, <1>13

\* Sums of equal terms are equal.
LEMMA TotalCongruence ==
    ASSUME NEW S, IsFiniteSet(S), NEW v, NEW w, \A x \in S : v[x] = w[x]
    PROVE  Total(v, S) = Total(w, S)
<1> PICK h : Sums(w, h, S)
  BY SumsExist DEF Summable
<1>1. \A s \in SUBSET S : SumStep(v, h, s) = SumStep(w, h, s)
  BY PickIsIn DEF SumStep
<1>2. Sums(v, h, S)
  BY <1>1 DEF Sums
<1> QED
  BY <1>2, SumsIsTotal

\* Two sums that differ by one term only.
OneTermApart(v, w, S, x) ==
    Total(w, S) \in Int /\ Total(v, S) = Total(w, S) - w[x] + v[x]

\* Changing one term changes the sum by as much.
LEMMA TotalChanges ==
    ASSUME NEW S, IsFiniteSet(S), NEW v, NEW w, NEW x \in S,
           \A y \in S : v[y] \in Int /\ w[y] \in Int,
           \A y \in S : y # x => v[y] = w[y]
    PROVE  OneTermApart(v, w, S, x)
<1> PICK U : U = S \ {x}
  OBVIOUS
<1>1. IsFiniteSet(U) /\ \A y \in U : v[y] = w[y] /\ w[y] \in Int /\ v[y] \in Int
  BY FS_Subset
<1>2. AnyOrder(v, S) /\ AnyOrder(w, S) /\ AnyOrder(v, U) /\ AnyOrder(w, U)
  BY <1>1, TotalSplits
<1>3. Total(v, U) = Total(w, U)
  BY <1>1, TotalCongruence
<1>4. Total(v, S) = v[x] + Total(v, U) /\ Total(w, S) = w[x] + Total(w, U)
  BY <1>2 DEF AnyOrder
<1>5. Total(w, S) \in Int /\ Total(w, U) \in Int /\ v[x] \in Int /\ w[x] \in Int
  BY <1>2 DEF AnyOrder
<1> QED
  BY <1>3, <1>4, <1>5 DEF OneTermApart

\* A sum of natural numbers is one.
LEMMA TotalNonNegative ==
    ASSUME NEW S, IsFiniteSet(S), NEW w, \A x \in S : w[x] \in Nat
    PROVE  Total(w, S) \in Nat
<1> PICK Bad : Bad = {T \in SUBSET S : Total(w, T) \notin Nat}
  OBVIOUS
<1>1. SUFFICES ASSUME Bad # {} PROVE FALSE
  OBVIOUS
<1>m. \A B \in SUBSET (SUBSET S) :
         B # {} => \E T \in B : \A U \in SUBSET T : U # T => U \notin B
  BY MinimalSubset
<1>2. Bad \in SUBSET (SUBSET S)
  OBVIOUS
<1>3. PICK T \in Bad : \A U \in SUBSET T : U # T => U \notin Bad
  BY <1>1, <1>2, <1>m
<1>4. T \in SUBSET S /\ Total(w, T) \notin Nat /\ IsFiniteSet(T)
  BY FS_Subset
<1>5. T # {}
  <2>1. T = {} => Total(w, T) = 0
    BY <1>4, TotalUnfolds
  <2> QED
    BY <1>4, <2>1
<1> PICK U, c : c = Pick(T) /\ U = T \ {c}
  OBVIOUS
<1>6. c \in T /\ U \in SUBSET T /\ U # T
  BY <1>5, PickIsIn
<1>7. Total(w, U) \in Nat /\ w[c] \in Nat
  BY <1>3, <1>4, <1>6
<1>8. Total(w, T) = w[c] + Total(w, U)
  BY <1>4, <1>5, TotalUnfolds
<1> QED
  BY <1>4, <1>7, <1>8

\* A sum of zeroes is zero.
LEMMA TotalOfZeroes ==
    ASSUME NEW S, IsFiniteSet(S), NEW w, \A x \in S : w[x] = 0
    PROVE  Total(w, S) = 0
<1> PICK Bad : Bad = {T \in SUBSET S : Total(w, T) # 0}
  OBVIOUS
<1>1. SUFFICES ASSUME Bad # {} PROVE FALSE
  OBVIOUS
<1>m. \A B \in SUBSET (SUBSET S) :
         B # {} => \E T \in B : \A U \in SUBSET T : U # T => U \notin B
  BY MinimalSubset
<1>2. Bad \in SUBSET (SUBSET S)
  OBVIOUS
<1>3. PICK T \in Bad : \A U \in SUBSET T : U # T => U \notin Bad
  BY <1>1, <1>2, <1>m
<1>4. T \in SUBSET S /\ Total(w, T) # 0 /\ IsFiniteSet(T)
  BY FS_Subset
<1>5. T # {}
  <2>1. T = {} => Total(w, T) = 0
    BY <1>4, TotalUnfolds
  <2> QED
    BY <1>4, <2>1
<1> PICK U, c : c = Pick(T) /\ U = T \ {c}
  OBVIOUS
<1>6. c \in T /\ U \in SUBSET T /\ U # T
  BY <1>5, PickIsIn
<1>7. Total(w, U) = 0 /\ w[c] = 0
  BY <1>3, <1>4, <1>6
<1>8. Total(w, T) = w[c] + Total(w, U)
  BY <1>4, <1>5, TotalUnfolds
<1> QED
  BY <1>4, <1>7, <1>8

\* Terms that are zero outside a subset do not count.
LEMMA TotalRestricts ==
    ASSUME NEW S, IsFiniteSet(S), NEW A \in SUBSET S, NEW w,
           \A x \in S : w[x] \in Int, \A x \in S \ A : w[x] = 0
    PROVE  Total(w, S) = Total(w, A)
<1> PICK Bad : Bad = {T \in SUBSET S : A \in SUBSET T /\ Total(w, T) # Total(w, A)}
  OBVIOUS
<1>1. SUFFICES ASSUME Bad # {} PROVE FALSE
  OBVIOUS
<1>m. \A B \in SUBSET (SUBSET S) :
         B # {} => \E T \in B : \A U \in SUBSET T : U # T => U \notin B
  BY MinimalSubset
<1>2. Bad \in SUBSET (SUBSET S)
  OBVIOUS
<1>3. PICK T \in Bad : \A U \in SUBSET T : U # T => U \notin Bad
  BY <1>1, <1>2, <1>m
<1>4. T \in SUBSET S /\ A \in SUBSET T /\ Total(w, T) # Total(w, A) /\ IsFiniteSet(T)
  BY FS_Subset
<1>5. PICK c \in T : c \notin A
  <2>1. T # A
    BY <1>4
  <2> QED
    BY <1>4, <2>1
<1> PICK U : U = T \ {c}
  OBVIOUS
<1>6. U \in SUBSET T /\ U # T /\ U \in SUBSET S /\ A \in SUBSET U
  BY <1>4, <1>5
<1>7. Total(w, U) = Total(w, A)
  BY <1>3, <1>6
<1>8. AnyOrder(w, T) /\ AnyOrder(w, U)
  BY <1>4, <1>6, FS_Subset, TotalSplits
<1>9. Total(w, T) = w[c] + Total(w, U) /\ w[c] = 0 /\ Total(w, U) \in Int
  BY <1>4, <1>5, <1>8 DEF AnyOrder
<1> QED
  BY <1>4, <1>7, <1>9

\* |n| <= b, without a conditional.
Within(n, b) == -b <= n /\ n <= b

\* A bound, multiplied.
LEMMA WithinScales ==
    \A x \in Int, b, r \in Nat : Within(x, b) => Within(r * x, r * b)
<1> TAKE x \in Int, b, r \in Nat
<1>1. \A y, z \in Int : y <= z => r * y <= r * z
  OBVIOUS
<1>2. r * (-b) = -(r * b) /\ r * b \in Int /\ r * x \in Int
  OBVIOUS
<1>3. -b \in Int /\ b \in Int
  OBVIOUS
<1>4. Within(x, b) => r * (-b) <= r * x /\ r * x <= r * b
  BY <1>1, <1>3 DEF Within
<1> QED
  BY <1>2, <1>4 DEF Within

\* Sums drift apart by at most as much as their terms do, term by term.
LEMMA TotalsDrift ==
    ASSUME NEW S, IsFiniteSet(S), NEW v, NEW w, NEW k \in Int, NEW b \in Nat,
           \A x \in S : v[x] \in Int /\ w[x] \in Int,
           \A x \in S : Within(k * v[x] - 2 * w[x], b)
    PROVE  Within(k * Total(v, S) - 2 * Total(w, S), b * Cardinality(S))
<1> DEFINE Near(T) == Within(k * Total(v, T) - 2 * Total(w, T), b * Cardinality(T))
<1> PICK Bad : Bad = {T \in SUBSET S : ~Near(T)}
  OBVIOUS
<1>1. SUFFICES ASSUME Bad # {} PROVE FALSE
  OBVIOUS
<1>m. \A B \in SUBSET (SUBSET S) :
         B # {} => \E T \in B : \A U \in SUBSET T : U # T => U \notin B
  BY MinimalSubset
<1>2. Bad \in SUBSET (SUBSET S)
  OBVIOUS
<1>3. PICK T \in Bad : \A U \in SUBSET T : U # T => U \notin Bad
  BY <1>1, <1>2, <1>m
<1>4. T \in SUBSET S /\ ~Near(T) /\ IsFiniteSet(T)
  BY FS_Subset
<1>5. T # {}
  <2> SUFFICES ASSUME T = {} PROVE Near(T)
    BY <1>4
  <2>1. Total(v, T) = 0 /\ Total(w, T) = 0 /\ Cardinality(T) = 0
    BY <1>4, TotalUnfolds, FS_EmptySet
  <2> QED
    BY <2>1 DEF Within
<1> PICK c \in T : TRUE
  BY <1>5
<1> PICK U : U = T \ {c}
  OBVIOUS
<1>6. U \in SUBSET T /\ U # T /\ U \in SUBSET S /\ IsFiniteSet(U) /\ c \in S
  BY <1>4, FS_Subset
<1>7. Near(U)
  BY <1>3, <1>6
<1>8. AnyOrder(v, T) /\ AnyOrder(w, T) /\ AnyOrder(v, U) /\ AnyOrder(w, U)
  BY <1>4, <1>6, TotalSplits
<1>9. Total(v, T) = v[c] + Total(v, U) /\ Total(w, T) = w[c] + Total(w, U)
  BY <1>8 DEF AnyOrder
<1>10. Total(v, U) \in Int /\ Total(w, U) \in Int /\ v[c] \in Int /\ w[c] \in Int
  BY <1>6, <1>8 DEF AnyOrder
<1>11. Cardinality(T) = Cardinality(U) + 1 /\ Cardinality(U) \in Nat
  BY <1>4, <1>6, FS_RemoveElement, FS_CardinalityType
<1>12. Within(k * v[c] - 2 * w[c], b)
  BY <1>6
<1> PICK kv, kc, bu : kv = k * Total(v, U) /\ kc = k * v[c] /\ bu = b * Cardinality(U)
  OBVIOUS
<1>13. kv \in Int /\ kc \in Int /\ bu \in Int
  BY <1>10, <1>11
<1>14. k * Total(v, T) = kc + kv /\ b * Cardinality(T) = bu + b
  <2>1. \A x, y \in Int : k * (x + y) = k * x + k * y
    OBVIOUS
  <2>2. \A x \in Int : b * (x + 1) = b * x + b
    OBVIOUS
  <2> QED
    BY <2>1, <2>2, <1>9, <1>10, <1>11
<1>15. Near(T)
  <2>1. Within(kv - 2 * Total(w, U), bu) /\ Within(kc - 2 * w[c], b)
    BY <1>7, <1>12
  <2>2. Within((kc + kv) - 2 * (w[c] + Total(w, U)), bu + b)
    BY <2>1, <1>10, <1>13 DEF Within
  <2> QED
    BY <2>2, <1>9, <1>14
<1> QED
  BY <1>4, <1>15
\* The same, each term with a bound of its own.
LEMMA TotalsDriftBy ==
    ASSUME NEW S, IsFiniteSet(S), NEW v, NEW w, NEW k \in Int, NEW b,
           \A x \in S : v[x] \in Int /\ w[x] \in Int /\ b[x] \in Int,
           \A x \in S : Within(k * v[x] - 2 * w[x], b[x])
    PROVE  Within(k * Total(v, S) - 2 * Total(w, S), Total(b, S))
<1> DEFINE Near(T) == Within(k * Total(v, T) - 2 * Total(w, T), Total(b, T))
<1> PICK Bad : Bad = {T \in SUBSET S : ~Near(T)}
  OBVIOUS
<1>1. SUFFICES ASSUME Bad # {} PROVE FALSE
  OBVIOUS
<1>m. \A B \in SUBSET (SUBSET S) :
         B # {} => \E T \in B : \A U \in SUBSET T : U # T => U \notin B
  BY MinimalSubset
<1>2. Bad \in SUBSET (SUBSET S)
  OBVIOUS
<1>3. PICK T \in Bad : \A U \in SUBSET T : U # T => U \notin Bad
  BY <1>1, <1>2, <1>m
<1>4. T \in SUBSET S /\ ~Near(T) /\ IsFiniteSet(T)
  BY FS_Subset
<1>5. T # {}
  <2> SUFFICES ASSUME T = {} PROVE Near(T)
    BY <1>4
  <2>1. Total(v, T) = 0 /\ Total(w, T) = 0 /\ Total(b, T) = 0
    BY <1>4, TotalUnfolds
  <2> QED
    BY <2>1 DEF Within
<1> PICK c \in T : TRUE
  BY <1>5
<1> PICK U : U = T \ {c}
  OBVIOUS
<1>6. U \in SUBSET T /\ U # T /\ U \in SUBSET S /\ IsFiniteSet(U) /\ c \in S
  BY <1>4, FS_Subset
<1>7. Near(U)
  BY <1>3, <1>6
<1>8. /\ AnyOrder(v, T) /\ AnyOrder(w, T) /\ AnyOrder(b, T)
      /\ AnyOrder(v, U) /\ AnyOrder(w, U) /\ AnyOrder(b, U)
  BY <1>4, <1>6, TotalSplits
<1>9. Total(v, T) = v[c] + Total(v, U) /\ Total(w, T) = w[c] + Total(w, U)
  BY <1>8 DEF AnyOrder
<1>10. Total(v, U) \in Int /\ Total(w, U) \in Int /\ v[c] \in Int /\ w[c] \in Int
  BY <1>6, <1>8 DEF AnyOrder
<1>11. Total(b, T) = b[c] + Total(b, U) /\ Total(b, U) \in Int /\ b[c] \in Int
  BY <1>6, <1>8 DEF AnyOrder
<1>12. Within(k * v[c] - 2 * w[c], b[c])
  BY <1>6
<1> PICK kv, kc, bu : kv = k * Total(v, U) /\ kc = k * v[c] /\ bu = Total(b, U)
  OBVIOUS
<1>13. kv \in Int /\ kc \in Int /\ bu \in Int
  BY <1>10, <1>11
<1>14. k * Total(v, T) = kc + kv /\ Total(b, T) = bu + b[c]
  <2>1. \A x, y \in Int : k * (x + y) = k * x + k * y
    OBVIOUS
  <2> QED
    BY <2>1, <1>9, <1>10, <1>11
<1>15. Near(T)
  <2>1. Within(kv - 2 * Total(w, U), bu) /\ Within(kc - 2 * w[c], b[c])
    BY <1>7, <1>12
  <2>2. Within((kc + kv) - 2 * (w[c] + Total(w, U)), bu + b[c])
    BY <2>1, <1>10, <1>11, <1>13 DEF Within
  <2> QED
    BY <2>2, <1>9, <1>14
<1> QED
  BY <1>4, <1>15
\* Each element of a finite set is numbered by how many come before it.
RanksFill(S, B) ==
    /\ \A n \in S : Cardinality(B[n]) \in 0 .. Cardinality(S) - 1
    /\ \A m, n \in S : Cardinality(B[m]) = Cardinality(B[n]) => m = n
    /\ \A i \in 0 .. Cardinality(S) - 1 : \E n \in S : Cardinality(B[n]) = i

\* Every number below the size of the set is used, once.
LEMMA RanksAreUsed ==
    ASSUME NEW S, IsFiniteSet(S), NEW B \in [S -> SUBSET S],
           \A n \in S : n \notin B[n],
           \A m, n \in S : m \in B[n] => B[m] \subseteq B[n],
           \A m, n \in S : m # n => m \in B[n] \/ n \in B[m]
    PROVE  RanksFill(S, B)
<1> PICK f : f = [n \in S |-> Cardinality(B[n])]
  OBVIOUS
<1> PICK c : c = Cardinality(S)
  OBVIOUS
<1>0. c \in Nat
  BY FS_CardinalityType
<1>1. ASSUME NEW n \in S PROVE IsFiniteSet(B[n]) /\ f[n] \in 0 .. c - 1
  <2>1. B[n] \in SUBSET S /\ B[n] # S
    OBVIOUS
  <2>2. /\ IsFiniteSet(B[n]) /\ Cardinality(B[n]) <= c /\ Cardinality(B[n]) # c
        /\ Cardinality(B[n]) \in Nat
    BY <2>1, FS_Subset, FS_CardinalityType
  <2> QED
    BY <1>0, <2>2
<1>2. ASSUME NEW m \in S, NEW n \in S, m \in B[n] PROVE f[m] < f[n]
  <2>1. B[m] \in SUBSET B[n] /\ B[m] # B[n]
    BY <1>2
  <2>2. Cardinality(B[m]) <= Cardinality(B[n]) /\ Cardinality(B[m]) # Cardinality(B[n])
    BY <1>1, <2>1, FS_Subset
  <2>3. f[m] \in Int /\ f[n] \in Int
    BY <1>0, <1>1
  <2> QED
    BY <2>2, <2>3
<1>3. f \in Injection(S, 0 .. c - 1)
  <2>1. ASSUME NEW m \in S, NEW n \in S, m # n PROVE f[m] # f[n]
    <3>1. f[m] \in Int /\ f[n] \in Int
      BY <1>0, <1>1
    <3> QED
      BY <1>2, <2>1, <3>1
  <2>2. f \in [S -> 0 .. c - 1]
    BY <1>1
  <2> QED
    BY <2>1, <2>2 DEF Injection, IsInjective
<1>i. \A i \in Nat : IsFiniteSet(0 .. i - 1) /\ Cardinality(0 .. i - 1) = i
  <2> SUFFICES ASSUME NEW i \in Nat
               PROVE  IsFiniteSet(0 .. i - 1) /\ Cardinality(0 .. i - 1) = i
    OBVIOUS
  <2> PICK l : l = i - 1
    OBVIOUS
  <2>1. l \in Int /\ 0 \in Int
    OBVIOUS
  <2>2. IsFiniteSet(0 .. l) /\ Cardinality(0 .. l) = IF 0 > l THEN 0 ELSE l - 0 + 1
    BY <2>1, FS_Interval
  <2> QED
    BY <2>1, <2>2
<1>4. IsFiniteSet(0 .. c - 1) /\ Cardinality(0 .. c - 1) = c
  BY <1>0, <1>i
<1>5. f \in Surjection(S, 0 .. c - 1)
  BY <1>3, <1>4, FS_Injection
<1>6. /\ \A n \in S : Cardinality(B[n]) \in 0 .. c - 1
      /\ \A m, n \in S : Cardinality(B[m]) = Cardinality(B[n]) => m = n
      /\ \A i \in 0 .. c - 1 : \E n \in S : Cardinality(B[n]) = i
  BY <1>1, <1>3, <1>5 DEF Injection, IsInjective, Surjection
<1> QED
  BY <1>6 DEF RanksFill

\* So k elements have fewer than k before them.
LEMMA RanksCount ==
    ASSUME NEW S, IsFiniteSet(S), NEW B \in [S -> SUBSET S],
           \A n \in S : n \notin B[n],
           \A m, n \in S : m \in B[n] => B[m] \subseteq B[n],
           \A m, n \in S : m # n => m \in B[n] \/ n \in B[m],
           NEW k \in 0 .. Cardinality(S)
    PROVE  Cardinality({n \in S : Cardinality(B[n]) < k}) = k
<1> PICK f : f = [n \in S |-> Cardinality(B[n])]
  OBVIOUS
<1> PICK c : c = Cardinality(S)
  OBVIOUS
<1>0. c \in Nat
  BY FS_CardinalityType
<1>1. RanksFill(S, B)
  BY RanksAreUsed
<1>2. /\ f \in [S -> 0 .. c - 1] /\ \A m, n \in S : f[m] = f[n] => m = n
      /\ \A i \in 0 .. c - 1 : \E n \in S : f[n] = i
  BY <1>1 DEF RanksFill
<1>i. \A i \in Nat : IsFiniteSet(0 .. i - 1) /\ Cardinality(0 .. i - 1) = i
  <2> SUFFICES ASSUME NEW i \in Nat
               PROVE  IsFiniteSet(0 .. i - 1) /\ Cardinality(0 .. i - 1) = i
    OBVIOUS
  <2> PICK l : l = i - 1
    OBVIOUS
  <2>1. l \in Int /\ 0 \in Int
    OBVIOUS
  <2>2. IsFiniteSet(0 .. l) /\ Cardinality(0 .. l) = IF 0 > l THEN 0 ELSE l - 0 + 1
    BY <2>1, FS_Interval
  <2> QED
    BY <2>1, <2>2
<1> PICK T : T = {n \in S : f[n] < k}
  OBVIOUS
<1> PICK g : g = [n \in T |-> f[n]]
  OBVIOUS
<1>6. g \in Bijection(T, 0 .. k - 1)
  <2>1. g \in [T -> 0 .. k - 1]
    BY <1>0, <1>2
  <2>2. \A m, n \in T : g[m] = g[n] => m = n
    BY <1>2
  <2>3. ASSUME NEW i \in 0 .. k - 1 PROVE \E n \in T : g[n] = i
    <3>1. i \in 0 .. c - 1
      BY <1>0
    <3>2. PICK n \in S : f[n] = i
      BY <1>2, <3>1
    <3>3. n \in T
      BY <3>2
    <3> QED
      BY <3>2, <3>3
  <2>4. g \in Injection(T, 0 .. k - 1)
    BY <2>1, <2>2 DEF Injection, IsInjective
  <2>5. g \in Surjection(T, 0 .. k - 1)
    BY <2>1, <2>3 DEF Surjection
  <2> QED
    BY <2>4, <2>5 DEF Bijection
<1>7. IsFiniteSet(T) /\ ExistsBijection(T, 0 .. k - 1)
  BY <1>6, FS_Subset DEF ExistsBijection
<1>8. Cardinality(0 .. k - 1) = k
  BY <1>i
<1>9. Cardinality(T) = k
  BY <1>7, <1>8, FS_Bijection
<1>10. T = {n \in S : Cardinality(B[n]) < k}
  OBVIOUS
<1> QED
  BY <1>9, <1>10

\* The sum of v is at most that of w.
AtMost(v, w, S) == Total(v, S) <= Total(w, S)

\* A sum whose terms are at most another's is at most the other.
LEMMA TotalAtMost ==
    ASSUME NEW S, IsFiniteSet(S), NEW v, NEW w,
           \A x \in S : v[x] \in Int /\ w[x] \in Int, \A x \in S : v[x] <= w[x]
    PROVE  AtMost(v, w, S)
<1> PICK Bad : Bad = {T \in SUBSET S : ~AtMost(v, w, T)}
  OBVIOUS
<1>1. SUFFICES ASSUME Bad # {} PROVE FALSE
  OBVIOUS
<1>m. \A B \in SUBSET (SUBSET S) :
         B # {} => \E T \in B : \A U \in SUBSET T : U # T => U \notin B
  BY MinimalSubset
<1>2. Bad \in SUBSET (SUBSET S)
  OBVIOUS
<1>3. PICK T \in Bad : \A U \in SUBSET T : U # T => U \notin Bad
  BY <1>1, <1>2, <1>m
<1>4. T \in SUBSET S /\ ~AtMost(v, w, T) /\ IsFiniteSet(T)
  BY FS_Subset
<1>5. T # {}
  <2> SUFFICES ASSUME T = {} PROVE AtMost(v, w, T)
    BY <1>4
  <2>1. Total(v, T) = 0 /\ Total(w, T) = 0
    BY <1>4, TotalUnfolds
  <2> QED
    BY <2>1 DEF AtMost
<1> PICK c \in T : TRUE
  BY <1>5
<1> PICK U : U = T \ {c}
  OBVIOUS
<1>6. U \in SUBSET T /\ U # T /\ U \in SUBSET S /\ IsFiniteSet(U) /\ c \in S
  BY <1>4, FS_Subset
<1>7. Total(v, U) <= Total(w, U)
  BY <1>3, <1>6 DEF AtMost
<1>8. AnyOrder(v, T) /\ AnyOrder(w, T) /\ AnyOrder(v, U) /\ AnyOrder(w, U)
  BY <1>4, <1>6, TotalSplits
<1>9. Total(v, T) = v[c] + Total(v, U) /\ Total(w, T) = w[c] + Total(w, U)
  BY <1>8 DEF AnyOrder
<1>10. Total(v, U) \in Int /\ Total(w, U) \in Int /\ v[c] \in Int /\ w[c] \in Int
  BY <1>6, <1>8 DEF AnyOrder
<1>11. v[c] <= w[c]
  BY <1>6
<1>12. AtMost(v, w, T)
  BY <1>7, <1>9, <1>10, <1>11 DEF AtMost
<1> QED
  BY <1>4, <1>12

\* The sum of u is that of v and that of w together.
Adds(u, v, w, S) == Total(u, S) = Total(v, S) + Total(w, S)

\* A sum of sums of two terms is the sum of the two sums.
LEMMA TotalAdds ==
    ASSUME NEW S, IsFiniteSet(S), NEW u, NEW v, NEW w,
           \A x \in S : v[x] \in Int /\ w[x] \in Int, \A x \in S : u[x] = v[x] + w[x]
    PROVE  Adds(u, v, w, S)
<1> PICK Bad : Bad = {T \in SUBSET S : ~Adds(u, v, w, T)}
  OBVIOUS
<1>1. SUFFICES ASSUME Bad # {} PROVE FALSE
  OBVIOUS
<1>m. \A B \in SUBSET (SUBSET S) :
         B # {} => \E T \in B : \A U \in SUBSET T : U # T => U \notin B
  BY MinimalSubset
<1>2. Bad \in SUBSET (SUBSET S)
  OBVIOUS
<1>3. PICK T \in Bad : \A U \in SUBSET T : U # T => U \notin Bad
  BY <1>1, <1>2, <1>m
<1>4. T \in SUBSET S /\ ~Adds(u, v, w, T) /\ IsFiniteSet(T)
  BY FS_Subset
<1>5. T # {}
  <2> SUFFICES ASSUME T = {} PROVE Adds(u, v, w, T)
    BY <1>4
  <2>1. Total(u, T) = 0 /\ Total(v, T) = 0 /\ Total(w, T) = 0
    BY <1>4, TotalUnfolds
  <2> QED
    BY <2>1 DEF Adds
<1> PICK c \in T : TRUE
  BY <1>5
<1> PICK U : U = T \ {c}
  OBVIOUS
<1>6. U \in SUBSET T /\ U # T /\ U \in SUBSET S /\ IsFiniteSet(U) /\ c \in S
  BY <1>4, FS_Subset
<1>7. Total(u, U) = Total(v, U) + Total(w, U)
  BY <1>3, <1>6 DEF Adds
<1>u. \A x \in S : u[x] \in Int
  OBVIOUS
<1>8. /\ AnyOrder(u, T)
      /\ AnyOrder(v, T) /\ AnyOrder(w, T) /\ AnyOrder(v, U) /\ AnyOrder(w, U)
  BY <1>4, <1>6, <1>u, TotalSplits
<1>9. /\ Total(u, T) = u[c] + Total(u, U)
      /\ Total(v, T) = v[c] + Total(v, U) /\ Total(w, T) = w[c] + Total(w, U)
  BY <1>8 DEF AnyOrder
<1>10. Total(v, U) \in Int /\ Total(w, U) \in Int /\ v[c] \in Int /\ w[c] \in Int
  BY <1>6, <1>8 DEF AnyOrder
<1>11. u[c] = v[c] + w[c]
  BY <1>6
<1>12. Adds(u, v, w, T)
  BY <1>7, <1>9, <1>10, <1>11 DEF Adds
<1> QED
  BY <1>4, <1>12

\* The sum of v is k times that of w.
Scales(v, w, k, S) == Total(v, S) = k * Total(w, S)

\* A common factor comes out of a sum.
LEMMA TotalScales ==
    ASSUME NEW S, IsFiniteSet(S), NEW v, NEW w, NEW k \in Int,
           \A x \in S : w[x] \in Int, \A x \in S : v[x] = k * w[x]
    PROVE  Scales(v, w, k, S)
<1> PICK Bad : Bad = {T \in SUBSET S : ~Scales(v, w, k, T)}
  OBVIOUS
<1>1. SUFFICES ASSUME Bad # {} PROVE FALSE
  OBVIOUS
<1>m. \A B \in SUBSET (SUBSET S) :
         B # {} => \E T \in B : \A U \in SUBSET T : U # T => U \notin B
  BY MinimalSubset
<1>2. Bad \in SUBSET (SUBSET S)
  OBVIOUS
<1>3. PICK T \in Bad : \A U \in SUBSET T : U # T => U \notin Bad
  BY <1>1, <1>2, <1>m
<1>4. T \in SUBSET S /\ ~Scales(v, w, k, T) /\ IsFiniteSet(T)
  BY FS_Subset
<1>5. T # {}
  <2> SUFFICES ASSUME T = {} PROVE Scales(v, w, k, T)
    BY <1>4
  <2>1. Total(v, T) = 0 /\ Total(w, T) = 0
    BY <1>4, TotalUnfolds
  <2> QED
    BY <2>1 DEF Scales
<1> PICK c \in T : TRUE
  BY <1>5
<1> PICK U : U = T \ {c}
  OBVIOUS
<1>6. U \in SUBSET T /\ U # T /\ U \in SUBSET S /\ IsFiniteSet(U) /\ c \in S
  BY <1>4, FS_Subset
<1>7. Total(v, U) = k * Total(w, U)
  BY <1>3, <1>6 DEF Scales
<1>u. \A x \in S : v[x] \in Int
  OBVIOUS
<1>8. AnyOrder(v, T) /\ AnyOrder(w, T) /\ AnyOrder(w, U)
  BY <1>4, <1>6, <1>u, TotalSplits
<1>9. Total(v, T) = v[c] + Total(v, U) /\ Total(w, T) = w[c] + Total(w, U)
  BY <1>8 DEF AnyOrder
<1>10. Total(w, U) \in Int /\ w[c] \in Int /\ v[c] = k * w[c]
  BY <1>6, <1>8 DEF AnyOrder
<1>11. \A x, y \in Int : k * (x + y) = k * x + k * y
  OBVIOUS
<1>12. Scales(v, w, k, T)
  BY <1>7, <1>9, <1>10, <1>11 DEF Scales
<1> QED
  BY <1>4, <1>12

\* The sum of w counts the ones among its terms.
Counts(w, S) == Total(w, S) = Cardinality({x \in S : w[x] = 1})

\* A sum of zeroes and ones is the number of the ones.
LEMMA TotalCounts ==
    ASSUME NEW S, IsFiniteSet(S), NEW w, \A x \in S : w[x] \in {0, 1}
    PROVE  Counts(w, S)
<1> PICK Bad : Bad = {T \in SUBSET S : ~Counts(w, T)}
  OBVIOUS
<1>1. SUFFICES ASSUME Bad # {} PROVE FALSE
  OBVIOUS
<1>m. \A B \in SUBSET (SUBSET S) :
         B # {} => \E T \in B : \A U \in SUBSET T : U # T => U \notin B
  BY MinimalSubset
<1>2. Bad \in SUBSET (SUBSET S)
  OBVIOUS
<1>3. PICK T \in Bad : \A U \in SUBSET T : U # T => U \notin Bad
  BY <1>1, <1>2, <1>m
<1>4. T \in SUBSET S /\ ~Counts(w, T) /\ IsFiniteSet(T)
  BY FS_Subset
<1>5. T # {}
  <2> SUFFICES ASSUME T = {} PROVE Counts(w, T)
    BY <1>4
  <2>1. Total(w, T) = 0
    BY <1>4, TotalUnfolds
  <2>2. {x \in T : w[x] = 1} = {}
    OBVIOUS
  <2>3. Cardinality({x \in T : w[x] = 1}) = 0
    BY <2>2, FS_EmptySet
  <2> QED
    BY <2>1, <2>3 DEF Counts
<1> PICK c \in T : TRUE
  BY <1>5
<1> PICK U : U = T \ {c}
  OBVIOUS
<1>6. U \in SUBSET T /\ U # T /\ U \in SUBSET S /\ IsFiniteSet(U) /\ c \in S
  BY <1>4, FS_Subset
<1> PICK A, B : A = {x \in T : w[x] = 1} /\ B = {x \in U : w[x] = 1}
  OBVIOUS
<1>7. Total(w, U) = Cardinality(B)
  BY <1>3, <1>6 DEF Counts
<1>u. \A x \in S : w[x] \in Int
  OBVIOUS
<1>8. AnyOrder(w, T) /\ AnyOrder(w, U)
  BY <1>4, <1>6, <1>u, TotalSplits
<1>9. Total(w, T) = w[c] + Total(w, U)
  BY <1>8 DEF AnyOrder
<1>10. IsFiniteSet(A) /\ IsFiniteSet(B) /\ Cardinality(B) \in Nat
  BY <1>4, <1>6, FS_Subset, FS_CardinalityType
<1>11. Total(w, T) = Cardinality(A)
  <2>1. CASE w[c] = 1
    <3>1. A = B \cup {c} /\ c \notin B
      BY <2>1, <1>6
    <3>2. Cardinality(A) = Cardinality(B) + 1
      BY <1>10, <3>1, FS_AddElement
    <3> QED
      BY <1>7, <1>9, <1>10, <2>1, <3>2
  <2>2. CASE w[c] = 0
    <3>1. A = B
      BY <2>2, <1>6
    <3>2. Cardinality(A) = Cardinality(B)
      BY <3>1
    <3>3. Total(w, T) = 0 + Cardinality(B)
      BY <1>7, <1>9, <2>2
    <3> QED
      BY <1>10, <3>2, <3>3
  <2> QED
    BY <1>6, <2>1, <2>2
<1>12. Counts(w, T)
  BY <1>11 DEF Counts
<1> QED
  BY <1>4, <1>12

\* The sum the community modules compute for a function.
LEMMA SumFunctionIsTotal ==
    ASSUME NEW w, NEW S, S = DOMAIN w, IsFiniteSet(S)
    PROVE  SumFunction(w) = Total(w, S)
<1> DEFINE D(g) == [s \in SUBSET S |-> IF s = {} THEN 0
                       ELSE w[CHOOSE x \in s : TRUE] + g[s \ {CHOOSE x \in s : TRUE}]]
           it == CHOOSE g : g = D(g)
<1>1. SumFunction(w) = it[S]
  BY Zenon DEF SumFunction, SumFunctionOnSet, FoldFunctionOnSet, MapThenFoldSet
<1>2. ASSUME NEW g PROVE (g = D(g)) <=> Sums(w, g, S)
  BY PickIsIn DEF Sums, SumStep, Pick
<1> HIDE DEF D
<1>3. PICK h : Sums(w, h, S)
  BY SumsExist DEF Summable
<1>4. h = D(h)
  BY <1>2, <1>3
<1>5. it = D(it)
  BY <1>4, Zenon
<1>6. Sums(w, it, S)
  BY <1>2, <1>5
<1> HIDE DEF it
<1> QED
  <2>1. it[S] = Total(w, S)
    BY <1>6, SumsIsTotal
  <2> QED
    BY <1>1, <2>1

\* The sum of w over S is that over the part of S in A and that over the rest.
InParts(w, S, A) == Total(w, S) = Total(w, S \cap A) + Total(w, S \ A)

LEMMA TotalInParts ==
    ASSUME NEW S, IsFiniteSet(S), NEW A, NEW w, \A x \in S : w[x] \in Int
    PROVE  InParts(w, S, A)
<1> PICK P, R : P = S \cap A /\ R = S \ A
  OBVIOUS
<1> PICK v, u : /\ v = [x \in S |-> IF x \in P THEN w[x] ELSE 0]
                /\ u = [x \in S |-> IF x \in P THEN 0 ELSE w[x]]
  OBVIOUS
<1>1. /\ P \in SUBSET S /\ R \in SUBSET S /\ IsFiniteSet(P) /\ IsFiniteSet(R)
      /\ \A x \in S : v[x] \in Int /\ u[x] \in Int /\ w[x] = v[x] + u[x]
      /\ \A x \in S \ P : v[x] = 0
      /\ \A x \in S \ R : u[x] = 0
      /\ \A x \in P : v[x] = w[x]
      /\ \A x \in R : u[x] = w[x]
  BY FS_Subset
<1>2. Total(w, S) = Total(v, S) + Total(u, S)
  BY <1>1, TotalAdds DEF Adds
<1>3. Total(v, S) = Total(v, P) /\ Total(u, S) = Total(u, R)
  BY <1>1, TotalRestricts
<1>4. Total(v, P) = Total(w, P) /\ Total(u, R) = Total(w, R)
  BY <1>1, TotalCongruence
<1> QED
  BY <1>2, <1>3, <1>4 DEF InParts

\* The sum of w over S, added up class by class: class[x] is the class of x.
Class(S, class, i) == {x \in S : class[x] = i}

ByClass(w, S, class, I) ==
    Total(w, S) = Total([i \in I |-> Total(w, Class(S, class, i))], I)

LEMMA TotalByClass ==
    ASSUME NEW S, IsFiniteSet(S), NEW I, IsFiniteSet(I), NEW w, NEW class,
           \A x \in S : w[x] \in Int /\ class[x] \in I
    PROVE  ByClass(w, S, class, I)
<1> PICK v : v = [i \in I |-> Total(w, Class(S, class, i))]
  OBVIOUS
<1> DEFINE Of(J) == {x \in S : class[x] \in J}
           OK(J) == Total(w, Of(J)) = Total(v, J)
<1>0. \A J : Of(J) \in SUBSET S /\ IsFiniteSet(Of(J)) /\ \A x \in Of(J) : w[x] \in Int
  BY FS_Subset
<1>i. \A i \in I : v[i] \in Int
  <2> TAKE i \in I
  <2>1. IsFiniteSet(Class(S, class, i)) /\ \A x \in Class(S, class, i) : w[x] \in Int
    BY FS_Subset DEF Class
  <2>2. AnyOrder(w, Class(S, class, i))
    BY <2>1, TotalSplits
  <2> QED
    BY <2>2 DEF AnyOrder
<1> PICK Bad : Bad = {J \in SUBSET I : ~OK(J)}
  OBVIOUS
<1>1. ASSUME Bad # {} PROVE FALSE
  <2>m. \A B \in SUBSET (SUBSET I) :
           B # {} => \E T \in B : \A U \in SUBSET T : U # T => U \notin B
    BY MinimalSubset
  <2>2. Bad \in SUBSET (SUBSET I)
    OBVIOUS
  <2>3. PICK J \in Bad : \A U \in SUBSET J : U # J => U \notin Bad
    BY <1>1, <2>2, <2>m
  <2>4. J \in SUBSET I /\ ~OK(J) /\ IsFiniteSet(J)
    BY FS_Subset
  <2>5. J # {}
    <3> SUFFICES ASSUME J = {} PROVE OK(J)
      BY <2>4
    <3>1. Of(J) = {}
      OBVIOUS
    <3>2. Total(w, Of(J)) = 0 /\ Total(v, J) = 0
      BY <3>1, <2>4, <1>0, TotalUnfolds
    <3> QED
      BY <3>2
  <2> PICK c \in J : TRUE
    BY <2>5
  <2> PICK U : U = J \ {c}
    OBVIOUS
  <2>6. U \in SUBSET J /\ U # J /\ U \in SUBSET I /\ c \in I
    BY <2>4
  <2>7. OK(U)
    BY <2>3, <2>6
  <2>8. AnyOrder(v, J) /\ AnyOrder(v, U)
    <3>1. IsFiniteSet(U) /\ \A i \in J : v[i] \in Int
      BY <2>4, <2>6, <1>i, FS_Subset
    <3> QED
      BY <2>4, <2>6, <3>1, TotalSplits
  <2>9. Total(v, J) = v[c] + Total(v, U) /\ Total(v, U) \in Int
    BY <2>8 DEF AnyOrder
  <2>10. Total(w, Of(J)) = Total(w, Class(S, class, c)) + Total(w, Of(U))
    <3> PICK A : A = Class(S, class, c)
      OBVIOUS
    <3> HIDE DEF Of
    <3>1. InParts(w, Of(J), A)
      BY <1>0, TotalInParts
    <3>2. Of(J) \cap A = A /\ Of(J) \ A = Of(U)
      BY DEF Of, Class
    <3> QED
      BY <3>1, <3>2 DEF InParts
  <2>11. v[c] = Total(w, Class(S, class, c))
    BY <2>6
  <2> HIDE DEF Of
  <2>12. OK(J)
    BY <2>7, <2>9, <2>10, <2>11
  <2> QED
    BY <2>4, <2>12
<1>2. OK(I)
  BY <1>1
<1>3. Of(I) = S
  OBVIOUS
<1> QED
  BY <1>2, <1>3 DEF ByClass

\* As many members as ones to add up.
LEMMA TotalOfOnes ==
    ASSUME NEW S, IsFiniteSet(S), NEW w, \A x \in S : w[x] = 1
    PROVE  Total(w, S) = Cardinality(S)
<1>1. Counts(w, S)
  BY TotalCounts
<1>2. {x \in S : w[x] = 1} = S
  OBVIOUS
<1> QED
  BY <1>1, <1>2 DEF Counts

\* A set, counted class by class.
CountedByClass(S, class, I) ==
    Cardinality(S) = Total([i \in I |-> Cardinality(Class(S, class, i))], I)

LEMMA CardinalityByClass ==
    ASSUME NEW S, IsFiniteSet(S), NEW I, IsFiniteSet(I), NEW class,
           \A x \in S : class[x] \in I
    PROVE  CountedByClass(S, class, I)
<1> PICK w : w = [x \in S |-> 1]
  OBVIOUS
<1> PICK v, u : /\ v = [i \in I |-> Total(w, Class(S, class, i))]
                /\ u = [i \in I |-> Cardinality(Class(S, class, i))]
  OBVIOUS
<1>1. Total(w, S) = Total(v, I)
  BY TotalByClass DEF ByClass
<1>2. ASSUME NEW i \in I PROVE v[i] = u[i]
  <2>1. IsFiniteSet(Class(S, class, i)) /\ \A x \in Class(S, class, i) : w[x] = 1
    BY FS_Subset DEF Class
  <2> QED
    BY <2>1, TotalOfOnes
<1>3. Total(v, I) = Total(u, I)
  BY <1>2, TotalCongruence
<1>4. Total(w, S) = Cardinality(S)
  BY TotalOfOnes
<1> QED
  BY <1>1, <1>3, <1>4 DEF CountedByClass

------------------------------------------------------------------------------
(* Numbers *)

\* A set of numbers that is not empty has a least one.
LEMMA LeastNumber ==
    ASSUME NEW n \in Nat, NEW B \in SUBSET (1 .. n), B # {}
    PROVE  \E i \in B : \A j \in B : i <= j
<1> PICK Bad : Bad = { 1 .. i : i \in B }
  OBVIOUS
<1>1. IsFiniteSet(1 .. n) /\ Bad \subseteq SUBSET (1 .. n) /\ Bad # {}
  <2>1. IsFiniteSet(1 .. n)
    BY FS_Interval
  <2>2. \A i \in B : i \in 1 .. n
    OBVIOUS
  <2>3. \A i \in 1 .. n : (1 .. i) \in SUBSET (1 .. n)
    OBVIOUS
  <2>4. \A U \in Bad : U \in SUBSET (1 .. n)
    BY <2>2, <2>3
  <2>5. Bad \subseteq SUBSET (1 .. n)
    BY <2>4, Zenon
  <2>6. Bad # {}
    OBVIOUS
  <2> QED
    BY <2>1, <2>5, <2>6, Zenon
<1>2. PICK T \in Bad : \A U \in SUBSET T : U # T => U \notin Bad
  BY <1>1, MinimalSubset
<1>3. PICK i \in B : T = 1 .. i
  <2>1. T \in { 1 .. i : i \in B }
    BY <1>2, Zenon
  <2> QED
    BY <2>1, Zenon
<1>4. ASSUME NEW j \in B, j < i PROVE FALSE
  <2>1. i \in Int /\ j \in Int /\ 1 <= j
    OBVIOUS
  <2>2. (1 .. j) \in SUBSET T /\ i \in T /\ i \notin 1 .. j
    BY <1>3, <1>4, <2>1
  <2>3. (1 .. j) # T
    BY <2>2
  <2>4. (1 .. j) \in Bad
    OBVIOUS
  <2> QED
    BY <1>2, <2>2, <2>3, <2>4
<1>5. \A j \in B : i <= j
  <2>1. \A j \in B : j \in Int /\ i \in Int
    OBVIOUS
  <2> QED
    BY <1>4, <2>1
<1> QED
  BY <1>5

------------------------------------------------------------------------------
(* Rows in order *)

\* How many rows come before one, and which one comes n-th.
Ahead(key, x) == { y \in DOMAIN key : Earlier(key[y], key[x]) }

RowAt(key, n) == CHOOSE x \in DOMAIN key : Cardinality(Ahead(key, x)) = n - 1

LEMMA InOrderIs ==
    ASSUME NEW key
    PROVE  InOrder(key) = [n \in 1 .. Cardinality(DOMAIN key) |-> RowAt(key, n)]
BY DEF InOrder, RowAt, Ahead

\* As many rows as there are keys.
LEMMA InOrderLen ==
    ASSUME NEW key, IsFiniteSet(DOMAIN key)
    PROVE  Len(InOrder(key)) = Cardinality(DOMAIN key)
<1> PICK n : n = Cardinality(DOMAIN key)
  OBVIOUS
<1>1. n \in Nat
  BY FS_CardinalityType
<1>2. InOrder(key) = [k \in 1 .. n |-> RowAt(key, k)]
  BY InOrderIs
<1>3. Len([k \in 1 .. n |-> RowAt(key, k)]) = n
  BY <1>1
<1> QED
  BY <1>2, <1>3

\* Tuples of as many numbers, no two the same.
Keyed(key, w) ==
    /\ \A x \in DOMAIN key : key[x] \in [1 .. w -> Int]
    /\ \A x, y \in DOMAIN key : x # y => key[x] # key[y]

\* Where two tuples are told apart.
ApartAt(a, b, k) == a[k] # b[k] /\ \A j \in 1 .. k - 1 : a[j] = b[j]

LEMMA Apart ==
    ASSUME NEW w \in Nat, NEW a \in [1 .. w -> Int], NEW b \in [1 .. w -> Int], a # b
    PROVE  \E k \in 1 .. w : ApartAt(a, b, k)
<1> PICK D : D = { k \in 1 .. w : a[k] # b[k] }
  OBVIOUS
<1>1. D \in SUBSET (1 .. w) /\ D # {}
  <2>1. \E k \in 1 .. w : a[k] # b[k]
    OBVIOUS
  <2> QED
    BY <2>1
<1>2. PICK k \in D : \A j \in D : k <= j
  BY <1>1, LeastNumber
<1>3. \A j \in 1 .. k - 1 : a[j] = b[j]
  <2> SUFFICES ASSUME NEW j \in 1 .. k - 1 PROVE a[j] = b[j]
    OBVIOUS
  <2>1. k \in 1 .. w
    OBVIOUS
  <2>2. j \in 1 .. w /\ ~ (k <= j)
    BY <2>1
  <2>3. j \notin D
    BY <1>2, <2>2
  <2> QED
    BY <2>2, <2>3
<1> QED
  BY <1>3 DEF ApartAt

\* Of two different tuples one is earlier, and that is an order.
LEMMA EarlierTotal ==
    ASSUME NEW w \in Nat, NEW a \in [1 .. w -> Int], NEW b \in [1 .. w -> Int], a # b
    PROVE  Earlier(a, b) \/ Earlier(b, a)
<1>1. PICK k \in 1 .. w : ApartAt(a, b, k)
  BY Apart
<1>2. a[k] \in Int /\ b[k] \in Int /\ DOMAIN a = 1 .. w /\ DOMAIN b = 1 .. w
  OBVIOUS
<1>3. a[k] < b[k] \/ b[k] < a[k]
  BY <1>1, <1>2 DEF ApartAt
<1>4. \A j \in 1 .. k - 1 : a[j] = b[j] /\ b[j] = a[j]
  BY <1>1 DEF ApartAt
<1> QED
  BY <1>2, <1>3, <1>4 DEF Earlier

LEMMA EarlierOrders ==
    ASSUME NEW w \in Nat, NEW a \in [1 .. w -> Int], NEW b \in [1 .. w -> Int],
           NEW c \in [1 .. w -> Int]
    PROVE  ~ Earlier(a, a) /\ (Earlier(a, b) /\ Earlier(b, c) => Earlier(a, c))
<1>1. ~ Earlier(a, a)
  <2>1. \A k \in DOMAIN a : a[k] \in Int
    OBVIOUS
  <2> QED
    BY <2>1 DEF Earlier
<1>2. ASSUME Earlier(a, b), Earlier(b, c) PROVE Earlier(a, c)
  <2>1. PICK k \in 1 .. w : a[k] < b[k] /\ \A j \in 1 .. k - 1 : a[j] = b[j]
    BY <1>2 DEF Earlier
  <2>2. PICK l \in 1 .. w : b[l] < c[l] /\ \A j \in 1 .. l - 1 : b[j] = c[j]
    BY <1>2 DEF Earlier
  <2>3. \A j \in 1 .. w : a[j] \in Int /\ b[j] \in Int /\ c[j] \in Int
    OBVIOUS
  <2>4. CASE k < l
    <3>1. k \in 1 .. l - 1
      BY <2>4
    <3>2. a[k] < c[k]
      BY <2>1, <2>2, <3>1
    <3>3. \A j \in 1 .. k - 1 : j \in 1 .. l - 1
      BY <2>4
    <3>4. \A j \in 1 .. k - 1 : a[j] = c[j]
      BY <2>1, <2>2, <3>3
    <3> QED
      BY <3>2, <3>4 DEF Earlier
  <2>5. CASE k = l
    <3>1. a[k] < c[k]
      BY <2>1, <2>2, <2>3, <2>5
    <3>2. \A j \in 1 .. k - 1 : a[j] = c[j]
      BY <2>1, <2>2, <2>5
    <3> QED
      BY <3>1, <3>2 DEF Earlier
  <2>6. CASE l < k
    <3>1. l \in 1 .. k - 1
      BY <2>6
    <3>2. a[l] < c[l]
      BY <2>1, <2>2, <3>1
    <3>3. \A j \in 1 .. l - 1 : j \in 1 .. k - 1
      BY <2>6
    <3>4. \A j \in 1 .. l - 1 : a[j] = c[j]
      BY <2>1, <2>2, <3>3
    <3> QED
      BY <3>2, <3>4 DEF Earlier
  <2> QED
    BY <2>4, <2>5, <2>6
<1> QED
  BY <1>1, <1>2

\* rows shows every member of S once.
Enumerates(rows, S) ==
    /\ rows \in [1 .. Cardinality(S) -> S]
    /\ \A j, k \in 1 .. Cardinality(S) : rows[j] = rows[k] => j = k
    /\ \A x \in S : \E k \in 1 .. Cardinality(S) : rows[k] = x

\* Sorted by keys that tell any two apart, every row appears, once.
LEMMA InOrderEnumerates ==
    ASSUME NEW key, NEW S, S = DOMAIN key, IsFiniteSet(S), NEW w \in Nat, Keyed(key, w)
    PROVE  Enumerates(InOrder(key), S)
<1> PICK B, n, q : /\ B = [x \in S |-> Ahead(key, x)] /\ n = Cardinality(S)
                   /\ q = [k \in 1 .. n |-> RowAt(key, k)]
  OBVIOUS
<1>1. n \in Nat /\ q = InOrder(key)
  BY FS_CardinalityType, InOrderIs
<1>2. \A x \in S : key[x] \in [1 .. w -> Int]
  BY DEF Keyed
<1>3. B \in [S -> SUBSET S] /\ \A x, y \in S : y \in B[x] <=> Earlier(key[y], key[x])
  BY DEF Ahead
<1>4. \A x \in S : x \notin B[x]
  BY <1>2, <1>3, EarlierOrders
<1>5. \A x, y \in S : x \in B[y] => B[x] \subseteq B[y]
  <2> SUFFICES ASSUME NEW x \in S, NEW y \in S, x \in B[y], NEW z \in B[x]
               PROVE  z \in B[y]
    OBVIOUS
  <2>1. z \in S
    BY <1>3
  <2>2. Earlier(key[z], key[x]) /\ Earlier(key[x], key[y])
    BY <1>3, <2>1
  <2>3. Earlier(key[z], key[y])
    BY <1>2, <2>1, <2>2, EarlierOrders
  <2> QED
    BY <1>3, <2>1, <2>3
<1>6. \A x, y \in S : x # y => x \in B[y] \/ y \in B[x]
  <2> SUFFICES ASSUME NEW x \in S, NEW y \in S, x # y PROVE x \in B[y] \/ y \in B[x]
    OBVIOUS
  <2>1. key[x] # key[y]
    BY DEF Keyed
  <2>2. Earlier(key[x], key[y]) \/ Earlier(key[y], key[x])
    BY <1>2, <2>1, EarlierTotal
  <2> QED
    BY <1>3, <2>2
<1>7. RanksFill(S, B)
  BY <1>3, <1>4, <1>5, <1>6, RanksAreUsed
<1>8. /\ \A x \in S : Cardinality(Ahead(key, x)) \in 0 .. n - 1
      /\ \A x, y \in S : Cardinality(Ahead(key, x)) = Cardinality(Ahead(key, y)) => x = y
      /\ \A i \in 0 .. n - 1 : \E x \in S : Cardinality(Ahead(key, x)) = i
  BY <1>7 DEF RanksFill
<1>9. \A k \in 1 .. n : q[k] \in S /\ Cardinality(Ahead(key, q[k])) = k - 1
  <2> SUFFICES ASSUME NEW k \in 1 .. n
               PROVE  q[k] \in S /\ Cardinality(Ahead(key, q[k])) = k - 1
    OBVIOUS
  <2>1. k - 1 \in 0 .. n - 1
    BY <1>1
  <2>2. \E x \in S : Cardinality(Ahead(key, x)) = k - 1
    BY <1>8, <2>1
  <2>3. RowAt(key, k) \in S /\ Cardinality(Ahead(key, RowAt(key, k))) = k - 1
    BY <2>2 DEF RowAt
  <2> QED
    BY <2>3
<1>10. q \in [1 .. n -> S]
  BY <1>9
<1>11. \A j, k \in 1 .. n : q[j] = q[k] => j = k
  <2> SUFFICES ASSUME NEW j \in 1 .. n, NEW k \in 1 .. n, q[j] = q[k] PROVE j = k
    OBVIOUS
  <2>1. j - 1 = k - 1 /\ j \in Int /\ k \in Int
    BY <1>9
  <2> QED
    BY <2>1
<1>12. ASSUME NEW x \in S PROVE \E k \in 1 .. n : q[k] = x
  <2>1. PICK i \in 0 .. n - 1 : Cardinality(Ahead(key, x)) = i
    BY <1>8
  <2>2. i + 1 \in 1 .. n /\ (i + 1) - 1 = i
    BY <1>1
  <2>3. q[i + 1] = x
    BY <1>8, <1>9, <2>1, <2>2
  <2> QED
    BY <2>2, <2>3
<1> QED
  BY <1>1, <1>10, <1>11, <1>12 DEF Enumerates

LEMMA EnumeratesSeq ==
    ASSUME NEW S, IsFiniteSet(S), NEW rows, Enumerates(rows, S)
    PROVE  rows \in Seq(S) /\ Len(rows) = Cardinality(S)
<1> PICK n : n = Cardinality(S)
  OBVIOUS
<1>1. n \in Nat
  BY FS_CardinalityType
<1>2. rows \in [1 .. n -> S]
  BY DEF Enumerates
<1> QED
  BY <1>1, <1>2

LEMMA TupleOfFive == \A a, b, c, d, e \in Int : <<a, b, c, d, e>> \in [1 .. 5 -> Int]
<1> TAKE a, b, c, d, e \in Int
<1> PICK t : t = <<a, b, c, d, e>>
  OBVIOUS
<1>1. DOMAIN t = 1 .. 5 /\ t = [k \in 1 .. 5 |-> t[k]]
  OBVIOUS
<1>2. \A k \in 1 .. 5 : k = 1 \/ k = 2 \/ k = 3 \/ k = 4 \/ k = 5
  OBVIOUS
<1>3. t[1] \in Int /\ t[2] \in Int /\ t[3] \in Int /\ t[4] \in Int /\ t[5] \in Int
  OBVIOUS
<1>4. \A k \in 1 .. 5 : t[k] \in Int
  BY <1>2, <1>3
<1> QED
  BY <1>1, <1>4
==============================================================================
