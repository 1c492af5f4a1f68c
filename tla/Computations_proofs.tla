-------------------------- MODULE Computations_proofs --------------------------
(***************************************************************************)
(* What the parts that compute give for any input: the reports of a run,   *)
(* the display strings of locators, the settings the environment makes,    *)
(* what the history of a candidate counts for, and the ranking of the      *)
(* candidates.                                                             *)
(***************************************************************************)
EXTENDS QualityReports, CandidateLocators, CandidateRanking, RuntimeSettings, FiniteSetTheorems,
        SequenceTheorems, TLAPS

-----------------------------------------------------------------------------
(* Sums over finite sets, and the reports that are made of them.           *)

\* A set of natural numbers has a least one.
LEMMA LeastNatural ==
    ASSUME NEW T, T \subseteq Nat, T # {}
    PROVE  \E m \in T : \A k \in T : m <= k
<1>1. IsWellFoundedOn(OpToRel(<, Nat), Nat)
  BY NatLessThanWellFounded
<1>2. PICK m \in T : \A k \in T : ~(<<k, m>> \in OpToRel(<, Nat))
  BY <1>1, WFMin
<1>3. \A k \in T : ~(k < m)
  BY <1>2 DEF OpToRel
<1>. QED BY <1>3

\* Of the subsets of a finite set, some have a smallest one.
LEMMA SmallestSet ==
    ASSUME NEW S, IsFiniteSet(S), NEW T, T \subseteq SUBSET S, T # {}
    PROVE  \E m \in T : \A k \in T : k \subseteq m => k = m
<1>1. T \subseteq FiniteSubsetsOf(S)
  BY FS_FiniteSubsetsOfFinite
<1>2. PICK m \in T : \A k \in T : ~(<<k, m>> \in StrictSubsetOrdering(S))
  BY <1>1, WFMin, FS_StrictSubsetOrderingWellFounded
<1>. QED BY <1>2 DEF StrictSubsetOrdering

\* A function on the subsets of S defined from a smaller subset each.
Recursive(g, S, base, less, step) ==
    /\ g[{}] = base
    /\ \A T \in SUBSET S : T # {} => g[T] = step[<<T, g[less[T]]>>]

\* There is one such function, however it is written.
LEMMA RecursionIsUnique ==
    ASSUME NEW S, IsFiniteSet(S), NEW base, NEW less, NEW step,
           \A T \in SUBSET S : T # {} => less[T] \subseteq T /\ less[T] # T,
           NEW g, NEW h, Recursive(g, S, base, less, step), Recursive(h, S, base, less, step),
           NEW U \in SUBSET S
    PROVE  g[U] = h[U]
<1>. DEFINE wrong == {T \in SUBSET S : g[T] # h[T]}
<1>. SUFFICES ASSUME wrong # {} PROVE FALSE
  OBVIOUS
<1>0. wrong \subseteq SUBSET S
  OBVIOUS
<1>1. PICK m \in wrong : \A k \in wrong : k \subseteq m => k = m
  <2>. HIDE DEF wrong
  <2>. QED BY <1>0, SmallestSet
<1>2. CASE m = {}
  BY <1>2 DEF Recursive
<1>3. CASE m # {}
  <2>1. less[m] \subseteq m /\ less[m] # m /\ less[m] \in SUBSET S
    BY <1>3
  <2>2. less[m] \notin wrong
    BY <1>1, <2>1
  <2>3. g[less[m]] = h[less[m]]
    BY <2>1, <2>2
  <2>4. g[m] = step[<<m, g[less[m]]>>] /\ h[m] = step[<<m, h[less[m]]>>]
    BY <1>0, <1>3 DEF Recursive
  <2>. QED BY <2>3, <2>4
<1>. QED BY <1>2, <1>3

\* Such a function exists.
LEMMA RecursionExists ==
    ASSUME NEW S, IsFiniteSet(S), NEW V, NEW base \in V, NEW less, NEW step,
           \A T \in SUBSET S : T # {} => less[T] \subseteq T /\ less[T] # T,
           \A T \in SUBSET S : \A v \in V : T # {} => step[<<T, v>>] \in V
    PROVE  \E g \in [SUBSET S -> V] : Recursive(g, S, base, less, step)
<1>. DEFINE Good(g, T) == g \in [SUBSET T -> V] /\ Recursive(g, T, base, less, step)
            bad == {T \in SUBSET S : ~\E g : Good(g, T)}
<1>. SUFFICES ASSUME bad # {} PROVE FALSE
  OBVIOUS
<1>0. bad \subseteq SUBSET S
  OBVIOUS
<1>1. PICK m \in bad : \A k \in bad : k \subseteq m => k = m
  <2>. HIDE DEF bad
  <2>. QED BY <1>0, SmallestSet
<1>. DEFINE of(T) == CHOOSE g : Good(g, T)
            below(T) == of(T)[T]
            whole == [T \in SUBSET m |-> IF T # m THEN below(T)
                                         ELSE IF m = {} THEN base ELSE step[<<m, below(less[m])>>]]
<1>2. \A T \in SUBSET m : T # m => Good(of(T), T)
  <2>1. \A T \in SUBSET m : T # m => \E g : Good(g, T)
    BY <1>1
  <2>. HIDE DEF Good
  <2>. QED BY <2>1
<1>. HIDE DEF of
<1>3. \A T \in SUBSET m : T # m => below(T) \in V
  <2>. TAKE T \in SUBSET m
  <2>1. T # m => of(T) \in [SUBSET T -> V]
    BY <1>2
  <2>. QED BY <2>1
<1>4. \A T \in SUBSET m : T # {} => less[T] \subseteq T /\ less[T] # T /\ less[T] \in SUBSET m
  OBVIOUS
<1>5. \A T \in SUBSET m : T # m /\ T # {} => below(T) = step[<<T, below(less[T])>>]
  <2>. SUFFICES ASSUME NEW T \in SUBSET m, T # m, T # {}
                PROVE  below(T) = step[<<T, below(less[T])>>]
    OBVIOUS
  <2>1. less[T] \in SUBSET T /\ less[T] # m /\ less[T] \in SUBSET m
    BY <1>4
  <2>2. Recursive(of(T), less[T], base, less, step)
    BY <1>2, <2>1 DEF Recursive
  <2>3. Recursive(of(less[T]), less[T], base, less, step)
    BY <1>2, <2>1
  <2>4. IsFiniteSet(less[T])
    BY <2>1, FS_Subset
  <2>5. \A U \in SUBSET less[T] : U # {} => less[U] \subseteq U /\ less[U] # U
    BY <1>4, <2>1
  <2>6. of(T)[less[T]] = of(less[T])[less[T]]
    BY <2>2, <2>3, <2>4, <2>5, RecursionIsUnique
  <2>7. of(T)[T] = step[<<T, of(T)[less[T]]>>]
    BY <1>2 DEF Recursive
  <2>. QED BY <2>6, <2>7
<1>6. m # {} => below({}) = base
  BY <1>2 DEF Recursive
<1>7. whole \in [SUBSET m -> V]
  <2>1. m # {} => step[<<m, below(less[m])>>] \in V
    BY <1>3, <1>4
  <2>. HIDE DEF below
  <2>. QED BY <1>3, <2>1
<1>8. Recursive(whole, m, base, less, step)
  <2>. HIDE DEF below
  <2>1. whole[{}] = base
    BY <1>6
  <2>2. \A T \in SUBSET m : T # {} => whole[less[T]] = below(less[T])
    <3>. TAKE T \in SUBSET m
    <3>. HAVE T # {}
    <3>1. less[T] \in SUBSET m /\ less[T] # m
      BY <1>4
    <3>. QED BY <3>1
  <2>3. \A T \in SUBSET m : T # {} => whole[T] = step[<<T, below(less[T])>>]
    BY <1>5
  <2>. QED BY <2>1, <2>2, <2>3 DEF Recursive
<1>. QED BY <1>1, <1>7, <1>8

-----------------------------------------------------------------------------

\* The element SumFunction takes first.
TakenFirst(T) == CHOOSE x \in T : TRUE

\* SumFunctionOnSet of the community modules, one element at a time.
LEMMA SumUnfolds ==
    ASSUME NEW S, IsFiniteSet(S), NEW f \in [S -> Nat]
    PROVE  /\ SumFunctionOnSet(f, {}) = 0
           /\ \A T \in SUBSET S : SumFunctionOnSet(f, T) \in Nat
           /\ \A T \in SUBSET S : T # {} =>
                 SumFunctionOnSet(f, T) = f[TakenFirst(T)] + SumFunctionOnSet(f, T \ {TakenFirst(T)})
<1>. DEFINE pick(T) == CHOOSE x \in T : TRUE
            less == [T \in SUBSET S |-> T \ {pick(T)}]
            step == [pair \in (SUBSET S) \X Nat |-> f[pick(pair[1])] + pair[2]]
<1>0. \A T \in SUBSET S : T # {} => pick(T) \in T
  OBVIOUS
<1>. HIDE DEF pick
<1>1. \A T \in SUBSET S : T # {} => less[T] \subseteq T /\ less[T] # T
  BY <1>0
<1>2. \A T \in SUBSET S : \A v \in Nat : T # {} => step[<<T, v>>] = f[pick(T)] + v /\ step[<<T, v>>] \in Nat
  BY <1>0
<1>3. PICK g \in [SUBSET S -> Nat] : Recursive(g, S, 0, less, step)
  <2>. HIDE DEF less, step
  <2>. QED BY <1>1, <1>2, RecursionExists
<1>4. \A T \in SUBSET S : T # {} => g[T] = f[pick(T)] + g[T \ {pick(T)}]
  BY <1>2, <1>3 DEF Recursive
<1>5. ASSUME NEW T \in SUBSET S PROVE SumFunctionOnSet(f, T) = g[T]
  <2>. DEFINE body(iter) == [U \in SUBSET T |-> IF U = {} THEN 0 ELSE f[pick(U)] + iter[U \ {pick(U)}]]
              it == CHOOSE iter : iter = body(iter)
  <2>1. SumFunctionOnSet(f, T) = it[T]
    BY DEF SumFunctionOnSet, FoldFunctionOnSet, MapThenFoldSet, pick
  <2>2. IsFiniteSet(T) /\ T \in SUBSET T /\ \A U \in SUBSET T : U \in SUBSET S
    BY FS_Subset
  <2>3. [U \in SUBSET T |-> g[U]] = body([U \in SUBSET T |-> g[U]])
    <3>1. \A U \in SUBSET T : U \ {pick(U)} \in SUBSET T
      OBVIOUS
    <3>. QED BY <1>3, <1>4, <2>2, <3>1 DEF Recursive
  <2>4. it = body(it)
    <3>. HIDE DEF body
    <3>. QED BY <2>3
  <2>5. /\ it[{}] = 0
        /\ \A U \in SUBSET T : U # {} => it[U] = f[pick(U)] + it[U \ {pick(U)}]
    <3>. HIDE DEF it
    <3>1. \A U \in SUBSET T : it[U] = body(it)[U]
      BY <2>4
    <3>. QED BY <3>1
  <2>. DEFINE wrong == {U \in SUBSET T : it[U] # g[U]}
  <2>. HIDE DEF it
  <2>6. ASSUME wrong # {} PROVE FALSE
    <3>0. wrong \subseteq SUBSET T
      OBVIOUS
    <3>1. PICK m \in wrong : \A k \in wrong : k \subseteq m => k = m
      <4>. HIDE DEF wrong
      <4>. QED BY <2>2, <2>6, <3>0, SmallestSet
    <3>2. m # {}
      BY <1>3, <2>5 DEF Recursive
    <3>3. pick(m) \in m /\ m \ {pick(m)} \in SUBSET T
      BY <1>0, <2>2, <3>2
    <3>4. m \ {pick(m)} \notin wrong
      BY <3>1, <3>3
    <3>5. it[m \ {pick(m)}] = g[m \ {pick(m)}]
      BY <3>3, <3>4
    <3>. QED BY <1>4, <2>2, <2>5, <3>2, <3>5
  <2>. QED BY <2>1, <2>2, <2>6
<1>6. g[{}] = 0 /\ {} \in SUBSET S
  BY <1>3 DEF Recursive
<1>7. \A T \in SUBSET S : pick(T) = TakenFirst(T) /\ T \ {TakenFirst(T)} \in SUBSET S
  BY DEF pick, TakenFirst
<1>. QED BY <1>4, <1>5, <1>6, <1>7

(***************************************************************************)
(* A sum is that of any one element and the rest, whichever SumFunction    *)
(* takes first.                                                            *)
(***************************************************************************)
LEMMA SumRemoves ==
    ASSUME NEW S, IsFiniteSet(S), NEW f \in [S -> Nat]
    PROVE  /\ SumFunctionOnSet(f, {}) = 0
           /\ \A T \in SUBSET S : /\ SumFunctionOnSet(f, T) \in Nat
                                  /\ \A x \in T : SumFunctionOnSet(f, T)
                                                    = f[x] + SumFunctionOnSet(f, T \ {x})
<1>. DEFINE g == [T \in SUBSET S |-> SumFunctionOnSet(f, T)]
<1>1. /\ g \in [SUBSET S -> Nat] /\ g[{}] = 0
      /\ \A T \in SUBSET S : T # {} => g[T] = f[TakenFirst(T)] + g[T \ {TakenFirst(T)}]
      /\ \A T \in SUBSET S : SumFunctionOnSet(f, T) = g[T]
  <2>1. \A T \in SUBSET S : T \ {TakenFirst(T)} \in SUBSET S
    OBVIOUS
  <2>. QED BY <2>1, SumUnfolds
<1>. HIDE DEF g
<1>2. \A T \in SUBSET S : T # {} => TakenFirst(T) \in T
  BY DEF TakenFirst
<1>. DEFINE wrong == {T \in SUBSET S : \E x \in T : g[T] # f[x] + g[T \ {x}]}
<1>3. ASSUME wrong # {} PROVE FALSE
  <2>0. wrong \subseteq SUBSET S
    OBVIOUS
  <2>1. PICK m \in wrong : \A k \in wrong : k \subseteq m => k = m
    <3>. HIDE DEF wrong
    <3>. QED BY <1>3, <2>0, SmallestSet
  <2>2. PICK x \in m : g[m] # f[x] + g[m \ {x}]
    OBVIOUS
  <2>. DEFINE y == TakenFirst(m)
  <2>3. y \in m /\ m \in SUBSET S
    BY <1>2
  <2>4. g[m] = f[y] + g[m \ {y}] /\ x # y
    BY <1>1, <2>2, <2>3
  <2>. HIDE DEF y
  <2>5. m \ {y} \notin wrong /\ m \ {x} \notin wrong
    BY <2>1, <2>2, <2>3
  <2>6. /\ m \ {y} \in SUBSET S /\ m \ {x} \in SUBSET S /\ x \in m \ {y} /\ y \in m \ {x}
        /\ (m \ {y}) \ {x} = (m \ {x}) \ {y} /\ (m \ {y}) \ {x} \in SUBSET S
    BY <2>2, <2>3, <2>4
  <2>7. g[m \ {y}] = f[x] + g[(m \ {y}) \ {x}]
    BY <2>5, <2>6
  <2>8. g[m \ {x}] = f[y] + g[(m \ {x}) \ {y}]
    BY <2>5, <2>6
  <2>9. f[x] \in Nat /\ f[y] \in Nat /\ g[(m \ {y}) \ {x}] \in Nat
    BY <1>1, <2>2, <2>3, <2>6
  <2>10. g[m] = f[x] + g[m \ {x}]
    <3>1. g[m] = f[y] + (f[x] + g[(m \ {y}) \ {x}])
      BY <2>4, <2>7
    <3>2. g[m \ {x}] = f[y] + g[(m \ {y}) \ {x}]
      BY <2>6, <2>8
    <3>3. \A a, b, c \in Nat : a + (b + c) = b + (a + c)
      OBVIOUS
    <3>. QED BY ONLY <2>9, <3>1, <3>2, <3>3
  <2>. QED BY <2>2, <2>10
<1>4. \A T \in SUBSET S : \A x \in T : g[T] = f[x] + g[T \ {x}]
  BY <1>3
<1>5. \A T \in SUBSET S : \A x \in T : T \ {x} \in SUBSET S
  OBVIOUS
<1>. HIDE DEF wrong
<1>. QED BY <1>1, <1>4, <1>5

\* What the empty set has, and a set has if it is had by the set less one of its elements.
LEMMA SubsetInduction ==
    ASSUME NEW S, IsFiniteSet(S), NEW Q, {} \in Q,
           \A T \in SUBSET S : \A x \in T : T \ {x} \in Q => T \in Q
    PROVE  \A T \in SUBSET S : T \in Q
<1>. DEFINE wrong == {T \in SUBSET S : T \notin Q}
<1>1. ASSUME wrong # {} PROVE FALSE
  <2>0. wrong \subseteq SUBSET S
    OBVIOUS
  <2>1. PICK m \in wrong : \A k \in wrong : k \subseteq m => k = m
    <3>. HIDE DEF wrong
    <3>. QED BY <1>1, <2>0, SmallestSet
  <2>2. m \in SUBSET S /\ m \notin Q
    BY <2>0
  <2>3. PICK x \in m : TRUE
    BY <2>2
  <2>4. m \ {x} \in SUBSET S /\ m \ {x} \subseteq m /\ m \ {x} # m
    BY <2>2
  <2>5. m \ {x} \in Q
    BY <2>1, <2>4
  <2>. QED BY <2>2, <2>5
<1>. QED BY <1>1

\* Only the values on the set count, however far the functions go beyond it.
LEMMA SumDependsOnValues ==
    ASSUME NEW S, IsFiniteSet(S), NEW f \in [S -> Nat],
           NEW R, IsFiniteSet(R), NEW h \in [R -> Nat],
           NEW T, T \subseteq S, T \subseteq R, \A x \in T : f[x] = h[x]
    PROVE  SumFunctionOnSet(f, T) = SumFunctionOnSet(h, T)
<1>. DEFINE Q == {U \in SUBSET T : SumFunctionOnSet(f, U) = SumFunctionOnSet(h, U)}
<1>1. IsFiniteSet(T)
  BY FS_Subset
<1>2. {} \in Q
  BY SumRemoves
<1>3. \A U \in SUBSET T : \A x \in U : U \ {x} \in Q => U \in Q
  <2>. TAKE U \in SUBSET T
  <2>. TAKE x \in U
  <2>. HAVE U \ {x} \in Q
  <2>0. U \in SUBSET S /\ U \in SUBSET R
    OBVIOUS
  <2>1. SumFunctionOnSet(f, U) = f[x] + SumFunctionOnSet(f, U \ {x})
    BY <2>0, SumRemoves
  <2>2. SumFunctionOnSet(h, U) = h[x] + SumFunctionOnSet(h, U \ {x})
    BY <2>0, SumRemoves
  <2>3. f[x] = h[x] /\ SumFunctionOnSet(f, U \ {x}) = SumFunctionOnSet(h, U \ {x})
    OBVIOUS
  <2>. QED BY <2>1, <2>2, <2>3
<1>. HIDE DEF Q
<1>4. \A U \in SUBSET T : U \in Q
  BY <1>1, <1>2, <1>3, SubsetInduction
<1>5. T \in Q
  BY <1>4
<1>. QED BY <1>5 DEF Q

\* The sum of sums.
LEMMA SumIsAdditive ==
    ASSUME NEW S, IsFiniteSet(S), NEW f \in [S -> Nat], NEW g \in [S -> Nat], NEW h \in [S -> Nat],
           \A x \in S : h[x] = f[x] + g[x]
    PROVE  \A T \in SUBSET S :
              SumFunctionOnSet(h, T) = SumFunctionOnSet(f, T) + SumFunctionOnSet(g, T)
<1>. DEFINE Q == {T \in SUBSET S :
                    SumFunctionOnSet(h, T) = SumFunctionOnSet(f, T) + SumFunctionOnSet(g, T)}
<1>2. {} \in Q
  BY SumRemoves
<1>3. \A T \in SUBSET S : \A x \in T : T \ {x} \in Q => T \in Q
  <2>. TAKE T \in SUBSET S
  <2>. TAKE x \in T
  <2>. HAVE T \ {x} \in Q
  <2>0. T \ {x} \in SUBSET S /\ x \in S
    OBVIOUS
  <2>1. SumFunctionOnSet(f, T) = f[x] + SumFunctionOnSet(f, T \ {x}) /\ SumFunctionOnSet(f, T \ {x}) \in Nat
    BY <2>0, SumRemoves
  <2>2. SumFunctionOnSet(g, T) = g[x] + SumFunctionOnSet(g, T \ {x}) /\ SumFunctionOnSet(g, T \ {x}) \in Nat
    BY <2>0, SumRemoves
  <2>3. SumFunctionOnSet(h, T) = h[x] + SumFunctionOnSet(h, T \ {x})
    BY SumRemoves
  <2>4. f[x] \in Nat /\ g[x] \in Nat /\ h[x] = f[x] + g[x]
    BY <2>0
  <2>. QED BY <2>1, <2>2, <2>3, <2>4
<1>. HIDE DEF Q
<1>4. \A T \in SUBSET S : T \in Q
  BY <1>2, <1>3, SubsetInduction
<1>. QED BY <1>4 DEF Q

\* The sum of larger terms is larger.
LEMMA SumIsMonotone ==
    ASSUME NEW S, IsFiniteSet(S), NEW f \in [S -> Nat], NEW g \in [S -> Nat],
           \A x \in S : f[x] <= g[x]
    PROVE  SumFunctionOnSet(f, S) <= SumFunctionOnSet(g, S)
<1>. DEFINE d == [x \in S |-> g[x] - f[x]]
<1>1. d \in [S -> Nat] /\ \A x \in S : g[x] = f[x] + d[x]
  OBVIOUS
<1>. HIDE DEF d
<1>2. SumFunctionOnSet(g, S) = SumFunctionOnSet(f, S) + SumFunctionOnSet(d, S)
  BY <1>1, SumIsAdditive
<1>3. SumFunctionOnSet(f, S) \in Nat /\ SumFunctionOnSet(d, S) \in Nat
  BY <1>1, SumRemoves
<1>. QED BY <1>2, <1>3

\* Elements that add nothing may be left out.
LEMMA SumSkipsZeros ==
    ASSUME NEW S, IsFiniteSet(S), NEW f \in [S -> Nat], NEW R \in SUBSET S,
           \A x \in S \ R : f[x] = 0
    PROVE  SumFunctionOnSet(f, S) = SumFunctionOnSet(f, R)
<1>. DEFINE Q == {T \in SUBSET S : SumFunctionOnSet(f, T) = SumFunctionOnSet(f, T \cap R)}
<1>2. {} \in Q
  OBVIOUS
<1>3. \A T \in SUBSET S : \A x \in T : T \ {x} \in Q => T \in Q
  <2>. TAKE T \in SUBSET S
  <2>. TAKE x \in T
  <2>. HAVE T \ {x} \in Q
  <2>0. T \ {x} \in SUBSET S /\ x \in S /\ T \cap R \in SUBSET S
    OBVIOUS
  <2>1. SumFunctionOnSet(f, T) = f[x] + SumFunctionOnSet(f, T \ {x}) /\ SumFunctionOnSet(f, T \ {x}) \in Nat
    BY <2>0, SumRemoves
  <2>2. CASE x \in R
    <3>1. x \in T \cap R /\ (T \ {x}) \cap R = (T \cap R) \ {x}
      BY <2>2
    <3>2. SumFunctionOnSet(f, T \cap R) = f[x] + SumFunctionOnSet(f, (T \cap R) \ {x})
      BY <2>0, <3>1, SumRemoves
    <3>. QED BY <2>1, <3>1, <3>2
  <2>3. CASE x \notin R
    <3>1. (T \ {x}) \cap R = T \cap R /\ f[x] = 0
      BY <2>0, <2>3
    <3>2. SumFunctionOnSet(f, T \ {x}) = SumFunctionOnSet(f, (T \ {x}) \cap R)
      OBVIOUS
    <3>3. SumFunctionOnSet(f, T) = SumFunctionOnSet(f, T \ {x})
      BY <2>1, <3>1
    <3>. QED BY <3>1, <3>2, <3>3
  <2>. QED BY <2>2, <2>3
<1>. HIDE DEF Q
<1>4. \A T \in SUBSET S : T \in Q
  BY <1>2, <1>3, SubsetInduction
<1>5. S \cap R = R
  OBVIOUS
<1>. QED BY <1>4, <1>5 DEF Q

\* A sum in two parts.
LEMMA SumSplits ==
    ASSUME NEW S, IsFiniteSet(S), NEW f \in [S -> Nat], NEW R
    PROVE  SumFunctionOnSet(f, S) = SumFunctionOnSet(f, S \cap R) + SumFunctionOnSet(f, S \ R)
<1>. DEFINE left == [x \in S |-> IF x \in R THEN f[x] ELSE 0]
            right == [x \in S |-> IF x \in R THEN 0 ELSE f[x]]
<1>1. /\ left \in [S -> Nat] /\ right \in [S -> Nat]
      /\ \A x \in S : f[x] = left[x] + right[x]
      /\ \A x \in S \ (S \cap R) : left[x] = 0
      /\ \A x \in S \ (S \ R) : right[x] = 0
      /\ \A x \in S \cap R : left[x] = f[x]
      /\ \A x \in S \ R : right[x] = f[x]
  OBVIOUS
<1>. HIDE DEF left, right
<1>2. SumFunctionOnSet(f, S) = SumFunctionOnSet(left, S) + SumFunctionOnSet(right, S)
  BY <1>1, SumIsAdditive
<1>3. SumFunctionOnSet(left, S) = SumFunctionOnSet(f, S \cap R)
  <2>1. SumFunctionOnSet(left, S) = SumFunctionOnSet(left, S \cap R)
    BY <1>1, SumSkipsZeros
  <2>. QED BY <1>1, <2>1, SumDependsOnValues
<1>4. SumFunctionOnSet(right, S) = SumFunctionOnSet(f, S \ R)
  <2>1. SumFunctionOnSet(right, S) = SumFunctionOnSet(right, S \ R)
    BY <1>1, SumSkipsZeros
  <2>. QED BY <1>1, <2>1, SumDependsOnValues
<1>. QED BY <1>2, <1>3, <1>4

\* A sum is the sum of the sums of its groups.
LEMMA SumByGroup ==
    ASSUME NEW S, IsFiniteSet(S), NEW f \in [S -> Nat], NEW key, NEW K,
           IsFiniteSet(K), \A x \in S : f[x] > 0 => key[x] \in K,
           NEW sums, sums = [k \in K |-> SumFunctionOnSet(f, {x \in S : key[x] = k})]
    PROVE  /\ sums \in [K -> Nat]
           /\ SumFunctionOnSet(f, S) = SumFunctionOnSet(sums, K)
<1>. DEFINE group(L) == {x \in S : key[x] \in L}
            Q == {L \in SUBSET K : SumFunctionOnSet(sums, L) = SumFunctionOnSet(f, group(L))}
<1>1. IsFiniteSet(K)
  OBVIOUS
<1>2. sums \in [K -> Nat]
  <2>1. \A k \in K : {x \in S : key[x] = k} \in SUBSET S
    OBVIOUS
  <2>2. \A k \in K : SumFunctionOnSet(f, {x \in S : key[x] = k}) \in Nat
    BY <2>1, SumRemoves
  <2>. QED BY <2>2
<1>3. {} \in Q
  <2>1. group({}) = {} /\ {} \in SUBSET K
    OBVIOUS
  <2>2. SumFunctionOnSet(sums, {}) = 0
    BY <1>1, <1>2, SumRemoves
  <2>3. SumFunctionOnSet(f, {}) = 0
    BY SumRemoves
  <2>. QED BY <2>1, <2>2, <2>3
<1>4. ASSUME NEW L \in SUBSET K, NEW k \in L, L \ {k} \in Q PROVE L \in Q
  <2>1. SumFunctionOnSet(sums, L) = sums[k] + SumFunctionOnSet(sums, L \ {k})
    BY ONLY <1>1, <1>2, SumRemoves, L \in SUBSET K, k \in L
  <2>2. /\ group(L) \in SUBSET S
        /\ group(L) \cap {x \in S : key[x] = k} = {x \in S : key[x] = k}
        /\ group(L) \ {x \in S : key[x] = k} = group(L \ {k})
    OBVIOUS
  <2>3. IsFiniteSet(group(L)) /\ [x \in group(L) |-> f[x]] \in [group(L) -> Nat]
    BY <2>2, FS_Subset
  <2>4. \A T \in SUBSET group(L) : SumFunctionOnSet([x \in group(L) |-> f[x]], T) = SumFunctionOnSet(f, T)
    <3>. HIDE DEF group
    <3>. QED BY <2>2, <2>3, SumDependsOnValues
  <2>. DEFINE G == group(L)
              own == {x \in S : key[x] = k}
              h == [x \in G |-> f[x]]
  <2>5. SumFunctionOnSet(h, G) = SumFunctionOnSet(h, G \cap own) + SumFunctionOnSet(h, G \ own)
    <3>1. IsFiniteSet(G) /\ h \in [G -> Nat]
      BY <2>3
    <3>. HIDE DEF G, own, h
    <3>. QED BY <3>1, SumSplits
  <2>6. SumFunctionOnSet(f, G) = SumFunctionOnSet(f, own) + SumFunctionOnSet(f, group(L \ {k}))
    BY <2>2, <2>4, <2>5
  <2>7. sums[k] = SumFunctionOnSet(f, own)
    OBVIOUS
  <2>8. SumFunctionOnSet(sums, L \ {k}) = SumFunctionOnSet(f, group(L \ {k}))
    BY <1>4
  <2>. HIDE DEF own, h, group
  <2>. QED BY <2>1, <2>6, <2>7, <2>8
<1>5. SumFunctionOnSet(sums, K) = SumFunctionOnSet(f, group(K))
  <2>. HIDE DEF Q
  <2>1. \A L \in SUBSET K : L \in Q
    BY <1>1, <1>3, <1>4, SubsetInduction
  <2>. QED BY <2>1 DEF Q
<1>6. SumFunctionOnSet(f, S) = SumFunctionOnSet(f, group(K))
  <2>1. group(K) \in SUBSET S /\ \A x \in S \ group(K) : f[x] = 0
    OBVIOUS
  <2>. HIDE DEF group
  <2>. QED BY <2>1, SumSkipsZeros
<1>. QED BY <1>1, <1>2, <1>5, <1>6

\* Disjoint sets count for themselves, and a part for no more than the whole.
LEMMA SumOfUnion ==
    ASSUME NEW S, IsFiniteSet(S), NEW f \in [S -> Nat], NEW A \in SUBSET S, NEW B \in SUBSET S,
           A \cap B = {}
    PROVE  SumFunctionOnSet(f, A \cup B) = SumFunctionOnSet(f, A) + SumFunctionOnSet(f, B)
<1>. DEFINE U == A \cup B
            h == [x \in U |-> f[x]]
<1>1. /\ U \in SUBSET S /\ IsFiniteSet(U) /\ h \in [U -> Nat]
      /\ U \cap A = A /\ U \ A = B /\ A \subseteq U /\ B \subseteq U /\ U \subseteq U /\ U \subseteq S
      /\ \A x \in U : f[x] = h[x]
  BY FS_Subset
<1>. HIDE DEF U, h
<1>2. SumFunctionOnSet(h, U) = SumFunctionOnSet(h, A) + SumFunctionOnSet(h, B)
  <2>1. IsFiniteSet(U) /\ h \in [U -> Nat]
    BY <1>1
  <2>2. SumFunctionOnSet(h, U) = SumFunctionOnSet(h, U \cap A) + SumFunctionOnSet(h, U \ A)
    BY ONLY <2>1, SumSplits
  <2>. QED BY <1>1, <2>2
<1>3. SumFunctionOnSet(h, U) = SumFunctionOnSet(f, U)
  BY <1>1, SumDependsOnValues
<1>4. SumFunctionOnSet(h, A) = SumFunctionOnSet(f, A)
  BY <1>1, SumDependsOnValues
<1>5. SumFunctionOnSet(h, B) = SumFunctionOnSet(f, B)
  BY <1>1, SumDependsOnValues
<1>. QED BY <1>2, <1>3, <1>4, <1>5 DEF U

\* A part has a smaller sum.
LEMMA SumOfPart ==
    ASSUME NEW S, IsFiniteSet(S), NEW f \in [S -> Nat], NEW B \in SUBSET S, NEW A \in SUBSET B
    PROVE  SumFunctionOnSet(f, A) <= SumFunctionOnSet(f, B)
<1>1. A \in SUBSET S /\ B \ A \in SUBSET S /\ A \cap (B \ A) = {} /\ A \cup (B \ A) = B
  OBVIOUS
<1>2. SumFunctionOnSet(f, B) = SumFunctionOnSet(f, A) + SumFunctionOnSet(f, B \ A)
  BY <1>1, SumOfUnion
<1>3. SumFunctionOnSet(f, A) \in Nat /\ SumFunctionOnSet(f, B \ A) \in Nat
  BY <1>1, SumRemoves
<1>. QED BY <1>2, <1>3

\* A count of some cases is the sum of the counts of each group among them.
LEMMA CountByGroup ==
    ASSUME NEW S, IsFiniteSet(S), NEW f \in [S -> Nat], NEW R \in SUBSET S, NEW key,
           NEW K, IsFiniteSet(K), \A x \in R : f[x] > 0 => key[x] \in K,
           NEW sums \in [K -> Nat],
           \A k \in K : sums[k] = SumFunctionOnSet(f, {x \in R : key[x] = k})
    PROVE  SumFunctionOnSet(f, R) = SumFunctionOnSet(sums, K)
<1>. DEFINE h == [x \in R |-> f[x]]
<1>1. IsFiniteSet(R) /\ h \in [R -> Nat]
  BY FS_Subset
<1>3. \A x \in R : h[x] > 0 => key[x] \in K
  OBVIOUS
<1>4. \A x \in R : h[x] = f[x]
  OBVIOUS
<1>. HIDE DEF h
<1>5. \A k \in K : SumFunctionOnSet(f, {x \in R : key[x] = k}) = SumFunctionOnSet(h, {x \in R : key[x] = k})
  <2>. TAKE k \in K
  <2>. DEFINE T == {x \in R : key[x] = k}
  <2>1. T \subseteq S /\ T \subseteq R /\ \A x \in T : f[x] = h[x]
    BY <1>4
  <2>. HIDE DEF T
  <2>2. SumFunctionOnSet(f, T) = SumFunctionOnSet(h, T)
    BY ONLY <1>1, <2>1, SumDependsOnValues, IsFiniteSet(S), f \in [S -> Nat]
  <2>. QED BY <2>2 DEF T
<1>6. sums = [k \in K |-> SumFunctionOnSet(h, {x \in R : key[x] = k})]
  BY <1>5
<1>7. SumFunctionOnSet(h, R) = SumFunctionOnSet(sums, K)
  BY ONLY <1>1, <1>3, <1>6, SumByGroup, IsFiniteSet(K)
<1>8. SumFunctionOnSet(f, R) = SumFunctionOnSet(h, R)
  <2>1. R \subseteq S /\ R \subseteq R /\ \A x \in R : f[x] = h[x]
    BY <1>4
  <2>. QED BY ONLY <1>1, <2>1, SumDependsOnValues, IsFiniteSet(S), f \in [S -> Nat]
<1>. QED BY <1>7, <1>8

\* The groups that occur are finitely many.
LEMMA GroupsAreFinite ==
    ASSUME NEW S, IsFiniteSet(S), NEW f \in [S -> Nat], NEW key
    PROVE  IsFiniteSet({key[x] : x \in {y \in S : f[y] > 0}})
<1>. DEFINE P == {y \in S : f[y] > 0}
            K == {key[x] : x \in P}
<1>1. IsFiniteSet(P)
  BY FS_Subset
<1>2. [x \in P |-> key[x]] \in Surjection(P, K)
  BY DEF Surjection
<1>. HIDE DEF P, K
<1>3. IsFiniteSet(K)
  BY <1>1, <1>2, FS_Surjection
<1>. QED BY <1>3 DEF P, K

-----------------------------------------------------------------------------

\* A case of any results has one outcome, and counts its failed attempts.
LEMMA EveryCaseHasOneOutcome ==
    ASSUME NEW case, case.results \in Seq(STRING)
    PROVE  /\ FinalStatus(case) \in {"passed", "failed", "timedOut", "skipped", "interrupted", "unknown"}
           /\ FailedAttempts(case) \in Nat
<1>1. FinalStatus(case) \in {"passed", "failed", "timedOut", "skipped", "interrupted", "unknown"}
  BY DEF FinalStatus, NormalizeResultStatus
<1>2. Len(case.results) \in Nat /\ DOMAIN case.results = 1 .. Len(case.results)
  OBVIOUS
<1>3. IsFiniteSet(1 .. Len(case.results))
  BY <1>2, FS_Interval
<1>4. IsFiniteSet({i \in DOMAIN case.results :
                     ShouldCountAsFailed(NormalizeResultStatus(case.results[i]))})
  BY <1>2, <1>3, FS_Subset
<1>. QED BY <1>1, <1>4, FS_CardinalityType DEF FailedAttempts

SummaryAddsUp(of) ==
    /\ of.flaky <= of.passed
    /\ of.interrupted <= of.failed
    /\ of.total = of.passed + of.failed + of.skipped
                     + CountOf(of.count, LAMBDA c : WithStatus("unknown", c))
    /\ of.total = SumOver(of.projects, LAMBDA p : p.total)
    /\ of.flaky = SumOver(of.projects, LAMBDA p : p.flaky)
    /\ of.failed = SumOver(of.projects, LAMBDA p : p.failed)
    /\ of.failedAttempts = SumOver(of.projects, LAMBDA p : p.failedAttempts)

TriageAddsUp(of, from) ==
    /\ from.failing = of.failed
    /\ from.flaky >= of.flaky
    /\ from.flaky - of.flaky <= from.quarantined
    /\ from.total = from.flaky + from.failing
    /\ from.repeated <= of.flaky
    /\ from.flaky = SumOver(from.owners, LAMBDA o : o.flaky)
    /\ from.failing = SumOver(from.owners, LAMBDA o : o.failing)

\* Whatever the result files, buildFlakinessSummary counts every case once.
LEMMA SummariesAddUp ==
    ASSUME NEW input \in Inputs
    PROVE  SummaryAddsUp(BuildFlakinessSummary(input))
<1>. DEFINE count == input.count
            S == DOMAIN count
            in(status) == {c \in S : FinalStatus(c) = status}
            flaky == {c \in S : Flaky(c)}
            failed == {c \in S : Failing(c)}
            of == BuildFlakinessSummary(input)
            K == {c.project : c \in {y \in S : count[y] > 0}}
            own(p) == {c \in S : c.project = p}
            key == [c \in S |-> c.project]
<1>1. IsFiniteSet(S) /\ count \in [S -> Nat] /\ \A c \in S : c.results \in Seq(STRING)
  BY ReportAssumption
<1>2. \A c \in S : /\ FinalStatus(c) \in {"passed", "failed", "timedOut", "skipped", "interrupted", "unknown"}
                   /\ FailedAttempts(c) \in Nat
  BY <1>1, EveryCaseHasOneOutcome
<1>. HIDE DEF count, S
<1>n. IsFiniteSet(S) /\ count \in [S -> Nat]
  BY <1>1
<1>3. /\ of.count = count
      /\ of.total = SumFunctionOnSet(count, S)
      /\ of.flaky = SumFunctionOnSet(count, flaky)
      /\ of.failed = SumFunctionOnSet(count, failed)
      /\ of.passed = SumFunctionOnSet(count, in("passed"))
      /\ of.skipped = SumFunctionOnSet(count, in("skipped"))
      /\ of.interrupted = SumFunctionOnSet(count, in("interrupted"))
      /\ of.failedAttempts = SumFunctionOnSet([c \in S |-> count[c] * FailedAttempts(c)], S)
      /\ of.projects = ProjectBreakdown(count)
      /\ CountOf(count, LAMBDA c : WithStatus("unknown", c)) = SumFunctionOnSet(count, in("unknown"))
  BY DEF BuildFlakinessSummary, CountOf, Total, SumFunction, WithStatus, count, S
<1>4. of.flaky <= of.passed
  <2>1. in("passed") \in SUBSET S /\ flaky \in SUBSET in("passed")
    BY DEF Flaky
  <2>. HIDE DEF of, in, flaky
  <2>2. SumFunctionOnSet(count, flaky) <= SumFunctionOnSet(count, in("passed"))
    BY ONLY <1>1, <2>1, SumOfPart
  <2>. QED BY <1>3, <2>2
<1>5. of.interrupted <= of.failed
  <2>1. failed \in SUBSET S /\ in("interrupted") \in SUBSET failed
    BY DEF Failing, ShouldCountAsFailed
  <2>. HIDE DEF of, in, failed
  <2>2. SumFunctionOnSet(count, in("interrupted")) <= SumFunctionOnSet(count, failed)
    BY ONLY <1>1, <2>1, SumOfPart
  <2>. QED BY <1>3, <2>2
<1>6. of.total = of.passed + of.failed + of.skipped + SumFunctionOnSet(count, in("unknown"))
  <2>. DEFINE A == in("passed") \cup failed
              B == A \cup in("skipped")
  <2>1. /\ in("passed") \in SUBSET S /\ failed \in SUBSET S /\ in("passed") \cap failed = {}
        /\ A \in SUBSET S /\ in("skipped") \in SUBSET S /\ A \cap in("skipped") = {}
        /\ B \in SUBSET S /\ in("unknown") \in SUBSET S /\ B \cap in("unknown") = {}
    BY DEF Failing, ShouldCountAsFailed
  <2>2. B \cup in("unknown") = S
    BY <1>2 DEF Failing, ShouldCountAsFailed
  <2>. HIDE DEF A, B, in, failed, of
  <2>3. SumFunctionOnSet(count, A) = SumFunctionOnSet(count, in("passed")) + SumFunctionOnSet(count, failed)
    BY <1>1, <2>1, SumOfUnion DEF A
  <2>4. SumFunctionOnSet(count, B) = SumFunctionOnSet(count, A) + SumFunctionOnSet(count, in("skipped"))
    BY <1>1, <2>1, SumOfUnion DEF B
  <2>5. SumFunctionOnSet(count, B \cup in("unknown"))
           = SumFunctionOnSet(count, B) + SumFunctionOnSet(count, in("unknown"))
    BY <1>1, <2>1, SumOfUnion
  <2>. QED BY <1>3, <2>2, <2>3, <2>4, <2>5
<1>7. \A p \in K : Only(count, LAMBDA c : c.project = p) = [c \in own(p) |-> count[c]]
  BY DEF Only, S
<1>8. /\ DOMAIN of.projects = K
      /\ \A p \in K :
            /\ of.projects[p].total = SumFunctionOnSet(count, {c \in S : key[c] = p})
            /\ of.projects[p].flaky = SumFunctionOnSet(count, {c \in flaky : key[c] = p})
            /\ of.projects[p].failed = SumFunctionOnSet(count, {c \in failed : key[c] = p})
            /\ of.projects[p].failedAttempts
                  = SumFunctionOnSet([c \in S |-> count[c] * FailedAttempts(c)], {c \in S : key[c] = p})
  <2>1. DOMAIN of.projects = K
    BY <1>3 DEF ProjectBreakdown, Occurring, S
  <2>. SUFFICES ASSUME NEW p \in K
                PROVE  /\ of.projects[p].total = SumFunctionOnSet(count, {c \in S : key[c] = p})
                       /\ of.projects[p].flaky = SumFunctionOnSet(count, {c \in flaky : key[c] = p})
                       /\ of.projects[p].failed = SumFunctionOnSet(count, {c \in failed : key[c] = p})
                       /\ of.projects[p].failedAttempts
                            = SumFunctionOnSet([c \in S |-> count[c] * FailedAttempts(c)],
                                               {c \in S : key[c] = p})
    BY <2>1
  <2>. DEFINE few == [c \in own(p) |-> count[c]]
  <2>2. /\ of.projects[p].total = SumFunctionOnSet(few, own(p))
        /\ of.projects[p].flaky = SumFunctionOnSet(few, {c \in own(p) : Flaky(c)})
        /\ of.projects[p].failed = SumFunctionOnSet(few, {c \in own(p) : Failing(c)})
        /\ of.projects[p].failedAttempts
              = SumFunctionOnSet([c \in own(p) |-> few[c] * FailedAttempts(c)], own(p))
    <3>1. of.projects[p] =
             [total          |-> SumFunction(Only(count, LAMBDA c : c.project = p)),
              flaky          |-> CountOf(Only(count, LAMBDA c : c.project = p), Flaky),
              failed         |-> CountOf(Only(count, LAMBDA c : c.project = p), Failing),
              attempts       |-> Total(Only(count, LAMBDA c : c.project = p), Attempts),
              failedAttempts |-> Total(Only(count, LAMBDA c : c.project = p), FailedAttempts)]
      BY <1>3 DEF ProjectBreakdown, Occurring, S
    <3>2. /\ of.projects[p].total = SumFunction(few)
          /\ of.projects[p].flaky = CountOf(few, Flaky)
          /\ of.projects[p].failed = CountOf(few, Failing)
          /\ of.projects[p].failedAttempts = Total(few, FailedAttempts)
      <4>1. Only(count, LAMBDA c : c.project = p) = few
        BY <1>7
      <4>. HIDE DEF few, of
      <4>. QED BY <3>1, <4>1
    <3>3. DOMAIN few = own(p)
      OBVIOUS
    <3>. HIDE DEF few, of
    <3>. QED BY <3>2, <3>3 DEF CountOf, Total, SumFunction
  <2>3. /\ own(p) \in SUBSET S
        /\ {c \in S : key[c] = p} = own(p)
        /\ {c \in flaky : key[c] = p} = {c \in own(p) : Flaky(c)}
        /\ {c \in failed : key[c] = p} = {c \in own(p) : Failing(c)}
    OBVIOUS
  <2>4. \A T \in SUBSET own(p) : SumFunctionOnSet(few, T) = SumFunctionOnSet(count, T)
    <3>. DEFINE R == own(p)
    <3>1. R \in SUBSET S /\ few \in [R -> Nat] /\ \A c \in R : few[c] = count[c]
      BY <1>1, <2>3
    <3>. HIDE DEF R, few
    <3>2. IsFiniteSet(R)
      BY ONLY <1>1, <3>1, FS_Subset
    <3>3. ASSUME NEW T \in SUBSET R
          PROVE  SumFunctionOnSet(few, T) = SumFunctionOnSet(count, T)
      <4>1. T \subseteq R /\ T \subseteq S /\ \A c \in T : few[c] = count[c]
        BY <3>1
      <4>. QED BY ONLY <1>n, <3>1, <3>2, <4>1, SumDependsOnValues
    <3>. QED BY <3>3 DEF R
  <2>5. [c \in own(p) |-> few[c] * FailedAttempts(c)]
           = [c \in own(p) |-> [d \in S |-> count[d] * FailedAttempts(d)][c]]
    OBVIOUS
  <2>6. [d \in S |-> count[d] * FailedAttempts(d)] \in [S -> Nat]
    BY <1>1, <1>2
  <2>7. SumFunctionOnSet([c \in own(p) |-> few[c] * FailedAttempts(c)], own(p))
           = SumFunctionOnSet([d \in S |-> count[d] * FailedAttempts(d)], own(p))
    <3>. DEFINE h == [d \in S |-> count[d] * FailedAttempts(d)]
                R == own(p)
                part == [c \in R |-> few[c] * FailedAttempts(c)]
    <3>1. h \in [S -> Nat] /\ R \in SUBSET S
          /\ part \in [R -> Nat] /\ \A c \in R : part[c] = h[c]
      BY <2>3, <2>5, <2>6
    <3>. HIDE DEF h, R, part
    <3>2. IsFiniteSet(R) /\ R \subseteq R /\ R \subseteq S
      BY <1>1, <3>1, FS_Subset
    <3>3. SumFunctionOnSet(part, R) = SumFunctionOnSet(h, R)
      BY ONLY <1>n, <3>1, <3>2, SumDependsOnValues
    <3>. QED BY <3>3 DEF h, R, part
  <2>. QED BY <2>2, <2>3, <2>4, <2>7
<1>. HIDE DEF of
<1>k. \A c \in S : key[c] = c.project /\ (count[c] > 0 => key[c] \in K)
  OBVIOUS
<1>f. IsFiniteSet(K)
  <2>1. K = {key[c] : c \in {y \in S : count[y] > 0}}
    OBVIOUS
  <2>. HIDE DEF key, K
  <2>. QED BY <1>n, <2>1, GroupsAreFinite
<1>9. of.total = SumOver(of.projects, LAMBDA p : p.total)
  <2>. DEFINE sums == [p \in K |-> of.projects[p].total]
  <2>1. \A p \in K : sums[p] = SumFunctionOnSet(count, {c \in S : key[c] = p})
    BY <1>8
  <2>2. \A p \in K : {c \in S : key[c] = p} \in SUBSET S
    OBVIOUS
  <2>3. sums \in [K -> Nat]
    <3>1. \A p \in K : SumFunctionOnSet(count, {c \in S : key[c] = p}) \in Nat
      BY <1>n, <2>2, SumRemoves
    <3>. QED BY <2>1, <3>1
  <2>4. S \in SUBSET S /\ \A c \in S : count[c] > 0 => key[c] \in K
    BY <1>k
  <2>. HIDE DEF sums, K, key
  <2>5. SumFunctionOnSet(count, S) = SumFunctionOnSet(sums, K)
    BY ONLY <1>n, <1>f, <2>1, <2>3, <2>4, CountByGroup
  <2>. QED BY <1>3, <1>8, <2>5 DEF sums, SumOver, SumFunction
<1>10. of.flaky = SumOver(of.projects, LAMBDA p : p.flaky)
  <2>. DEFINE sums == [p \in K |-> of.projects[p].flaky]
  <2>1. \A p \in K : sums[p] = SumFunctionOnSet(count, {c \in flaky : key[c] = p})
    BY <1>8
  <2>2. \A p \in K : {c \in flaky : key[c] = p} \in SUBSET S
    OBVIOUS
  <2>3. sums \in [K -> Nat]
    <3>1. \A p \in K : SumFunctionOnSet(count, {c \in flaky : key[c] = p}) \in Nat
      BY <1>n, <2>2, SumRemoves
    <3>. QED BY <2>1, <3>1
  <2>4. flaky \in SUBSET S /\ \A c \in flaky : count[c] > 0 => key[c] \in K
    BY <1>k
  <2>. HIDE DEF sums, K, key, flaky
  <2>5. SumFunctionOnSet(count, flaky) = SumFunctionOnSet(sums, K)
    BY ONLY <1>n, <1>f, <2>1, <2>3, <2>4, CountByGroup
  <2>. QED BY <1>3, <1>8, <2>5 DEF sums, SumOver, SumFunction
<1>11. of.failed = SumOver(of.projects, LAMBDA p : p.failed)
  <2>. DEFINE sums == [p \in K |-> of.projects[p].failed]
  <2>1. \A p \in K : sums[p] = SumFunctionOnSet(count, {c \in failed : key[c] = p})
    BY <1>8
  <2>2. \A p \in K : {c \in failed : key[c] = p} \in SUBSET S
    OBVIOUS
  <2>3. sums \in [K -> Nat]
    <3>1. \A p \in K : SumFunctionOnSet(count, {c \in failed : key[c] = p}) \in Nat
      BY <1>n, <2>2, SumRemoves
    <3>. QED BY <2>1, <3>1
  <2>4. failed \in SUBSET S /\ \A c \in failed : count[c] > 0 => key[c] \in K
    BY <1>k
  <2>. HIDE DEF sums, K, key, failed
  <2>5. SumFunctionOnSet(count, failed) = SumFunctionOnSet(sums, K)
    BY ONLY <1>n, <1>f, <2>1, <2>3, <2>4, CountByGroup
  <2>. QED BY <1>3, <1>8, <2>5 DEF sums, SumOver, SumFunction
<1>12. of.failedAttempts = SumOver(of.projects, LAMBDA p : p.failedAttempts)
  <2>. DEFINE h == [c \in S |-> count[c] * FailedAttempts(c)]
              sums == [p \in K |-> of.projects[p].failedAttempts]
  <2>1. h \in [S -> Nat] /\ \A c \in S : h[c] > 0 => key[c] \in K
    <3>1. \A c \in S : count[c] \in Nat /\ FailedAttempts(c) \in Nat
      BY <1>2, <1>n
    <3>2. \A m, n \in Nat : m * n \in Nat /\ (m * n > 0 => m > 0)
      OBVIOUS
    <3>. HIDE DEF key, K
    <3>3. \A c \in S : h[c] \in Nat /\ (h[c] > 0 => count[c] > 0)
      BY <3>1, <3>2
    <3>. QED BY <1>k, <3>3
  <2>2. sums = [p \in K |-> SumFunctionOnSet(h, {c \in S : key[c] = p})]
    BY <1>8
  <2>. HIDE DEF h, sums, key, K
  <2>3. SumFunctionOnSet(h, S) = SumFunctionOnSet(sums, K)
    BY ONLY <1>n, <1>f, <2>1, <2>2, SumByGroup
  <2>. QED BY <1>3, <1>8, <2>3 DEF h, sums, SumOver, SumFunction
<1>. QED BY <1>3, <1>4, <1>5, <1>6, <1>9, <1>10, <1>11, <1>12 DEF SummaryAddsUp, of

\* The cases in the triage are the failing, the flaky and the quarantined ones.
LEMMA TriagesAddUp ==
    ASSUME NEW input \in Inputs, NEW policy
    PROVE  TriageAddsUp(BuildFlakinessSummary(input),
                        BuildFlakinessTriage(BuildFlakinessSummary(input), policy))
<1>. DEFINE count == input.count
            S == DOMAIN count
            of == BuildFlakinessSummary(input)
            from == BuildFlakinessTriage(of, policy)
            A == {c \in S : Triaged(c)}
            few == [c \in A |-> count[c]]
            isFlaky == {c \in S : Flaky(c)}
            isFailing == {c \in S : Failing(c)}
            flaky == {c \in A : TriageStatus(c) = "flaky"}
            failing == {c \in A : TriageStatus(c) = "failing"}
            held == {c \in A : c.quarantined}
            repeated == {c \in A : Flaky(c) /\ FailedAttempts(c) >= policy.threshold}
            key == [c \in S |-> ResolveFlakinessOwner(c.file, policy)]
            K == {key[c] : c \in {y \in A : few[y] > 0}}
            own(o) == {c \in A : key[c] = o}
<1>1. IsFiniteSet(S) /\ count \in [S -> Nat]
  BY ReportAssumption
<1>. HIDE DEF count, S
<1>2. /\ of.count = count
      /\ of.flaky = SumFunctionOnSet(count, isFlaky)
      /\ of.failed = SumFunctionOnSet(count, isFailing)
  BY DEF BuildFlakinessSummary, CountOf, count, S
<1>3. Only(of.count, Triaged) = few
  BY <1>2 DEF Only, S
<1>. HIDE DEF of
<1>a. A \in SUBSET S /\ IsFiniteSet(A) /\ few \in [A -> Nat] /\ \A c \in A : few[c] = count[c]
  BY <1>1, FS_Subset
<1>b. \A T \in SUBSET A : SumFunctionOnSet(few, T) = SumFunctionOnSet(count, T)
  <2>. HIDE DEF A, few
  <2>. TAKE T \in SUBSET A
  <2>1. T \subseteq S /\ T \subseteq A /\ \A c \in T : few[c] = count[c]
    BY <1>a
  <2>. QED BY ONLY <1>1, <1>a, <2>1, SumDependsOnValues
<1>4. /\ from.total = SumFunctionOnSet(count, A)
      /\ from.flaky = SumFunctionOnSet(count, flaky)
      /\ from.failing = SumFunctionOnSet(count, failing)
      /\ from.quarantined = SumFunctionOnSet(count, held)
      /\ from.repeated = SumFunctionOnSet(count, repeated)
  <2>1. DOMAIN few = A
    OBVIOUS
  <2>2. /\ from.total = SumFunction(few)
        /\ from.flaky = CountOf(few, LAMBDA c : TriageStatus(c) = "flaky")
        /\ from.failing = CountOf(few, LAMBDA c : TriageStatus(c) = "failing")
        /\ from.quarantined = CountOf(few, LAMBDA c : c.quarantined)
        /\ from.repeated = CountOf(few, LAMBDA c : Flaky(c) /\ FailedAttempts(c) >= policy.threshold)
    <3>. HIDE DEF few
    <3>. QED BY <1>3 DEF BuildFlakinessTriage
  <2>. HIDE DEF few, A
  <2>3. /\ from.total = SumFunctionOnSet(few, A)
        /\ from.flaky = SumFunctionOnSet(few, flaky)
        /\ from.failing = SumFunctionOnSet(few, failing)
        /\ from.quarantined = SumFunctionOnSet(few, held)
        /\ from.repeated = SumFunctionOnSet(few, repeated)
    <3>. HIDE DEF from
    <3>. QED BY <2>1, <2>2 DEF CountOf, SumFunction
  <2>4. /\ A \in SUBSET A /\ flaky \in SUBSET A /\ failing \in SUBSET A /\ held \in SUBSET A
        /\ repeated \in SUBSET A
    OBVIOUS
  <2>. HIDE DEF from, flaky, failing, held, repeated
  <2>. QED BY <1>b, <2>3, <2>4
<1>5. \A c \in S : /\ Flaky(c) => ~Failing(c)
                   /\ TriageStatus(c) = IF Failing(c) THEN "failing" ELSE "flaky"
                   /\ Triaged(c) <=> Flaky(c) \/ Failing(c) \/ c.quarantined
  BY DEF Flaky, Failing, ShouldCountAsFailed, TriageStatus, Triaged
<1>6. /\ failing = isFailing
      /\ isFlaky \in SUBSET flaky /\ flaky \in SUBSET S /\ flaky \ isFlaky \in SUBSET held
      /\ held \in SUBSET S /\ failing \in SUBSET S /\ repeated \in SUBSET isFlaky /\ isFlaky \in SUBSET S
      /\ flaky \cup failing = A /\ flaky \cap failing = {}
  BY <1>5
<1>. HIDE DEF from, A, flaky, failing, held, repeated, isFlaky, isFailing
<1>7. from.failing = of.failed /\ from.flaky >= of.flaky /\ from.repeated <= of.flaky
  <2>1. SumFunctionOnSet(count, isFlaky) <= SumFunctionOnSet(count, flaky)
    BY ONLY <1>1, <1>6, SumOfPart
  <2>2. SumFunctionOnSet(count, repeated) <= SumFunctionOnSet(count, isFlaky)
    BY ONLY <1>1, <1>6, SumOfPart
  <2>3. SumFunctionOnSet(count, isFlaky) \in Nat /\ SumFunctionOnSet(count, flaky) \in Nat
    BY ONLY <1>1, <1>6, SumRemoves
  <2>. QED BY <1>2, <1>4, <1>6, <2>1, <2>2, <2>3
<1>8. from.flaky - of.flaky <= from.quarantined
  <2>. DEFINE rest == flaky \ isFlaky
  <2>1. rest \in SUBSET held /\ rest \in SUBSET S /\ isFlaky \cap rest = {} /\ isFlaky \cup rest = flaky
    BY <1>6
  <2>. HIDE DEF rest
  <2>2. SumFunctionOnSet(count, isFlaky \cup rest)
           = SumFunctionOnSet(count, isFlaky) + SumFunctionOnSet(count, rest)
    BY ONLY <1>1, <1>6, <2>1, SumOfUnion
  <2>3. SumFunctionOnSet(count, rest) <= SumFunctionOnSet(count, held)
    BY ONLY <1>1, <1>6, <2>1, SumOfPart
  <2>4. /\ SumFunctionOnSet(count, isFlaky) \in Nat /\ SumFunctionOnSet(count, rest) \in Nat
        /\ SumFunctionOnSet(count, held) \in Nat
    BY ONLY <1>1, <1>6, <2>1, SumRemoves
  <2>5. SumFunctionOnSet(count, flaky)
           = SumFunctionOnSet(count, isFlaky) + SumFunctionOnSet(count, rest)
    BY <2>1, <2>2
  <2>6. /\ from.flaky = SumFunctionOnSet(count, flaky)
        /\ of.flaky = SumFunctionOnSet(count, isFlaky)
        /\ from.quarantined = SumFunctionOnSet(count, held)
    BY <1>2, <1>4
  <2>. QED BY ONLY <2>3, <2>4, <2>5, <2>6
<1>9. from.total = from.flaky + from.failing
  <2>1. SumFunctionOnSet(count, flaky \cup failing)
           = SumFunctionOnSet(count, flaky) + SumFunctionOnSet(count, failing)
    BY ONLY <1>1, <1>6, SumOfUnion
  <2>. QED BY <1>4, <1>6, <2>1
<1>10. /\ DOMAIN from.owners = K
       /\ \A o \in K :
             /\ from.owners[o].flaky = SumFunctionOnSet(count, {c \in flaky : key[c] = o})
             /\ from.owners[o].failing = SumFunctionOnSet(count, {c \in failing : key[c] = o})
  <2>0. \A c \in A : key[c] = ResolveFlakinessOwner(c.file, policy)
    BY <1>a
  <2>1. /\ DOMAIN from.owners = {ResolveFlakinessOwner(c.file, policy) : c \in Occurring(few)}
        /\ \A o \in DOMAIN from.owners :
              LET owned == Only(few, LAMBDA c : ResolveFlakinessOwner(c.file, policy) = o)
              IN  /\ from.owners[o].flaky = CountOf(owned, LAMBDA c : TriageStatus(c) = "flaky")
                  /\ from.owners[o].failing = CountOf(owned, LAMBDA c : TriageStatus(c) = "failing")
    <3>. HIDE DEF few
    <3>. QED BY <1>3 DEF from, BuildFlakinessTriage
  <2>2. DOMAIN few = A
    BY <1>a
  <2>. HIDE DEF key
  <2>3. DOMAIN from.owners = K
    <3>1. Occurring(few) = {y \in A : few[y] > 0}
      BY <2>2 DEF Occurring
    <3>. HIDE DEF few
    <3>. QED BY <2>0, <2>1, <3>1
  <2>4. ASSUME NEW o \in K
        PROVE  /\ from.owners[o].flaky = SumFunctionOnSet(count, {c \in flaky : key[c] = o})
               /\ from.owners[o].failing = SumFunctionOnSet(count, {c \in failing : key[c] = o})
    <3>. DEFINE owned == Only(few, LAMBDA c : ResolveFlakinessOwner(c.file, policy) = o)
    <3>1. owned = [c \in own(o) |-> few[c]]
      <4>1. {c \in A : ResolveFlakinessOwner(c.file, policy) = o} = own(o)
        BY <2>0
      <4>. HIDE DEF few, own
      <4>. QED BY <2>2, <4>1 DEF Only
    <3>2. /\ from.owners[o].flaky = CountOf(owned, LAMBDA c : TriageStatus(c) = "flaky")
          /\ from.owners[o].failing = CountOf(owned, LAMBDA c : TriageStatus(c) = "failing")
      BY <2>1, <2>3
    <3>3. /\ own(o) \in SUBSET S /\ IsFiniteSet(own(o)) /\ owned \in [own(o) -> Nat]
          /\ DOMAIN owned = own(o) /\ \A c \in own(o) : owned[c] = count[c]
      <4>1. own(o) \in SUBSET A
        OBVIOUS
      <4>. HIDE DEF own, few, owned
      <4>. QED BY <1>a, <3>1, <4>1, FS_Subset
    <3>4. /\ {c \in own(o) : TriageStatus(c) = "flaky"} = {c \in flaky : key[c] = o}
          /\ {c \in own(o) : TriageStatus(c) = "failing"} = {c \in failing : key[c] = o}
      BY DEF flaky, failing
    <3>. HIDE DEF owned
    <3>5. /\ from.owners[o].flaky = SumFunctionOnSet(owned, {c \in flaky : key[c] = o})
          /\ from.owners[o].failing = SumFunctionOnSet(owned, {c \in failing : key[c] = o})
      BY <3>2, <3>3, <3>4 DEF CountOf
    <3>. DEFINE O == own(o)
    <3>6. ASSUME NEW T \in SUBSET O PROVE SumFunctionOnSet(owned, T) = SumFunctionOnSet(count, T)
      <4>. HIDE DEF O
      <4>1. O \in SUBSET S /\ IsFiniteSet(O) /\ owned \in [O -> Nat]
        BY <3>3 DEF O
      <4>2. T \subseteq O /\ T \subseteq S /\ \A c \in T : owned[c] = count[c]
        BY <3>3 DEF O
      <4>. QED BY ONLY <1>1, <4>1, <4>2, SumDependsOnValues
    <3>7. {c \in flaky : key[c] = o} \in SUBSET O /\ {c \in failing : key[c] = o} \in SUBSET O
      BY DEF flaky, failing
    <3>. HIDE DEF O
    <3>. QED BY <3>5, <3>6, <3>7
  <2>. QED BY <2>3, <2>4
<1>11. \A c \in A : c \in S /\ (count[c] > 0 => key[c] \in K)
  BY <1>a
<1>f. \A c \in flaky \cup failing : c \in A
  BY <1>6
<1>12. IsFiniteSet(K)
  <2>. HIDE DEF key, few
  <2>. QED BY <1>a, GroupsAreFinite
<1>13. from.flaky = SumOver(from.owners, LAMBDA o : o.flaky)
  <2>. DEFINE sums == [o \in K |-> from.owners[o].flaky]
  <2>1. \A o \in K : sums[o] = SumFunctionOnSet(count, {c \in flaky : key[c] = o})
    BY <1>10
  <2>2. \A o \in K : {c \in flaky : key[c] = o} \in SUBSET S
    BY <1>6
  <2>3. sums \in [K -> Nat]
    <3>1. \A o \in K : SumFunctionOnSet(count, {c \in flaky : key[c] = o}) \in Nat
      BY <1>1, <2>2, SumRemoves
    <3>. QED BY <2>1, <3>1
  <2>4. flaky \in SUBSET S /\ \A c \in flaky : count[c] > 0 => key[c] \in K
    BY <1>6, <1>11, <1>f
  <2>. HIDE DEF sums, K, key, flaky
  <2>5. SumFunctionOnSet(count, flaky) = SumFunctionOnSet(sums, K)
    BY ONLY <1>1, <1>12, <2>1, <2>3, <2>4, CountByGroup
  <2>. QED BY <1>4, <1>10, <2>5 DEF sums, SumOver, SumFunction
<1>14. from.failing = SumOver(from.owners, LAMBDA o : o.failing)
  <2>. DEFINE sums == [o \in K |-> from.owners[o].failing]
  <2>1. \A o \in K : sums[o] = SumFunctionOnSet(count, {c \in failing : key[c] = o})
    BY <1>10
  <2>2. \A o \in K : {c \in failing : key[c] = o} \in SUBSET S
    BY <1>6
  <2>3. sums \in [K -> Nat]
    <3>1. \A o \in K : SumFunctionOnSet(count, {c \in failing : key[c] = o}) \in Nat
      BY <1>1, <2>2, SumRemoves
    <3>. QED BY <2>1, <3>1
  <2>4. failing \in SUBSET S /\ \A c \in failing : count[c] > 0 => key[c] \in K
    BY <1>6, <1>11, <1>f
  <2>. HIDE DEF sums, K, key, failing
  <2>5. SumFunctionOnSet(count, failing) = SumFunctionOnSet(sums, K)
    BY ONLY <1>1, <1>12, <2>1, <2>3, <2>4, CountByGroup
  <2>. QED BY <1>4, <1>10, <2>5 DEF sums, SumOver, SumFunction
<1>. QED BY <1>7, <1>8, <1>9, <1>13, <1>14 DEF TriageAddsUp, from, of

-----------------------------------------------------------------------------

\* The reports as a specification: new files in any order, then what is made of them.
ReportSpec == ReportInit /\ [][ReportNext]_reportVars

StatusOf(rates) ==
    BuildOverallStatus({ToMetricStatus(rates[key], SLO_METRIC_TARGETS[key]) : key \in MetricKeys})

ReportInv ==
    /\ summary # NoFile => SummaryAddsUp(summary) /\ TriageAddsUp(summary, triage)
    /\ dashboard # NoFile => dashboard.overall = StatusOf(dashboard.rates)
    /\ alerts # NoFile =>
          /\ alerts.overall = StatusOf(alerts.rates)
          /\ alerts.strict \in BOOLEAN
          /\ alerts.breaches = {i \in DOMAIN alerts.policy :
                                   LET rate == alerts.rates[alerts.policy[i].metric]
                                   IN  rate # NoRate /\ EvaluateThreshold(rate, alerts.policy[i])}
          /\ alerts.exit = IF \/ \E i \in alerts.breaches : alerts.policy[i].block
                              \/ alerts.strict /\ alerts.breaches # {}
                           THEN 1 ELSE 0

\* The thresholds of the repository's policy are the targets of the dashboard.
LEMMA PolicyRepeatsTheTargets ==
    ASSUME NEW rates
    PROVE  /\ StatusOf(rates) = "degraded" <=>
                 \E i \in DOMAIN SloAlertPolicy :
                    LET rate == rates[SloAlertPolicy[i].metric]
                    IN  rate # NoRate /\ EvaluateThreshold(rate, SloAlertPolicy[i])
           /\ StatusOf(rates) = "insufficient_data" <=> \A key \in MetricKeys : rates[key] = NoRate
           /\ \A i \in DOMAIN SloAlertPolicy : SloAlertPolicy[i].block = FALSE
<1>. DEFINE status(key) == ToMetricStatus(rates[key], SLO_METRIC_TARGETS[key])
            statuses == {status(key) : key \in MetricKeys}
            fires(i) == /\ rates[SloAlertPolicy[i].metric] # NoRate
                        /\ EvaluateThreshold(rates[SloAlertPolicy[i].metric], SloAlertPolicy[i])
<1>1. \A key \in MetricKeys :
         /\ status(key) \in {"insufficient_data", "breached", "met"}
         /\ status(key) = "insufficient_data" <=> rates[key] = NoRate
  BY DEF ToMetricStatus
<1>2. StatusOf(rates) = "degraded" <=> \E key \in MetricKeys : status(key) = "breached"
  BY DEF StatusOf, BuildOverallStatus
<1>3. StatusOf(rates) = "insufficient_data" <=> \A key \in MetricKeys : rates[key] = NoRate
  <2>1. StatusOf(rates) = "insufficient_data" <=> "breached" \notin statuses /\ "met" \notin statuses
    BY DEF StatusOf, BuildOverallStatus
  <2>. HIDE DEF status
  <2>. QED BY <1>1, <2>1
<1>4. /\ DOMAIN SloAlertPolicy = 1 .. 5
      /\ \A i \in 1 .. 5 : SloAlertPolicy[i].block = FALSE
      /\ SloAlertPolicy[1].metric = "passRate" /\ SloAlertPolicy[2].metric = "failureRate"
      /\ SloAlertPolicy[3].metric = "flakeRate" /\ SloAlertPolicy[4].metric = "retryFailureRate"
      /\ SloAlertPolicy[5].metric = "guardedAutoHealFailureRate"
  BY DEF SloAlertPolicy
<1>5. /\ status("passRate") = "breached" <=> fires(1)
      /\ status("failureRate") = "breached" <=> fires(2)
      /\ status("flakeRate") = "breached" <=> fires(3)
      /\ status("retryFailureRate") = "breached" <=> fires(4)
      /\ status("guardedAutoHealFailureRate") = "breached" <=> fires(5)
  BY DEF SloAlertPolicy, ToMetricStatus, SLO_METRIC_TARGETS, MetricKeys, EvaluateThreshold
<1>6. (\E key \in MetricKeys : status(key) = "breached") <=> \E i \in 1 .. 5 : fires(i)
  <2>. HIDE DEF status, fires
  <2>1. \A i \in 1 .. 5 : i = 1 \/ i = 2 \/ i = 3 \/ i = 4 \/ i = 5
    OBVIOUS
  <2>2. 1 \in 1 .. 5 /\ 2 \in 1 .. 5 /\ 3 \in 1 .. 5 /\ 4 \in 1 .. 5 /\ 5 \in 1 .. 5
    OBVIOUS
  <2>. QED BY <1>5, <2>1, <2>2 DEF MetricKeys
<1>. QED BY <1>2, <1>3, <1>4, <1>6

\* One step per report.
LEMMA StepsKeepReportInv == ReportInv /\ [ReportNext]_reportVars => ReportInv'
<1>. SUFFICES ASSUME ReportInv, [ReportNext]_reportVars PROVE ReportInv'
  OBVIOUS
<1>1. CASE UNCHANGED reportVars
  BY <1>1 DEF reportVars, ReportInv
<1>2. CASE ReportFlakiness
  <2>1. PICK input \in Inputs, policy \in TriagePolicies :
           /\ summary' = BuildFlakinessSummary(input)
           /\ triage' = BuildFlakinessTriage(summary', policy)
           /\ UNCHANGED <<dashboard, alerts>>
    BY <1>2 DEF ReportFlakiness
  <2>2. SummaryAddsUp(summary') /\ TriageAddsUp(summary', triage')
    BY <2>1, SummariesAddUp, TriagesAddUp
  <2>. QED BY <2>1, <2>2 DEF ReportInv
<1>3. CASE ReportDashboard
  <2>1. PICK governance \in Governances : dashboard' = BuildSloDashboard(summary, governance)
    BY <1>3 DEF ReportDashboard
  <2>2. dashboard'.overall = StatusOf(dashboard'.rates)
    BY <2>1 DEF BuildSloDashboard, StatusOf
  <2>. QED BY <1>3, <2>2 DEF ReportDashboard, ReportInv
<1>4. CASE ReportAlerts
  <2>1. PICK policy \in Policies, failOnBreach \in BOOLEAN :
           alerts' = EvaluateAlertPolicy(dashboard, policy, failOnBreach)
    BY <1>4 DEF ReportAlerts
  <2>2. dashboard.overall = StatusOf(dashboard.rates) /\ UNCHANGED <<summary, triage, dashboard>>
    BY <1>4 DEF ReportAlerts, ReportInv
  <2>3. /\ alerts'.overall = StatusOf(alerts'.rates) /\ alerts'.policy = policy
        /\ alerts'.rates = dashboard.rates /\ alerts'.strict = failOnBreach
    BY <2>1, <2>2 DEF EvaluateAlertPolicy
  <2>4. alerts'.breaches = {i \in DOMAIN alerts'.policy :
                               LET rate == alerts'.rates[alerts'.policy[i].metric]
                               IN  rate # NoRate /\ EvaluateThreshold(rate, alerts'.policy[i])}
    BY <2>1 DEF EvaluateAlertPolicy
  <2>5. alerts'.exit = IF \/ \E i \in alerts'.breaches : alerts'.policy[i].block
                          \/ alerts'.strict /\ alerts'.breaches # {}
                       THEN 1 ELSE 0
    BY <2>1 DEF EvaluateAlertPolicy
  <2>. QED BY <2>2, <2>3, <2>4, <2>5 DEF ReportInv
<1>. QED BY <1>1, <1>2, <1>3, <1>4 DEF ReportNext

(***************************************************************************)
(* The summary, the triage, the dashboard and the alerts tell one story,   *)
(* whatever the result files, governance, triage policies and alert        *)
(* policies (flakinessReport.ts, sloDashboard.ts, alertPolicies.ts).       *)
(***************************************************************************)
THEOREM ReportsAlwaysAgree == ReportSpec => []ReportsAgree
<1>1. ReportInit => ReportInv
  BY DEF ReportInit, ReportInv
<1>2. ReportInv => ReportsAgree
  <2>. SUFFICES ASSUME ReportInv PROVE ReportsAgree
    OBVIOUS
  <2>1. summary # NoFile => SummaryAddsUp(summary) /\ TriageAddsUp(summary, triage)
    BY DEF ReportInv
  <2>2. ASSUME alerts # NoFile, alerts.policy = SloAlertPolicy
        PROVE  /\ alerts.overall = "degraded" <=> alerts.breaches # {}
               /\ alerts.overall = "insufficient_data" <=> \A key \in MetricKeys : alerts.rates[key] = NoRate
               /\ alerts.exit = 1 <=> alerts.strict /\ alerts.overall = "degraded"
    <3>. DEFINE rates == alerts.rates
    <3>1. /\ StatusOf(rates) = "degraded" <=>
                 \E i \in DOMAIN SloAlertPolicy :
                    LET rate == rates[SloAlertPolicy[i].metric]
                    IN  rate # NoRate /\ EvaluateThreshold(rate, SloAlertPolicy[i])
          /\ StatusOf(rates) = "insufficient_data" <=> \A key \in MetricKeys : rates[key] = NoRate
          /\ \A i \in DOMAIN SloAlertPolicy : SloAlertPolicy[i].block = FALSE
      BY PolicyRepeatsTheTargets
    <3>2. /\ alerts.overall = StatusOf(rates)
          /\ alerts.breaches = {i \in DOMAIN SloAlertPolicy :
                                   LET rate == rates[SloAlertPolicy[i].metric]
                                   IN  rate # NoRate /\ EvaluateThreshold(rate, SloAlertPolicy[i])}
      BY <2>2 DEF ReportInv
    <3>3. alerts.exit = IF \/ \E i \in alerts.breaches : SloAlertPolicy[i].block
                           \/ alerts.strict /\ alerts.breaches # {}
                        THEN 1 ELSE 0
      BY <2>2 DEF ReportInv
    <3>. QED BY <3>1, <3>2, <3>3
  <2>. QED BY <2>1, <2>2 DEF ReportsAgree, SummaryAddsUp, TriageAddsUp
<1>. QED BY <1>1, <1>2, StepsKeepReportInv, PTL DEF ReportSpec

-----------------------------------------------------------------------------
(* Sequences read from the left, as display strings are.                   *)

\* The greatest of the first numbers.
LEMMA GreatestOfPrefix ==
    ASSUME NEW k \in Nat
    PROVE  Max(1 .. k + 1) = k + 1 /\ (1 .. k + 1) \ {k + 1} = 1 .. k
<1>1. k + 1 \in 1 .. k + 1 /\ \A y \in 1 .. k + 1 : k + 1 >= y
  OBVIOUS
<1>2. \A x \in 1 .. k + 1 : (\A y \in 1 .. k + 1 : x >= y) => x = k + 1
  OBVIOUS
<1>. QED BY <1>1, <1>2 DEF Max

\* The greatest of a set of numbers from 1 to n.
LEMMA GreatestOfSet ==
    ASSUME NEW n \in Nat, NEW T \in SUBSET (1 .. n), T # {}
    PROVE  Max(T) \in T
<1>. DEFINE above == {m \in Nat : \A y \in T : y <= m}
<1>1. n \in above
  OBVIOUS
<1>2. PICK m \in above : \A k \in above : m <= k
  <2>1. above \subseteq Nat /\ above # {}
    BY <1>1
  <2>. HIDE DEF above
  <2>. QED BY <2>1, LeastNatural
<1>3. ASSUME m \notin T PROVE FALSE
  <2>0. PICK x \in T : TRUE
    OBVIOUS
  <2>1. x >= 1 /\ x <= m /\ x # m /\ m \in Nat
    BY <1>2, <1>3, <2>0
  <2>2. m - 1 \in Nat /\ \A y \in T : y <= m - 1
    BY <1>3, <2>1
  <2>. QED BY <1>2, <2>2
<1>4. m \in T /\ \A y \in T : m >= y
  BY <1>3
<1>. QED BY <1>4 DEF Max

(***************************************************************************)
(* A FoldLeft takes the elements from left to right: the recursion in the  *)
(* definition of the community modules has a solution, and the one CHOSEN  *)
(* goes from each prefix to the next.  `step` is a function of a set of    *)
(* places and of the value so far.                                         *)
(***************************************************************************)
Folds(g, S, base, step) ==
    /\ g[{}] = base
    /\ \A T \in SUBSET S : T # {} => g[T] = step[<<T, g[T \ {Max(T)}]>>]

\* FoldLeft of the community modules, one element at a time.
LEMMA FoldExists ==
    ASSUME NEW n \in Nat, NEW V, NEW base \in V, NEW step,
           \A T \in SUBSET (1 .. n) : \A v \in V : T # {} => step[<<T, v>>] \in V
    PROVE  \E g \in [SUBSET (1 .. n) -> V] : Folds(g, 1 .. n, base, step)
<1>. DEFINE less == [T \in SUBSET (1 .. n) |-> T \ {Max(T)}]
<1>1. \A T \in SUBSET (1 .. n) : T # {} => less[T] \subseteq T /\ less[T] # T
  BY GreatestOfSet
<1>2. IsFiniteSet(1 .. n)
  BY FS_Interval
<1>3. \E g \in [SUBSET (1 .. n) -> V] : Recursive(g, 1 .. n, base, less, step)
  <2>1. \A T \in SUBSET (1 .. n) : \A v \in V : T # {} => step[<<T, v>>] \in V
    OBVIOUS
  <2>. HIDE DEF less
  <2>. QED BY <1>1, <1>2, <2>1, RecursionExists
<1>4. \A T \in SUBSET (1 .. n) : less[T] = T \ {Max(T)}
  OBVIOUS
<1>. HIDE DEF less
<1>5. PICK g \in [SUBSET (1 .. n) -> V] : Recursive(g, 1 .. n, base, less, step)
  BY <1>3
<1>6. ASSUME NEW T \in SUBSET (1 .. n), T # {} PROVE g[T] = step[<<T, g[T \ {Max(T)}]>>]
  <2>1. g[T] = step[<<T, g[less[T]]>>]
    BY <1>5, <1>6 DEF Recursive
  <2>. QED BY <1>4, <2>1
<1>7. g[{}] = base
  BY <1>5 DEF Recursive
<1>. QED BY <1>6, <1>7 DEF Folds

\* What holds of 0 and of each number up to n that follows one it holds of.
LEMMA InductionUpTo ==
    ASSUME NEW n \in Nat, NEW Q, 0 \in Q, \A k \in 0 .. n - 1 : k \in Q => k + 1 \in Q
    PROVE  \A k \in 0 .. n : k \in Q
<1>. DEFINE wrong == {k \in 0 .. n : k \notin Q}
<1>1. ASSUME wrong # {} PROVE FALSE
  <2>1. PICK m \in wrong : \A k \in wrong : m <= k
    <3>1. wrong \subseteq Nat
      OBVIOUS
    <3>. HIDE DEF wrong
    <3>. QED BY <1>1, <3>1, LeastNatural
  <2>2. m # 0 /\ m - 1 \in 0 .. n - 1 /\ (m - 1) + 1 = m
    BY <2>1
  <2>3. m - 1 \notin wrong
    BY <2>1, <2>2
  <2>4. m - 1 \in Q
    BY <2>2, <2>3
  <2>. QED BY <2>1, <2>2, <2>4
<1>. QED BY <1>1

-----------------------------------------------------------------------------
(* Taking backslashes off.                                                 *)

\* Up to place k, no backslash stands before a character it may be taken off.
Whole(t, escaped, k) == \A i \in 1 .. k - 1 : t[i] = Backslash => t[i + 1] \notin escaped

\* A reading of the first k characters: all of them, or fewer once a backslash is off.
Places == {"open", "escaped"}
Kept(t, escaped, k, read) ==
    /\ read.at \in Places
    /\ IF Whole(t, escaped, k)
       THEN /\ read.at = "escaped" <=> k > 0 /\ t[k] = Backslash
            /\ read.text = SubSeq(t, 1, IF read.at = "escaped" THEN k - 1 ELSE k)
       ELSE Len(read.text) < k /\ (read.at = "escaped" => Len(read.text) + 1 < k)

Reading(C) == [text : Seq(C), at : Places]

\* One character more is a reading of it.
LEMMA TakeOffReads ==
    ASSUME NEW C, Backslash \in C, NEW escaped, NEW read \in Reading(C), NEW c \in C
    PROVE  TakeOff(escaped, read, c) \in Reading(C)
<1>1. Append(read.text, c) \in Seq(C) /\ Append(read.text, Backslash) \in Seq(C)
  BY DEF Reading, Places
<1>2. read.text \o <<Backslash, c>> \in Seq(C)
  BY DEF Reading, Places
<1>. QED BY <1>1, <1>2 DEF Reading, Places, TakeOff

\* Two elements more are one and one.
LEMMA TwoMore ==
    ASSUME NEW C, NEW s \in Seq(C), NEW a \in C, NEW b \in C
    PROVE  s \o <<a, b>> = Append(Append(s, a), b)
OBVIOUS

\* One character more keeps what is known of the reading.
LEMMA TakeOffKeeps ==
    ASSUME NEW C, Backslash \in C, NEW escaped, NEW t \in Seq(C), NEW k \in 0 .. Len(t) - 1,
           NEW read \in Reading(C), Kept(t, escaped, k, read)
    PROVE  Kept(t, escaped, k + 1, TakeOff(escaped, read, t[k + 1]))
<1>. DEFINE c == t[k + 1]
            after == TakeOff(escaped, read, c)
<1>0. c \in C /\ k \in Nat /\ k + 1 \in 1 .. Len(t)
  OBVIOUS
<1>1. Whole(t, escaped, k + 1) <=> Whole(t, escaped, k) /\ ~(k > 0 /\ t[k] = Backslash /\ c \in escaped)
  BY DEF Whole
<1>2. read.text \in Seq(C) /\ read.at \in Places /\ Len(read.text) \in Nat
  BY DEF Reading, Places
<1>3. /\ Append(read.text, c) \in Seq(C) /\ Len(Append(read.text, c)) = Len(read.text) + 1
      /\ Len(Append(read.text, Backslash)) = Len(read.text) + 1
      /\ Len(read.text \o <<Backslash, c>>) = Len(read.text) + 2
  BY <1>0, <1>2
<1>4. /\ Append(SubSeq(t, 1, k), c) = SubSeq(t, 1, k + 1)
      /\ k > 0 => Append(SubSeq(t, 1, k - 1), t[k]) = SubSeq(t, 1, k)
      /\ Len(SubSeq(t, 1, k)) = k
      /\ k > 0 => Len(SubSeq(t, 1, k - 1)) = k - 1
  BY <1>0
<1>. HIDE DEF c
<1>5. /\ read.at = "open" /\ c = Backslash => after = [text |-> read.text, at |-> "escaped"]
      /\ read.at = "open" /\ c # Backslash => after = [text |-> Append(read.text, c), at |-> "open"]
      /\ read.at = "escaped" /\ c \in escaped => after = [text |-> Append(read.text, c), at |-> "open"]
      /\ read.at = "escaped" /\ c \notin escaped /\ c = Backslash =>
            after = [text |-> Append(read.text, Backslash), at |-> "escaped"]
      /\ read.at = "escaped" /\ c \notin escaped /\ c # Backslash =>
            after = [text |-> read.text \o <<Backslash, c>>, at |-> "open"]
  <2>1. read = [text |-> read.text, at |-> read.at]
    BY DEF Reading, Places
  <2>. QED BY <2>1, <1>2 DEF TakeOff, Places
<1>. HIDE DEF after
<1>6. CASE Whole(t, escaped, k)
  <2>1. /\ read.at = "escaped" <=> k > 0 /\ t[k] = Backslash
        /\ read.text = SubSeq(t, 1, IF read.at = "escaped" THEN k - 1 ELSE k)
    BY <1>6 DEF Kept
  <2>2. CASE read.at = "open" /\ c = Backslash
    <3>1. Whole(t, escaped, k + 1)
      BY <1>1, <1>6, <2>1, <2>2
    <3>2. after.at = "escaped" /\ after.text = SubSeq(t, 1, k)
      BY <1>5, <2>1, <2>2
    <3>. QED BY <1>0, <1>5, <2>2, <3>1, <3>2 DEF Kept, Places, c, after
  <2>3. CASE read.at = "open" /\ c # Backslash
    <3>1. Whole(t, escaped, k + 1)
      BY <1>1, <1>6, <2>1, <2>3
    <3>2. read.text = SubSeq(t, 1, k)
      BY <2>1, <2>3
    <3>3. after = [text |-> SubSeq(t, 1, k + 1), at |-> "open"]
      BY <1>4, <1>5, <2>3, <3>2
    <3>. QED BY <1>0, <2>3, <3>1, <3>3 DEF Kept, Places, c, after
  <2>4. CASE read.at = "escaped" /\ c \in escaped
    <3>1. ~Whole(t, escaped, k + 1)
      BY <1>1, <1>6, <2>1, <2>4
    <3>2. read.text = SubSeq(t, 1, k - 1) /\ k > 0
      BY <2>1, <2>4
    <3>3. Len(Append(read.text, c)) = k
      BY <1>0, <1>3, <1>4, <3>2
    <3>4. after = [text |-> Append(read.text, c), at |-> "open"]
      BY <1>5, <2>4
    <3>5. Len(after.text) = k /\ after.at = "open"
      BY <3>3, <3>4
    <3>6. Len(after.text) < k + 1 /\ (after.at = "escaped" => Len(after.text) + 1 < k + 1)
      BY <1>0, <3>5
    <3>. QED BY <3>1, <3>5, <3>6 DEF Kept, Places, c, after
  <2>5. CASE read.at = "escaped" /\ c \notin escaped /\ c = Backslash
    <3>1. Whole(t, escaped, k + 1)
      BY <1>1, <1>6, <2>1, <2>5
    <3>2. read.text = SubSeq(t, 1, k - 1) /\ t[k] = Backslash /\ k > 0
      BY <2>1, <2>5
    <3>3. Append(read.text, Backslash) = SubSeq(t, 1, k)
      BY <1>4, <3>2
    <3>4. after = [text |-> SubSeq(t, 1, k), at |-> "escaped"]
      BY <1>5, <2>5, <3>3
    <3>. QED BY <1>0, <2>5, <3>1, <3>4 DEF Kept, Places, c, after
  <2>6. CASE read.at = "escaped" /\ c \notin escaped /\ c # Backslash
    <3>1. Whole(t, escaped, k + 1)
      BY <1>1, <1>6, <2>1, <2>6
    <3>2. read.text = SubSeq(t, 1, k - 1) /\ t[k] = Backslash /\ k > 0
      BY <2>1, <2>6
    <3>3. read.text \o <<Backslash, c>> = Append(Append(read.text, Backslash), c)
      BY ONLY <1>2, <1>0, Backslash \in C, TwoMore
    <3>4. Append(Append(read.text, Backslash), c) = SubSeq(t, 1, k + 1)
      BY <1>4, <3>2
    <3>5. after = [text |-> SubSeq(t, 1, k + 1), at |-> "open"]
      BY <1>5, <2>6, <3>3, <3>4
    <3>. QED BY <1>0, <2>6, <3>1, <3>5 DEF Kept, Places, c, after
  <2>. QED BY <1>2, <2>2, <2>3, <2>4, <2>5, <2>6 DEF Places
<1>7. CASE ~Whole(t, escaped, k)
  <2>1. ~Whole(t, escaped, k + 1)
    BY <1>1, <1>7
  <2>2. Len(read.text) < k /\ (read.at = "escaped" => Len(read.text) + 1 < k)
    BY <1>7 DEF Kept
  <2>3. after.at \in Places /\ Len(after.text) < k + 1 /\ (after.at = "escaped" => Len(after.text) + 1 < k + 1)
    <3>1. CASE read.at = "escaped"
      <4>1. Len(read.text) + 1 < k
        BY <2>2, <3>1
      <4>2. CASE c \in escaped
        <5>1. after = [text |-> Append(read.text, c), at |-> "open"]
          BY <1>5, <3>1, <4>2
        <5>2. after.at = "open" /\ Len(after.text) = Len(read.text) + 1
          BY <1>3, <5>1
        <5>. QED BY <1>0, <1>2, <4>1, <5>2 DEF Places
      <4>3. CASE c \notin escaped /\ c = Backslash
        <5>1. after = [text |-> Append(read.text, Backslash), at |-> "escaped"]
          BY <1>5, <3>1, <4>3
        <5>2. after.at = "escaped" /\ Len(after.text) = Len(read.text) + 1
          BY <1>3, <5>1
        <5>. QED BY <1>0, <1>2, <4>1, <5>2 DEF Places
      <4>4. CASE c \notin escaped /\ c # Backslash
        <5>1. after = [text |-> read.text \o <<Backslash, c>>, at |-> "open"]
          BY <1>5, <3>1, <4>4
        <5>2. after.at = "open" /\ Len(after.text) = Len(read.text) + 2
          BY <1>3, <5>1
        <5>. QED BY <1>0, <1>2, <4>1, <5>2 DEF Places
      <4>. QED BY <4>2, <4>3, <4>4
    <3>2. CASE read.at = "open"
      <4>1. Len(read.text) < k
        BY <1>0, <1>2, <2>2, <3>2
      <4>2. CASE c = Backslash
        <5>1. after = [text |-> read.text, at |-> "escaped"]
          BY <1>5, <3>2, <4>2
        <5>2. after.at = "escaped" /\ after.text = read.text
          BY <5>1
        <5>. QED BY <1>0, <1>2, <4>1, <5>2 DEF Places
      <4>3. CASE c # Backslash
        <5>1. after = [text |-> Append(read.text, c), at |-> "open"]
          BY <1>5, <3>2, <4>3
        <5>2. after.at = "open" /\ Len(after.text) = Len(read.text) + 1
          BY <1>3, <5>1
        <5>. QED BY <1>0, <1>2, <4>1, <5>2 DEF Places
      <4>. QED BY <4>2, <4>3
    <3>. QED BY <1>2, <3>1, <3>2 DEF Places
  <2>. QED BY <2>1, <2>3 DEF Kept, Places, c, after
<1>. QED BY <1>6, <1>7 DEF c, after

(***************************************************************************)
(* What taking the backslashes off leaves: the text itself if no backslash *)
(* stands before a character of `escaped`, and less of it otherwise.       *)
(***************************************************************************)
LEMMA UnescapeLoses ==
    ASSUME NEW C, Backslash \in C, NEW escaped, NEW t \in Seq(C)
    PROVE  /\ Whole(t, escaped, Len(t)) => Unescape(t, escaped) = t
           /\ ~Whole(t, escaped, Len(t)) => Len(Unescape(t, escaped)) < Len(t)
           /\ Unescape(t, escaped) \in Seq(C)
<1>. DEFINE n == Len(t)
            V == Reading(C)
            base == [text |-> <<>>, at |-> "open"]
            step == [p \in (SUBSET (1 .. n)) \X V |-> TakeOff(escaped, p[2], t[Max(p[1])])]
            body(iter) == [U \in SUBSET (1 .. n) |->
                              IF U = {} THEN base ELSE TakeOff(escaped, iter[U \ {Max(U)}], t[Max(U)])]
            it == CHOOSE iter : iter = body(iter)
            all == it[1 .. n]
<1>0. n \in Nat /\ DOMAIN t = 1 .. n
  OBVIOUS
<1>1. Unescape(t, escaped) = IF all.at = "escaped" THEN Append(all.text, Backslash) ELSE all.text
  BY <1>0 DEF Unescape, FoldLeft, MapThenFoldSet
<1>2. base \in V
  BY DEF Reading, Places
<1>3. \A T \in SUBSET (1 .. n) : \A v \in V : T # {} =>
         step[<<T, v>>] = TakeOff(escaped, v, t[Max(T)]) /\ step[<<T, v>>] \in V
  <2>. TAKE T \in SUBSET (1 .. n)
  <2>. TAKE v \in V
  <2>. HAVE T # {}
  <2>1. Max(T) \in T
    BY <1>0, GreatestOfSet
  <2>2. t[Max(T)] \in C
    <3>1. \A i \in 1 .. n : t[i] \in C
      OBVIOUS
    <3>. QED BY ONLY <2>1, <3>1, T \in SUBSET (1 .. n)
  <2>3. TakeOff(escaped, v, t[Max(T)]) \in V
    BY <2>2, TakeOffReads
  <2>. QED BY <2>3
<1>. HIDE DEF step, V, base
<1>4. PICK g \in [SUBSET (1 .. n) -> V] :
         /\ g[{}] = base
         /\ \A T \in SUBSET (1 .. n) : T # {} => g[T] = step[<<T, g[T \ {Max(T)}]>>]
  <2>1. \A T \in SUBSET (1 .. n) : \A v \in V : T # {} => step[<<T, v>>] \in V
    BY <1>3
  <2>2. n \in Nat
    BY <1>0
  <2>. HIDE DEF n
  <2>3. \E g \in [SUBSET (1 .. n) -> V] : Folds(g, 1 .. n, base, step)
    BY ONLY <1>2, <2>1, <2>2, FoldExists
  <2>. QED BY <2>3 DEF Folds
<1>5. g = body(g)
  <2>1. \A T \in SUBSET (1 .. n) : T # {} => g[T] = TakeOff(escaped, g[T \ {Max(T)}], t[Max(T)])
    BY <1>3, <1>4
  <2>. QED BY <1>4, <2>1
<1>6. it = body(it)
  <2>. HIDE DEF body
  <2>. QED BY <1>5
<1>. HIDE DEF it
<1>7. \A U \in SUBSET (1 .. n) : it[U] = body(it)[U]
  BY <1>6
<1>8. it[1 .. 0] = base
  <2>1. 1 .. 0 = {}
    OBVIOUS
  <2>. QED BY <1>7, <2>1
<1>9. \A k \in 0 .. n - 1 : it[1 .. k + 1] = TakeOff(escaped, it[1 .. k], t[k + 1])
  <2>. TAKE k \in 0 .. n - 1
  <2>1. 1 .. k + 1 \in SUBSET (1 .. n) /\ 1 .. k + 1 # {} /\ k \in Nat
    BY <1>0
  <2>2. Max(1 .. k + 1) = k + 1 /\ (1 .. k + 1) \ {k + 1} = 1 .. k
    BY <2>1, GreatestOfPrefix
  <2>. QED BY <1>7, <2>1, <2>2
<1>. DEFINE Q == {k \in 0 .. n : it[1 .. k] \in V /\ Kept(t, escaped, k, it[1 .. k])}
<1>10. 0 \in Q
  <2>1. Whole(t, escaped, 0)
    BY DEF Whole
  <2>2. SubSeq(t, 1, 0) = <<>>
    OBVIOUS
  <2>3. base.at = "open" /\ base.text = <<>>
    BY DEF base
  <2>4. Kept(t, escaped, 0, base)
    BY <2>1, <2>2, <2>3 DEF Kept, Places
  <2>. QED BY <1>0, <1>2, <1>8, <2>4
<1>11. \A k \in 0 .. n - 1 : k \in Q => k + 1 \in Q
  <2>. TAKE k \in 0 .. n - 1
  <2>. HAVE k \in Q
  <2>1. t[k + 1] \in C /\ k + 1 \in 0 .. n
    BY <1>0
  <2>2. it[1 .. k + 1] \in V
    BY <1>9, <2>1, TakeOffReads DEF V
  <2>3. Kept(t, escaped, k + 1, TakeOff(escaped, it[1 .. k], t[k + 1]))
    BY TakeOffKeeps DEF V
  <2>. QED BY <1>9, <2>1, <2>2, <2>3
<1>12. n \in Q
  <2>. HIDE DEF Q, n
  <2>0. n \in 0 .. n
    BY <1>0
  <2>. QED BY <2>0, <1>0, <1>10, <1>11, InductionUpTo
<1>13. all \in V /\ Kept(t, escaped, n, all)
  BY <1>12
<1>. HIDE DEF all, Q
<1>14. all.text \in Seq(C) /\ all.at \in Places /\ Append(all.text, Backslash) \in Seq(C)
        /\ Len(Append(all.text, Backslash)) = Len(all.text) + 1
  BY <1>13 DEF V, Reading
<1>15. CASE all.at = "escaped"
  <2>1. Unescape(t, escaped) = Append(all.text, Backslash)
    BY <1>1, <1>15
  <2>2. ASSUME Whole(t, escaped, n) PROVE Append(all.text, Backslash) = t
    <3>1. n > 0 /\ t[n] = Backslash /\ all.text = SubSeq(t, 1, n - 1)
      BY <1>13, <1>15, <2>2 DEF Kept
    <3>2. n > 0 => Append(SubSeq(t, 1, n - 1), t[n]) = t
      BY <1>0
    <3>. QED BY <3>1, <3>2
  <2>3. ASSUME ~Whole(t, escaped, n) PROVE Len(all.text) + 1 < n
    BY <1>13, <1>15, <2>3 DEF Kept
  <2>. QED BY <1>14, <2>1, <2>2, <2>3
<1>16. CASE all.at = "open"
  <2>1. Unescape(t, escaped) = all.text
    BY <1>1, <1>16
  <2>2. ASSUME Whole(t, escaped, n) PROVE all.text = t
    <3>1. all.text = SubSeq(t, 1, n)
      BY <1>13, <1>16, <2>2 DEF Kept
    <3>2. SubSeq(t, 1, n) = t
      BY <1>0
    <3>. QED BY <3>1, <3>2
  <2>3. ASSUME ~Whole(t, escaped, n) PROVE Len(all.text) < n
    BY <1>13, <1>16, <2>3 DEF Kept
  <2>. QED BY <1>14, <2>1, <2>2, <2>3
<1>. QED BY <1>14, <1>15, <1>16 DEF Places

-----------------------------------------------------------------------------
(* Reading a literal up to its closing quote.                              *)

\* Of the first k characters of the text: all of them, or fewer once a backslash is off.
Gone(t, k) == \E i \in 1 .. k : t[i] = Backslash
Got(t, k, read) ==
    /\ read.at \in Places
    /\ ~Gone(t, k) => read.at = "open" /\ read.text = SubSeq(t, 1, k)
    /\ Gone(t, k)  => Len(read.text) < k

ReadingOn(C) == [text : Seq(C), at : {"open", "escaped", "closed", "beyond"}]

\* One character more is a reading of it.
LEMMA ReadOnReads ==
    ASSUME NEW C, NEW quote, NEW read \in ReadingOn(C), NEW c \in C
    PROVE  ReadOn(quote, read, c) \in ReadingOn(C)
<1>1. Append(read.text, c) \in Seq(C)
  BY DEF ReadingOn
<1>. QED BY <1>1 DEF ReadingOn, ReadOn

\* One character more keeps what is known of the reading.
LEMMA ReadOnKeeps ==
    ASSUME NEW C, NEW quote, quote # Backslash, NEW t \in Seq(C), NEW k \in 0 .. Len(t) - 1,
           t[k + 1] # quote, NEW read \in ReadingOn(C), Got(t, k, read)
    PROVE  Got(t, k + 1, ReadOn(quote, read, t[k + 1]))
<1>. DEFINE c == t[k + 1]
            after == ReadOn(quote, read, c)
<1>0. c \in C /\ k \in Nat /\ k + 1 \in 1 .. Len(t) /\ c # quote
  OBVIOUS
<1>1. Gone(t, k + 1) <=> Gone(t, k) \/ c = Backslash
  BY DEF Gone
<1>2. read.text \in Seq(C) /\ read.at \in Places /\ Len(read.text) \in Nat
  BY DEF ReadingOn, Got
<1>3. Len(Append(read.text, c)) = Len(read.text) + 1
  BY <1>0, <1>2
<1>4. Append(SubSeq(t, 1, k), c) = SubSeq(t, 1, k + 1) /\ Len(SubSeq(t, 1, k)) = k
  BY <1>0
<1>. HIDE DEF c
<1>5. /\ read.at = "escaped" => after = [text |-> Append(read.text, c), at |-> "open"]
      /\ read.at = "open" /\ c = Backslash => after = [text |-> read.text, at |-> "escaped"]
      /\ read.at = "open" /\ c # Backslash => after = [text |-> Append(read.text, c), at |-> "open"]
  <2>1. read = [text |-> read.text, at |-> read.at]
    BY DEF ReadingOn
  <2>. QED BY <1>0, <2>1 DEF ReadOn
<1>. HIDE DEF after
<1>6. CASE ~Gone(t, k)
  <2>1. read.at = "open" /\ read.text = SubSeq(t, 1, k)
    BY <1>6 DEF Got
  <2>2. CASE c = Backslash
    <3>1. after = [text |-> SubSeq(t, 1, k), at |-> "escaped"]
      BY <1>5, <2>1, <2>2
    <3>2. after.at = "escaped" /\ Len(after.text) = k
      BY <1>4, <3>1
    <3>3. Gone(t, k + 1)
      BY <1>1, <2>2
    <3>. QED BY <1>0, <3>2, <3>3 DEF Got, Places, c, after
  <2>3. CASE c # Backslash
    <3>1. after = [text |-> SubSeq(t, 1, k + 1), at |-> "open"]
      BY <1>4, <1>5, <2>1, <2>3
    <3>2. ~Gone(t, k + 1)
      BY <1>1, <1>6, <2>3
    <3>. QED BY <3>1, <3>2 DEF Got, Places, c, after
  <2>. QED BY <2>2, <2>3
<1>7. CASE Gone(t, k)
  <2>1. Gone(t, k + 1)
    BY <1>1, <1>7
  <2>2. Len(read.text) < k
    BY <1>7 DEF Got
  <2>3. after.at \in Places /\ Len(after.text) < k + 1
    BY <1>0, <1>2, <1>3, <1>5, <2>2 DEF Places
  <2>. QED BY <2>1, <2>3 DEF Got, c, after
<1>. QED BY <1>6, <1>7 DEF c, after

(***************************************************************************)
(* What a frame selector's literal is read as: the selector, if it has no  *)
(* backslash, and otherwise nothing or less of it.                         *)
(***************************************************************************)
LEMMA LiteralLoses ==
    ASSUME NEW C, NEW t \in Seq(C), t # <<>>, NEW literal,
           Head(literal) \in C, Head(literal) # Backslash,
           Tail(literal) = Append(t, Head(literal)),
           \A i \in 1 .. Len(t) : t[i] # Head(literal)
    PROVE  /\ ~Gone(t, Len(t)) => ReadLeadingQuotedLiteral(literal) = t
           /\ Gone(t, Len(t)) => \/ ReadLeadingQuotedLiteral(literal) = NoText
                                 \/ Len(ReadLeadingQuotedLiteral(literal)) < Len(t)
<1>. DEFINE quote == Head(literal)
            w == Tail(literal)
            S == DOMAIN w
            n == Len(t) + 1
            V == ReadingOn(C)
            base == [text |-> <<>>, at |-> "open"]
            step == [p \in (SUBSET (1 .. n)) \X V |-> ReadOn(quote, p[2], w[Max(p[1])])]
            body(iter) == [U \in SUBSET S |->
                              IF U = {} THEN base ELSE ReadOn(quote, iter[U \ {Max(U)}], w[Max(U)])]
            it == CHOOSE iter : iter = body(iter)
            all == it[S]
<1>1. ReadLeadingQuotedLiteral(literal) =
         IF all.at = "closed" /\ all.text # <<>> THEN all.text ELSE NoText
  BY DEF ReadLeadingQuotedLiteral, FoldLeft, MapThenFoldSet
<1>0. /\ w \in Seq(C) /\ n \in Nat /\ Len(t) \in Nat /\ S = 1 .. n
      /\ w[n] = quote /\ \A k \in 1 .. Len(t) : w[k] = t[k]
      /\ quote \in C /\ quote # Backslash /\ \A i \in 1 .. Len(t) : t[i] # quote
      /\ \A k \in 1 .. n : w[k] \in C
  <2>1. /\ Append(t, quote) \in Seq(C) /\ Len(Append(t, quote)) = Len(t) + 1
        /\ Append(t, quote)[Len(t) + 1] = quote /\ Len(t) \in Nat
        /\ \A k \in 1 .. Len(t) : Append(t, quote)[k] = t[k]
        /\ DOMAIN Append(t, quote) = 1 .. Len(t) + 1
        /\ \A k \in 1 .. Len(t) + 1 : Append(t, quote)[k] \in C
    OBVIOUS
  <2>2. w = Append(t, quote)
    OBVIOUS
  <2>3. quote \in C /\ quote # Backslash /\ \A i \in 1 .. Len(t) : t[i] # quote
    OBVIOUS
  <2>. HIDE DEF w, quote
  <2>. QED BY ONLY <2>1, <2>2, <2>3
<1>. HIDE DEF w, quote, S
<1>2. base \in V
  BY DEF ReadingOn
<1>3. \A T \in SUBSET (1 .. n) : \A v \in V : T # {} =>
         step[<<T, v>>] = ReadOn(quote, v, w[Max(T)]) /\ step[<<T, v>>] \in V
  <2>. TAKE T \in SUBSET (1 .. n)
  <2>. TAKE v \in V
  <2>. HAVE T # {}
  <2>1. Max(T) \in T
    BY <1>0, GreatestOfSet
  <2>2. w[Max(T)] \in C
    <3>. QED BY ONLY <1>0, <2>1, T \in SUBSET (1 .. n)
  <2>3. ReadOn(quote, v, w[Max(T)]) \in V
    BY <2>2, ReadOnReads
  <2>. QED BY <2>3
<1>. HIDE DEF step, V, base
<1>4. PICK g \in [SUBSET (1 .. n) -> V] :
         /\ g[{}] = base
         /\ \A T \in SUBSET (1 .. n) : T # {} => g[T] = step[<<T, g[T \ {Max(T)}]>>]
  <2>1. \A T \in SUBSET (1 .. n) : \A v \in V : T # {} => step[<<T, v>>] \in V
    BY <1>3
  <2>2. n \in Nat
    BY <1>0
  <2>. HIDE DEF n
  <2>3. \E g \in [SUBSET (1 .. n) -> V] : Folds(g, 1 .. n, base, step)
    BY ONLY <1>2, <2>1, <2>2, FoldExists
  <2>. QED BY <2>3 DEF Folds
<1>5. g = body(g)
  <2>1. \A T \in SUBSET (1 .. n) : T # {} => g[T] = ReadOn(quote, g[T \ {Max(T)}], w[Max(T)])
    BY <1>3, <1>4
  <2>. QED BY <1>0, <1>4, <2>1
<1>6. it = body(it)
  <2>. HIDE DEF body
  <2>. QED BY <1>5
<1>. HIDE DEF it
<1>7. \A U \in SUBSET (1 .. n) : it[U] = IF U = {} THEN base ELSE ReadOn(quote, it[U \ {Max(U)}], w[Max(U)])
  BY <1>0, <1>6
<1>8. it[1 .. 0] = base
  <2>1. 1 .. 0 = {}
    OBVIOUS
  <2>. QED BY <1>7, <2>1
<1>9. \A k \in 0 .. n - 1 : it[1 .. k + 1] = ReadOn(quote, it[1 .. k], w[k + 1])
  <2>. TAKE k \in 0 .. n - 1
  <2>1. 1 .. k + 1 \in SUBSET (1 .. n) /\ 1 .. k + 1 # {} /\ k \in Nat
    BY <1>0
  <2>2. Max(1 .. k + 1) = k + 1 /\ (1 .. k + 1) \ {k + 1} = 1 .. k
    BY <2>1, GreatestOfPrefix
  <2>. QED BY <1>7, <2>1, <2>2
<1>. DEFINE m == Len(t)
            Q == {k \in 0 .. m : it[1 .. k] \in V /\ Got(t, k, it[1 .. k])}
<1>. HIDE DEF n
<1>10. 0 \in Q
  <2>1. ~Gone(t, 0)
    BY DEF Gone
  <2>2. SubSeq(t, 1, 0) = <<>>
    OBVIOUS
  <2>3. base.at = "open" /\ base.text = <<>>
    BY DEF base
  <2>4. Got(t, 0, base)
    BY <2>1, <2>2, <2>3 DEF Got, Places
  <2>. QED BY <1>0, <1>2, <1>8, <2>4
<1>11. \A k \in 0 .. m - 1 : k \in Q => k + 1 \in Q
  <2>. TAKE k \in 0 .. m - 1
  <2>. HAVE k \in Q
  <2>1. /\ t[k + 1] \in C /\ k + 1 \in 0 .. m /\ t[k + 1] # quote
        /\ k + 1 \in 1 .. m /\ k \in 0 .. n - 1
    BY <1>0 DEF n
  <2>2. it[1 .. k + 1] = ReadOn(quote, it[1 .. k], t[k + 1])
    BY <1>0, <1>9, <2>1
  <2>3. ReadOn(quote, it[1 .. k], t[k + 1]) \in V
    BY <2>1, ReadOnReads DEF V
  <2>4. Got(t, k + 1, ReadOn(quote, it[1 .. k], t[k + 1]))
    BY <1>0, <2>1, ReadOnKeeps DEF V
  <2>. QED BY <2>1, <2>2, <2>3, <2>4
<1>12. m \in Q
  <2>0. m \in 0 .. m /\ m \in Nat
    BY <1>0
  <2>. HIDE DEF Q, m
  <2>. QED BY <2>0, <1>10, <1>11, InductionUpTo
<1>. DEFINE last == it[1 .. m]
<1>13. last \in V /\ Got(t, m, last)
  BY <1>12
<1>14. all = ReadOn(quote, last, quote)
  BY <1>0, <1>9 DEF n
<1>. HIDE DEF all, Q, last
<1>15. last.text \in Seq(C) /\ last = [text |-> last.text, at |-> last.at]
  BY <1>13 DEF V, ReadingOn
<1>16. CASE last.at = "escaped"
  <2>1. all = [text |-> Append(last.text, quote), at |-> "open"]
    BY <1>14, <1>15, <1>16 DEF ReadOn
  <2>2. Gone(t, m)
    BY <1>13, <1>16 DEF Got
  <2>. QED BY <1>1, <2>1, <2>2
<1>17. CASE last.at = "open"
  <2>1. all = [text |-> last.text, at |-> "closed"]
    BY <1>14, <1>15, <1>17 DEF ReadOn
  <2>2. ReadLeadingQuotedLiteral(literal) = IF last.text # <<>> THEN last.text ELSE NoText
    BY <1>1, <2>1
  <2>3. ASSUME ~Gone(t, m) PROVE last.text = t
    <3>1. last.text = SubSeq(t, 1, m)
      BY <1>13, <2>3 DEF Got
    <3>2. SubSeq(t, 1, m) = t
      BY <1>0
    <3>. QED BY <3>1, <3>2
  <2>4. Gone(t, m) => Len(last.text) < m
    BY <1>13 DEF Got
  <2>. QED BY <2>2, <2>3, <2>4
<1>. QED BY <1>13, <1>16, <1>17 DEF Got, Places

-----------------------------------------------------------------------------
(* Display strings.                                                        *)

\* A text has a literal unless each kind of quote has something against it.
LEMMA LiteralsAreQuoted ==
    ASSUME NEW C, NEW t \in Seq(C), t # <<>>
    PROVE  /\ QuoteLiteral(t) = NoText <=> /\ {"single", "double"} \subseteq Range(t)
                                          /\ {"back", Template} \cap Range(t) # {}
           /\ QuoteLiteral(t) # NoText =>
                 \E q \in Quotes : q \notin Range(t) /\ QuoteLiteral(t) = <<q>> \o t \o <<q>>
<1>1. \A q \in Quotes : <<q>> \o t \o <<q>> # NoText
  <2>. TAKE q \in Quotes
  <2>. DEFINE D == C \cup Quotes
  <2>1. t \in Seq(D) /\ q \in D /\ <<q>> \in Seq(D)
    <3>1. \A i \in 1 .. Len(t) : t[i] \in D
      OBVIOUS
    <3>. QED BY <3>1
  <2>2. <<q>> \o t \in Seq(D) /\ Len(<<q>> \o t) = Len(t) + 1
    BY <2>1
  <2>3. Len(<<q>> \o t \o <<q>>) = Len(t) + 2 /\ Len(t) \in Nat
    BY <2>1, <2>2
  <2>4. Len(NoText) = 1
    BY DEF NoText
  <2>. QED BY <2>3, <2>4
<1>2. "single" \in Quotes /\ "double" \in Quotes /\ "back" \in Quotes
  BY DEF Quotes
<1>. QED BY <1>1, <1>2 DEF QuoteLiteral

\* What the parsers make of a quoted text.
LEMMA QuotesComeOff ==
    ASSUME NEW C, NEW t \in Seq(C), NEW q \in C, NEW literal, literal = <<q>> \o t \o <<q>>
    PROVE  /\ SubSeq(literal, 2, Len(literal) - 1) = t
           /\ Head(literal) = q /\ Tail(literal) = Append(t, q)
<1>. DEFINE n == Len(t)
<1>1. n \in Nat /\ <<q>> \in Seq(C) /\ <<q>> \o t \in Seq(C) /\ literal \in Seq(C)
  OBVIOUS
<1>2. Len(<<q>> \o t) = n + 1 /\ Len(literal) = n + 2
  BY <1>1
<1>3. \A i \in 1 .. n + 2 : literal[i] = IF i = 1 \/ i = n + 2 THEN q ELSE t[i - 1]
  <2>1. \A i \in 1 .. n + 1 : (<<q>> \o t)[i] = IF i = 1 THEN q ELSE t[i - 1]
    BY <1>1
  <2>2. \A i \in 1 .. n + 2 : literal[i] = IF i = n + 2 THEN q ELSE (<<q>> \o t)[i]
    BY <1>1, <1>2
  <2>3. ASSUME NEW i \in 1 .. n + 2
        PROVE  literal[i] = IF i = 1 \/ i = n + 2 THEN q ELSE t[i - 1]
    <3>1. CASE i = n + 2
      BY <2>2, <3>1
    <3>2. CASE i # n + 2
      <4>1. i \in 1 .. n + 1
        BY <1>1, <3>2
      <4>2. literal[i] = (<<q>> \o t)[i]
        BY <2>2, <3>2
      <4>. QED BY <2>1, <3>2, <4>1, <4>2
    <3>. QED BY <3>1, <3>2
  <2>. QED BY <2>3
<1>4. SubSeq(literal, 2, Len(literal) - 1) = t
  <2>. DEFINE s == SubSeq(literal, 2, n + 1)
  <2>1. s \in Seq(C) /\ Len(s) = n /\ \A i \in 1 .. n : s[i] = literal[i + 1]
    BY <1>1, <1>2
  <2>2. \A i \in 1 .. n : s[i] = t[i]
    BY <1>1, <1>3, <2>1
  <2>. HIDE DEF s
  <2>3. s = t
    BY <2>1, <2>2, SeqEqual
  <2>. QED BY <1>1, <1>2, <2>3 DEF s
<1>5. Tail(literal) = Append(t, q)
  <2>1. /\ Tail(literal) \in Seq(C) /\ Len(Tail(literal)) = n + 1
        /\ \A i \in 1 .. n + 1 : Tail(literal)[i] = literal[i + 1]
    BY <1>1, <1>2
  <2>2. /\ Append(t, q) \in Seq(C) /\ Len(Append(t, q)) = n + 1
        /\ \A i \in 1 .. n + 1 : Append(t, q)[i] = IF i = n + 1 THEN q ELSE t[i]
    BY <1>1
  <2>3. \A i \in 1 .. n + 1 : Tail(literal)[i] = Append(t, q)[i]
    BY <1>1, <1>3, <2>1, <2>2
  <2>. QED BY <2>1, <2>2, <2>3, SeqEqual
<1>6. Head(literal) = q
  BY <1>1, <1>2, <1>3
<1>. QED BY <1>4, <1>5, <1>6

(***************************************************************************)
(* A text that has a literal comes back from it as a leaf's argument       *)
(* exactly if no backslash in it stands before a quote or a backslash, and *)
(* as a frame selector exactly if it has no backslash.                     *)
(***************************************************************************)
LEMMA TextsComeBack ==
    ASSUME NEW C, Backslash \in C, Quotes \subseteq C, NEW t \in Seq(C), t # <<>>,
           "null" \notin Range(t), QuoteLiteral(t) # NoText
    PROVE  /\ ParseQuotedStringLiteral(QuoteLiteral(t)) = t <=> SurvivesInLeaf(t)
           /\ SurvivesInFrame(t) => /\ ReadLeadingQuotedLiteral(QuoteLiteral(t)) = t
                                    /\ t # NoText
           /\ ~SurvivesInFrame(t) => \/ ReadLeadingQuotedLiteral(QuoteLiteral(t)) = NoText
                                     \/ ReadLeadingQuotedLiteral(QuoteLiteral(t)) # t
<1>. DEFINE literal == QuoteLiteral(t)
            n == Len(t)
<1>1. PICK q \in Quotes : q \notin Range(t) /\ literal = <<q>> \o t \o <<q>>
  BY LiteralsAreQuoted
<1>. HIDE DEF literal
<1>2. q \in C /\ q # Backslash /\ n \in Nat
  BY DEF Quotes, Backslash
<1>3. /\ SubSeq(literal, 2, Len(literal) - 1) = t
      /\ Head(literal) = q /\ Tail(literal) = Append(t, q)
  BY <1>1, <1>2, QuotesComeOff
<1>4. Range(t) = {t[i] : i \in 1 .. n}
  BY DEF Range
<1>5. SurvivesInFrame(t) <=> ~Gone(t, n)
  BY <1>4 DEF SurvivesInFrame, Gone
<1>6. /\ ~Gone(t, n) => ReadLeadingQuotedLiteral(literal) = t
      /\ Gone(t, n) => \/ ReadLeadingQuotedLiteral(literal) = NoText
                       \/ Len(ReadLeadingQuotedLiteral(literal)) < n
  <2>1. \A i \in 1 .. n : t[i] # q
    BY <1>1, <1>4
  <2>. QED BY <1>2, <1>3, <2>1, LiteralLoses
<1>7. t # NoText
  <2>1. NoText[1] = "null" /\ DOMAIN NoText = 1 .. 1
    BY DEF NoText
  <2>. QED BY <2>1 DEF Range
<1>8. ParseQuotedStringLiteral(literal) = t <=> SurvivesInLeaf(t)
  <2>. DEFINE u == Unescape(t, {Backslash})
  <2>1. ParseQuotedStringLiteral(literal) = Unescape(u, Quotes)
    BY <1>3 DEF ParseQuotedStringLiteral
  <2>2. /\ Whole(t, {Backslash}, n) => u = t
        /\ ~Whole(t, {Backslash}, n) => Len(u) < n
        /\ u \in Seq(C)
    BY UnescapeLoses
  <2>. HIDE DEF u
  <2>3. /\ Whole(u, Quotes, Len(u)) => Unescape(u, Quotes) = u
        /\ ~Whole(u, Quotes, Len(u)) => Len(Unescape(u, Quotes)) < Len(u)
        /\ Unescape(u, Quotes) \in Seq(C)
    BY <2>2, UnescapeLoses
  <2>4. SurvivesInLeaf(t) <=> Whole(t, {Backslash}, n) /\ Whole(t, Quotes, n)
    BY DEF SurvivesInLeaf, Whole
  <2>5. CASE Whole(t, {Backslash}, n)
    BY <2>1, <2>2, <2>3, <2>4, <2>5
  <2>6. CASE ~Whole(t, {Backslash}, n)
    <3>1. Len(u) \in Nat /\ Len(Unescape(u, Quotes)) \in Nat
      BY <2>2, <2>3
    <3>2. Len(Unescape(u, Quotes)) <= Len(u)
      BY <2>3, <3>1
    <3>. QED BY <1>2, <2>1, <2>2, <2>4, <2>6, <3>1, <3>2
  <2>. QED BY <2>5, <2>6
<1>. QED BY <1>2, <1>5, <1>6, <1>7, <1>8 DEF literal

\* A text without a display string, and a locator whose texts come back.
HasNoLiteral(text) == {"single", "double"} \subseteq Range(text) /\ {"back", Template} \cap Range(text) # {}
ComesBack(l) == /\ SurvivesInLeaf(l.value)
                /\ \A i \in DOMAIN l.frames : SurvivesInFrame(l.frames[i])

\* The texts of the model, of which nothing is known but that they are sequences.
LEMMA TextsAreTexts ==
    ASSUME NEW t \in Texts
    PROVE  /\ QuoteLiteral(t) = NoText <=> HasNoLiteral(t)
           /\ QuoteLiteral(t) # NoText =>
                 /\ ParseQuotedStringLiteral(QuoteLiteral(t)) = t <=> SurvivesInLeaf(t)
                 /\ SurvivesInFrame(t) => /\ ReadLeadingQuotedLiteral(QuoteLiteral(t)) = t
                                          /\ t # NoText
                 /\ ~SurvivesInFrame(t) => \/ ReadLeadingQuotedLiteral(QuoteLiteral(t)) = NoText
                                           \/ ReadLeadingQuotedLiteral(QuoteLiteral(t)) # t
<1>. DEFINE A == STRING
            C == A \cup Quotes \cup {Backslash}
<1>1. /\ t \in Seq(C) /\ t # <<>> /\ "null" \notin Range(t)
      /\ Backslash \in C /\ Quotes \subseteq C
  <2>1. t \in Seq(A) \ {<<>>} /\ "null" \notin Range(t)
    BY LocatorAssumption
  <2>. HIDE DEF A
  <2>2. \A i \in 1 .. Len(t) : t[i] \in C
    BY <2>1
  <2>3. t \in Seq(C)
    BY <2>1, <2>2
  <2>. QED BY <2>1, <2>3
<1>. HIDE DEF C
<1>2. QuoteLiteral(t) = NoText <=> HasNoLiteral(t)
  BY <1>1, LiteralsAreQuoted DEF HasNoLiteral
<1>. QED BY ONLY <1>1, <1>2, TextsComeBack

\* A locator with a display string comes back from it when all its texts do.
LEMMA LocatorsComeBack ==
    ASSUME NEW l \in Locators
    PROVE  /\ DescribeCandidateLocator(l) = Null <=>
                  \E text \in Range(l.frames) \cup {l.value} : HasNoLiteral(text)
           /\ DescribeCandidateLocator(l) # Null =>
                  (ParseLegacyLocatorString(DescribeCandidateLocator(l)) = l <=> ComesBack(l))
<1>. DEFINE d == DescribeCandidateLocator(l)
            frames == [i \in DOMAIN l.frames |-> QuoteLiteral(l.frames[i])]
            value == QuoteLiteral(l.value)
<1>1. /\ l.value \in Texts /\ l.kind \in LeafKinds
      /\ l = [frames |-> l.frames, kind |-> l.kind, value |-> l.value]
  BY DEF Locators
<1>2. l.frames = [i \in DOMAIN l.frames |-> l.frames[i]] /\ \A i \in DOMAIN l.frames : l.frames[i] \in Texts
  <2>1. l.frames \in Seq(Texts)
    BY LocatorAssumption DEF Locators
  <2>. DEFINE s == l.frames
  <2>2. s \in Seq(Texts)
    BY <2>1
  <2>. HIDE DEF s
  <2>3. s = [i \in DOMAIN s |-> s[i]] /\ \A i \in DOMAIN s : s[i] \in Texts
    BY <2>2
  <2>. QED BY <2>3 DEF s
<1>3. /\ Range(frames) = {QuoteLiteral(l.frames[i]) : i \in DOMAIN l.frames}
      /\ Range(l.frames) = {l.frames[i] : i \in DOMAIN l.frames}
  BY DEF Range
<1>4. d = IF NoText \in Range(frames) \cup {value} THEN Null
          ELSE [frames |-> frames, kind |-> l.kind, value |-> value]
  BY DEF DescribeCandidateLocator
<1>5. d # Null <=> NoText \notin Range(frames) \cup {value}
  <2>1. Null.kind = "null" /\ l.kind # "null"
    BY <1>1 DEF Null, Blank, LeafKinds
  <2>2. [frames |-> frames, kind |-> l.kind, value |-> value].kind = l.kind
    OBVIOUS
  <2>. HIDE DEF frames, value, d
  <2>. QED BY <1>4, <2>1, <2>2
<1>6. d = Null <=> \E text \in Range(l.frames) \cup {l.value} : HasNoLiteral(text)
  <2>. HIDE DEF d
  <2>1. NoText = value <=> HasNoLiteral(l.value)
    BY <1>1, TextsAreTexts
  <2>2. \A i \in DOMAIN l.frames : NoText = QuoteLiteral(l.frames[i]) <=> HasNoLiteral(l.frames[i])
    BY <1>2, TextsAreTexts
  <2>. QED BY <1>3, <1>5, <2>1, <2>2
<1>7. ASSUME d # Null PROVE ParseLegacyLocatorString(d) = l <=> ComesBack(l)
  <2>. DEFINE back == [i \in DOMAIN l.frames |-> ReadLeadingQuotedLiteral(QuoteLiteral(l.frames[i]))]
              leaf == ParseQuotedStringLiteral(value)
  <2>1. d.frames = frames /\ d.kind = l.kind /\ d.value = value
    BY <1>4, <1>5, <1>7
  <2>2. ParseLegacyLocatorString(d) = IF NoText \in Range(back) THEN Null
                                      ELSE [frames |-> back, kind |-> l.kind, value |-> leaf]
    <3>. HIDE DEF d
    <3>1. DOMAIN frames = DOMAIN l.frames /\ \A i \in DOMAIN l.frames : frames[i] = QuoteLiteral(l.frames[i])
      OBVIOUS
    <3>2. [i \in DOMAIN d.frames |-> ReadLeadingQuotedLiteral(d.frames[i])] = back
      BY <2>1, <3>1
    <3>. HIDE DEF back, value
    <3>. QED BY <2>1, <3>2 DEF ParseLegacyLocatorString
  <2>3. NoText # value /\ \A i \in DOMAIN l.frames : NoText # QuoteLiteral(l.frames[i])
    <3>. HIDE DEF d, value
    <3>. QED BY <1>3, <1>5, <1>7
  <2>4. leaf = l.value <=> SurvivesInLeaf(l.value)
    BY <1>1, <2>3, TextsAreTexts
  <2>5. \A i \in DOMAIN l.frames :
           /\ SurvivesInFrame(l.frames[i]) => back[i] = l.frames[i] /\ l.frames[i] # NoText
           /\ ~SurvivesInFrame(l.frames[i]) => back[i] = NoText \/ back[i] # l.frames[i]
    <3>. TAKE i \in DOMAIN l.frames
    <3>1. l.frames[i] \in Texts /\ QuoteLiteral(l.frames[i]) # NoText
      BY <1>2, <2>3
    <3>. QED BY <3>1, TextsAreTexts
  <2>6. Range(back) = {back[i] : i \in DOMAIN l.frames}
    BY DEF Range
  <2>7. (NoText \notin Range(back) /\ back = l.frames) <=>
           \A i \in DOMAIN l.frames : SurvivesInFrame(l.frames[i])
    <3>1. ASSUME \A i \in DOMAIN l.frames : SurvivesInFrame(l.frames[i])
          PROVE  NoText \notin Range(back) /\ back = l.frames
      <4>1. \A i \in DOMAIN l.frames : back[i] = l.frames[i] /\ back[i] # NoText
        BY <2>5, <3>1
      <4>2. back = [i \in DOMAIN l.frames |-> l.frames[i]]
        BY <4>1
      <4>. HIDE DEF back
      <4>. QED BY <1>2, <2>6, <4>1, <4>2
    <3>2. ASSUME NEW i \in DOMAIN l.frames, ~SurvivesInFrame(l.frames[i]),
                 NoText \notin Range(back), back = l.frames
          PROVE  FALSE
      <4>1. back[i] = l.frames[i] /\ back[i] # NoText
        BY <2>6, <3>2
      <4>. QED BY <2>5, <3>2, <4>1
    <3>. QED BY <3>1, <3>2
  <2>8. Null # l
    BY <1>1 DEF Null, Blank, LeafKinds
  <2>. HIDE DEF back, leaf, d
  <2>9. [frames |-> back, kind |-> l.kind, value |-> leaf] = l <=> back = l.frames /\ leaf = l.value
    <3>1. [frames |-> back, kind |-> l.kind, value |-> leaf] = l => back = l.frames /\ leaf = l.value
      OBVIOUS
    <3>. QED BY <1>1, <3>1
  <2>. QED BY <2>2, <2>4, <2>7, <2>8, <2>9 DEF ComesBack
<1>. QED BY <1>6, <1>7

-----------------------------------------------------------------------------

\* The locators as a specification: a locator, its display string, and what it is parsed to.
LocatorSpec == LocatorInit /\ [][LocatorNext]_locatorVars

\* Nothing happened yet, or a locator has its display string, parsed or not.
LocatorInv ==
    \/ locator = Unset /\ display = Unset /\ parsed = Unset
    \/ /\ locator \in Locators
       /\ display = DescribeCandidateLocator(locator)
       /\ parsed # Unset => /\ display # Null
                            /\ parsed = ParseLegacyLocatorString(display)

\* One step per operation.
LEMMA LocatorStepsKeepTheInvariant == LocatorInv /\ [LocatorNext]_locatorVars => LocatorInv'
<1>. SUFFICES ASSUME LocatorInv, [LocatorNext]_locatorVars PROVE LocatorInv'
  OBVIOUS
<1>1. Unset.kind = "unset" /\ Null.kind = "null"
  BY DEF Unset, Null, Blank
<1>2. CASE Describe
  <2>1. locator \notin Locators
    BY <1>1, <1>2 DEF Describe, Locators, LeafKinds
  <2>2. parsed = Unset
    BY <2>1 DEF LocatorInv
  <2>. QED BY <1>2, <2>2 DEF Describe, LocatorInv
<1>3. CASE Parse
  <2>1. display # Null /\ display # Unset
    BY <1>1, <1>3 DEF Parse, LeafKinds
  <2>. QED BY <1>3, <2>1 DEF Parse, LocatorInv
<1>4. CASE UNCHANGED locatorVars
  BY <1>4 DEF LocatorInv, locatorVars
<1>. QED BY <1>2, <1>3, <1>4 DEF LocatorNext

(***************************************************************************)
(* Display strings round-trip, for every locator over any texts: a locator *)
(* has none exactly when one of its texts cannot be quoted, and the string *)
(* is parsed to the locator exactly when no text has an escape that the    *)
(* parser takes off.                                                       *)
(***************************************************************************)
THEOREM DisplayStringsAlwaysRoundTrip == LocatorSpec => []DisplayStringsRoundTrip
<1>1. LocatorInit => LocatorInv
  BY DEF LocatorInit, LocatorInv
<1>2. LocatorInv => DisplayStringsRoundTrip
  <2>. SUFFICES ASSUME LocatorInv PROVE DisplayStringsRoundTrip
    OBVIOUS
  <2>1. CASE locator = Unset /\ display = Unset /\ parsed = Unset
    <3>1. Unset # Null
      BY DEF Unset, Null, Blank
    <3>2. Range(locator.frames) \cup {locator.value} = {<<>>} /\ Range(<<>>) = {}
      BY <2>1 DEF Unset, Blank, Range
    <3>. QED BY <2>1, <3>1, <3>2 DEF DisplayStringsRoundTrip
  <2>2. CASE /\ locator \in Locators
             /\ display = DescribeCandidateLocator(locator)
             /\ parsed # Unset => /\ display # Null
                                  /\ parsed = ParseLegacyLocatorString(display)
    <3>1. display = Null <=> \E text \in Range(locator.frames) \cup {locator.value} : HasNoLiteral(text)
      BY <2>2, LocatorsComeBack
    <3>2. parsed # Unset => (parsed = locator <=> ComesBack(locator))
      BY <2>2, LocatorsComeBack
    <3>. QED BY <3>1, <3>2 DEF DisplayStringsRoundTrip, HasNoLiteral, ComesBack
  <2>. QED BY <2>1, <2>2 DEF LocatorInv
<1>. QED BY <1>1, <1>2, LocatorStepsKeepTheInvariant, PTL DEF LocatorSpec

-----------------------------------------------------------------------------
(* Settings, from one reading to the resolvers.                            *)

\* The environments the resolvers are given.
IsEnvironment(env) == \A v \in DOMAIN env : env[v] \in RawTexts
Plainly(env, v) == v \in DOMAIN env /\ PlainText(env[v])

\* What the reading of a documented variable should be: in the variable's domain, and
\* what a plain text asks for if that can be had, and only then.
Sound(env, v, reading) ==
    /\ reading.code # "refused" => InDomain(v, reading.value)
    /\ Plainly(env, v) =>
          IF Asked(v, env[v]) = {} THEN reading.code # "taken"
          ELSE reading.code = "taken" /\ reading.value \in Asked(v, env[v])

\* A text that is not set, or one of the environment.
LEMMA TextOf ==
    ASSUME NEW env, IsEnvironment(env), NEW v
    PROVE  /\ v \in DOMAIN env => Env(env, v) = env[v] /\ env[v] \in RawTexts /\ env[v] # NotSet
           /\ v \notin DOMAIN env => Env(env, v) = NotSet
           /\ Plainly(env, v) => Env(env, v) \notin {NotSet, "", BlankText, "y", "n"}
BY SettingsAssumption DEF IsEnvironment, Env, Plainly, PlainText, NotSet

\* parseBoundedPositiveInteger and parseBoundedNonNegativeInteger, replacing.
LEMMA CountIsSound ==
    ASSUME NEW env, IsEnvironment(env), NEW v \in DOMAIN Bounds, NEW min \in Int, NEW max \in Int,
           Bounds[v][1] = min, Bounds[v][2] = max, min <= max, NEW default \in min .. max
    PROVE  Sound(env, v, ReadCount(Env(env, v), default, min, max))
<1>. DEFINE text == Env(env, v)
            whole == IF text \in {NotSet, ""} THEN {} ELSE {m \in ReadsAs[text].number : m % 100 = 0}
            n == (CHOOSE m \in whole : TRUE) \div 100
            reading == ReadCount(text, default, min, max)
<1>1. \A x : InDomain(v, x) <=> x \in min .. max
  BY DEF InDomain
<1>2. ASSUME v \in DOMAIN env
      PROVE  Asked(v, env[v]) = {m \div 100 : m \in {k \in ReadsAs[text].number :
                                    k % 100 = 0 /\ k \div 100 \in min .. max}}
  BY <1>2, TextOf DEF Asked
<1>3. CASE text \in {NotSet, ""}
  <2>1. reading = [value |-> default, code |-> "taken"]
    BY <1>3 DEF ReadCount, Taken
  <2>2. ~Plainly(env, v)
    BY <1>3, TextOf
  <2>. HIDE DEF reading
  <2>. QED BY <1>1, <2>1, <2>2 DEF Sound, reading
<1>4. CASE text \notin {NotSet, ""}
  <2>1. v \in DOMAIN env /\ text = env[v] /\ text \in RawTexts
    BY <1>4, TextOf
  <2>2. ReadsAs[text].number \subseteq Int /\ \A a, b \in ReadsAs[text].number : a = b
    BY <2>1, SettingsAssumption
  <2>3. CASE whole = {}
    <3>1. reading = [value |-> default, code |-> "invalid_number"]
      BY <1>4, <2>3 DEF ReadCount, Instead
    <3>2. Asked(v, env[v]) = {}
      BY <1>2, <1>4, <2>1, <2>3
    <3>. HIDE DEF reading
    <3>. QED BY <1>1, <3>1, <3>2 DEF Sound, reading
  <2>4. CASE whole # {}
    <3>1. PICK m \in ReadsAs[text].number : m % 100 = 0
      BY <1>4, <2>4
    <3>2. whole = {m} /\ m \in Int
      BY <1>4, <2>2, <3>1
    <3>3. n = m \div 100 /\ n \in Int
      <4>. HIDE DEF whole
      <4>1. (CHOOSE k \in whole : TRUE) = m
        BY <3>2
      <4>2. m \div 100 \in Int
        BY <3>2
      <4>. QED BY <4>1, <4>2
    <3>4. Asked(v, env[v]) = IF n \in min .. max THEN {n} ELSE {}
      <4>1. ReadsAs[text].number = {m}
        BY <2>2, <3>1
      <4>2. Asked(v, env[v]) = {k \div 100 : k \in {l \in {m} : l % 100 = 0 /\ l \div 100 \in min .. max}}
        BY <1>2, <2>1, <4>1
      <4>. HIDE DEF n
      <4>. QED BY ONLY <3>1, <3>3, <4>2
    <3>5. reading = IF n < min THEN [value |-> default, code |-> "out_of_range"]
                    ELSE IF n > max THEN [value |-> max, code |-> "clamped"]
                    ELSE [value |-> n, code |-> "taken"]
      BY <1>4, <2>4, <3>3 DEF ReadCount, Taken, Instead
    <3>. HIDE DEF reading, n, whole
    <3>. QED BY <1>1, <3>3, <3>4, <3>5 DEF Sound, reading
  <2>. QED BY <2>3, <2>4
<1>. QED BY <1>3, <1>4

\* The integers of telemetry and of the Redis client, refusing.
LEMMA IntegerIsSound ==
    ASSUME NEW env, IsEnvironment(env), NEW v \in DOMAIN Bounds, NEW min \in Int, NEW max \in Int,
           Bounds[v][1] = min, Bounds[v][2] = max, NEW default \in min .. max
    PROVE  Sound(env, v, DemandInteger(Env(env, v), default, min, max))
<1>. DEFINE text == Env(env, v)
            reading == DemandInteger(text, default, min, max)
<1>1. \A x : InDomain(v, x) <=> x \in min .. max
  BY DEF InDomain
<1>2. ASSUME v \in DOMAIN env
      PROVE  Asked(v, env[v]) = {m \div 100 : m \in {k \in ReadsAs[text].number :
                                    k % 100 = 0 /\ k \div 100 \in min .. max}}
  BY <1>2, TextOf DEF Asked
<1>3. CASE Optional(text) = NotSet
  <2>1. reading = [value |-> default, code |-> "taken"]
    BY <1>3 DEF DemandInteger, Taken
  <2>2. ~Plainly(env, v)
    BY <1>3, TextOf DEF Optional
  <2>. HIDE DEF reading
  <2>. QED BY <1>1, <2>1, <2>2 DEF Sound, reading
<1>4. CASE Optional(text) # NotSet
  <2>1. v \in DOMAIN env /\ text = env[v] /\ text \in RawTexts
    BY <1>4, TextOf DEF Optional
  <2>. DEFINE n == ReadsAs[text].leading
  <2>2. n \subseteq Int /\ \A a, b \in n : a = b
    BY <2>1, SettingsAssumption
  <2>3. reading = IF n # {} /\ n \subseteq min .. max
                  THEN [value |-> CHOOSE m \in n : TRUE, code |-> "taken"]
                  ELSE [value |-> "(none)", code |-> "refused"]
    BY <1>4 DEF DemandInteger, Taken, NotReadable
  <2>. HIDE DEF reading
  <2>4. CASE n # {} /\ n \subseteq min .. max
    <3>1. PICK m \in Int : n = {m}
      BY <2>2, <2>4
    <3>2. (CHOOSE k \in n : TRUE) = m
      <4>. HIDE DEF n
      <4>. QED BY <3>1
    <3>3. reading = [value |-> m, code |-> "taken"] /\ m \in min .. max
      BY <2>3, <2>4, <3>1, <3>2
    <3>4. ASSUME Plainly(env, v) PROVE Asked(v, env[v]) = {m}
      <4>1. ReadsAs[text].number = {100 * k : k \in n}
        BY <2>1, <3>4 DEF Plainly, PlainText
      <4>2. ReadsAs[text].number = {100 * m}
        BY <3>1, <4>1
      <4>3. Asked(v, env[v]) = {k \div 100 : k \in {l \in {100 * m} : l % 100 = 0 /\ l \div 100 \in min .. max}}
        BY <1>2, <2>1, <4>2
      <4>4. (100 * m) \div 100 = m /\ (100 * m) % 100 = 0
        BY <3>1
      <4>. QED BY ONLY <3>3, <4>3, <4>4
    <3>. QED BY <1>1, <3>3, <3>4 DEF Sound, reading
  <2>5. CASE ~(n # {} /\ n \subseteq min .. max)
    <3>1. reading = [value |-> "(none)", code |-> "refused"]
      BY <2>3, <2>5
    <3>2. ASSUME Plainly(env, v) PROVE Asked(v, env[v]) = {}
      <4>1. ReadsAs[text].number = {100 * k : k \in n}
        BY <2>1, <3>2 DEF Plainly, PlainText
      <4>2. \A k \in n : (100 * k) \div 100 = k /\ k \notin min .. max
        BY <2>2, <2>5
      <4>. HIDE DEF n
      <4>3. ASSUME NEW x \in Asked(v, env[v]) PROVE FALSE
        <5>1. PICK l \in ReadsAs[text].number : l \div 100 \in min .. max
          BY <1>2, <2>1, <4>3
        <5>2. PICK k \in n : l = 100 * k
          BY <4>1, <5>1
        <5>. QED BY <4>2, <5>1, <5>2
      <4>. QED BY <4>3
    <3>. QED BY <3>1, <3>2 DEF Sound, reading
  <2>. QED BY <2>4, <2>5 DEF reading
<1>. QED BY <1>3, <1>4

\* The enumerations, replacing and refusing.
LEMMA EnumIsSound ==
    ASSUME NEW env, IsEnvironment(env), NEW v \in DOMAIN OneOf, v \notin DOMAIN Bounds,
           NEW supported, OneOf[v] = supported, NEW default \in supported
    PROVE  /\ Sound(env, v, ReadEnum(Env(env, v), supported, default))
           /\ Sound(env, v, DemandEnum(Env(env, v), supported, default))
           /\ Sound(env, v, ReadEnum(OrElse(Optional(Env(env, v)), ""), supported, default))
<1>. DEFINE text == Env(env, v)
<1>1. \A x : InDomain(v, x) <=> x \in supported
  BY DEF InDomain
<1>2. Plainly(env, v) => /\ Asked(v, env[v]) = {text} \cap supported
                         /\ text \notin {NotSet, "", BlankText, "y", "n"}
  BY TextOf DEF Asked, Plainly
<1>3. ReadEnum(text, supported, default).code \in {"taken", "invalid_enum"}
  BY DEF ReadEnum, Taken, Instead
<1>. HIDE DEF text
<1>4. Sound(env, v, ReadEnum(text, supported, default))
  BY <1>1, <1>2 DEF Sound, ReadEnum, Taken, Instead
<1>5. Sound(env, v, DemandEnum(text, supported, default))
  BY <1>1, <1>2 DEF Sound, DemandEnum, Taken, NotReadable, Optional
<1>6. Sound(env, v, ReadEnum(OrElse(Optional(text), ""), supported, default))
  BY <1>1, <1>2 DEF Sound, ReadEnum, Taken, Instead, OrElse, Optional
<1>. QED BY <1>4, <1>5, <1>6 DEF text

\* The switches, replacing and refusing.
LEMMA BooleanIsSound ==
    ASSUME NEW env, IsEnvironment(env), NEW v, v \notin DOMAIN OneOf, v \notin DOMAIN Bounds,
           NEW default \in BOOLEAN
    PROVE  /\ Sound(env, v, ReadBoolean(Env(env, v), default))
           /\ Sound(env, v, DemandBoolean(Env(env, v), default))
<1>. DEFINE text == Env(env, v)
<1>1. \A x : InDomain(v, x) <=> x \in BOOLEAN
  BY DEF InDomain
<1>2. Plainly(env, v) => /\ text \in TrueTokens => Asked(v, env[v]) = {TRUE}
                         /\ text \in FalseTokens => Asked(v, env[v]) = {FALSE}
                         /\ text \notin TrueTokens \cup FalseTokens => Asked(v, env[v]) = {}
                         /\ text \notin {NotSet, "", BlankText, "y", "n"}
  BY TextOf DEF Asked, Plainly, TrueTokens, FalseTokens
<1>3. TrueTokens \cap FalseTokens = {}
  BY DEF TrueTokens, FalseTokens
<1>. HIDE DEF text
<1>4. Sound(env, v, ReadBoolean(text, default))
  <2>. DEFINE reading == ReadBoolean(text, default)
  <2>1. CASE text \in {NotSet, ""}
    <3>1. reading.value = default /\ reading.code = "taken"
      BY <2>1 DEF ReadBoolean, Taken
    <3>2. InDomain(v, reading.value) /\ ~Plainly(env, v)
      BY <1>1, <1>2, <2>1, <3>1
    <3>. QED BY <3>1, <3>2 DEF Sound
  <2>2. CASE text \notin {NotSet, ""} /\ text \in TrueTokens
    <3>1. reading.value = (text \in TrueTokens) /\ reading.code = "taken"
      BY <2>2 DEF ReadBoolean, Taken
    <3>2. (text \in TrueTokens) = TRUE
      BY <2>2
    <3>3. reading.value = TRUE
      BY <3>1, <3>2
    <3>4. InDomain(v, reading.value) /\ (Plainly(env, v) => Asked(v, env[v]) = {TRUE})
      BY <1>1, <1>2, <2>2, <3>3
    <3>. QED BY <3>1, <3>3, <3>4 DEF Sound
  <2>3. CASE text \notin {NotSet, ""} /\ text \in FalseTokens
    <3>0. text \notin TrueTokens
      BY <1>3, <2>3
    <3>1. reading.value = (text \in TrueTokens) /\ reading.code = "taken"
      BY <2>3 DEF ReadBoolean, Taken
    <3>2. (text \in TrueTokens) = FALSE
      BY <3>0
    <3>3. reading.value = FALSE
      BY <3>1, <3>2
    <3>4. InDomain(v, reading.value) /\ (Plainly(env, v) => Asked(v, env[v]) = {FALSE})
      BY <1>1, <1>2, <2>3, <3>3
    <3>. QED BY <3>1, <3>3, <3>4 DEF Sound
  <2>4. CASE text \notin {NotSet, ""} /\ text \notin TrueTokens \cup FalseTokens
    <3>1. reading.value = default /\ reading.code = "invalid_boolean"
      BY <2>4 DEF ReadBoolean, Instead
    <3>2. InDomain(v, reading.value) /\ (Plainly(env, v) => Asked(v, env[v]) = {})
      BY <1>1, <1>2, <2>4, <3>1
    <3>. QED BY <3>1, <3>2 DEF Sound
  <2>. QED BY <2>1, <2>2, <2>3, <2>4
<1>5. Sound(env, v, DemandBoolean(text, default))
  BY <1>1, <1>2, <1>3 DEF Sound, DemandBoolean, Taken, NotReadable, Optional
<1>. QED BY <1>4, <1>5 DEF text

-----------------------------------------------------------------------------
(* The tables of readings.                                                 *)

\* A reading that is documented is sound, and its code is one of `codes`.
FieldIsSound(env, r, v, codes) == Sound(env, v, r[v]) /\ r[v].code \in codes
TableIsSound(env, r, codes) ==
    \A v \in Documented \cap DOMAIN r : FieldIsSound(env, r, v, codes)

Replacing == {"taken", "invalid_enum", "invalid_boolean", "invalid_number", "out_of_range",
    "clamped"}
Refusing  == {"taken", "refused"}

\* The tables, looked up by name.
LEMMA DomainsOfVariables ==
    /\ "SELF_HEAL_MAX_DOM_NODES" \in DOMAIN Bounds
    /\ Bounds["SELF_HEAL_MAX_DOM_NODES"] = <<1, 5000>>
    /\ "SELF_HEAL_MAX_CANDIDATES" \in DOMAIN Bounds
    /\ Bounds["SELF_HEAL_MAX_CANDIDATES"] = <<1, 50>>
    /\ "SELF_HEAL_MAX_TEXT_LENGTH" \in DOMAIN Bounds
    /\ Bounds["SELF_HEAL_MAX_TEXT_LENGTH"] = <<1, 500>>
    /\ "SELF_HEAL_RUN_BUDGET_MAX_HEALING_ATTEMPTS" \in DOMAIN Bounds
    /\ Bounds["SELF_HEAL_RUN_BUDGET_MAX_HEALING_ATTEMPTS"] = <<0, 10000>>
    /\ "SELF_HEAL_RUN_BUDGET_MAX_FAILURE_ARTIFACTS" \in DOMAIN Bounds
    /\ Bounds["SELF_HEAL_RUN_BUDGET_MAX_FAILURE_ARTIFACTS"] = <<0, 10000>>
    /\ "AURORAFLOW_OBSERVABILITY_METRIC_EXPORT_INTERVAL_MS" \in DOMAIN Bounds
    /\ Bounds["AURORAFLOW_OBSERVABILITY_METRIC_EXPORT_INTERVAL_MS"] = <<1000, 300000>>
    /\ "AURORAFLOW_OBSERVABILITY_SHUTDOWN_TIMEOUT_MS" \in DOMAIN Bounds
    /\ Bounds["AURORAFLOW_OBSERVABILITY_SHUTDOWN_TIMEOUT_MS"] = <<100, 120000>>
    /\ "AURORAFLOW_REDIS_PORT" \in DOMAIN Bounds
    /\ Bounds["AURORAFLOW_REDIS_PORT"] = <<1, 65535>>
    /\ "AURORAFLOW_REDIS_DB" \in DOMAIN Bounds
    /\ Bounds["AURORAFLOW_REDIS_DB"] = <<0, 16>>
    /\ "AURORAFLOW_REDIS_CONNECT_TIMEOUT_MS" \in DOMAIN Bounds
    /\ Bounds["AURORAFLOW_REDIS_CONNECT_TIMEOUT_MS"] = <<100, 120000>>
    /\ "AURORAFLOW_REDIS_MAX_RETRIES" \in DOMAIN Bounds
    /\ Bounds["AURORAFLOW_REDIS_MAX_RETRIES"] = <<0, 20>>
    /\ "AURORAFLOW_REDIS_BASE_BACKOFF_MS" \in DOMAIN Bounds
    /\ Bounds["AURORAFLOW_REDIS_BASE_BACKOFF_MS"] = <<1, 10000>>
    /\ "AURORAFLOW_REDIS_MAX_BACKOFF_MS" \in DOMAIN Bounds
    /\ Bounds["AURORAFLOW_REDIS_MAX_BACKOFF_MS"] = <<1, 120000>>
    /\ "SELF_HEAL_MODE" \in DOMAIN OneOf
    /\ "SELF_HEAL_MODE" \notin DOMAIN Bounds
    /\ OneOf["SELF_HEAL_MODE"] = {"off", "suggest", "guarded"}
    /\ "SELF_HEAL_REGISTRY_MODE" \in DOMAIN OneOf
    /\ "SELF_HEAL_REGISTRY_MODE" \notin DOMAIN Bounds
    /\ OneOf["SELF_HEAL_REGISTRY_MODE"] = {"off", "read", "write_pending"}
    /\ "SELF_HEAL_PROMOTION_MODE" \in DOMAIN OneOf
    /\ "SELF_HEAL_PROMOTION_MODE" \notin DOMAIN Bounds
    /\ OneOf["SELF_HEAL_PROMOTION_MODE"] = {"manual", "ci_acknowledged"}
    /\ "SELF_HEAL_RUN_BUDGET_MODE" \in DOMAIN OneOf
    /\ "SELF_HEAL_RUN_BUDGET_MODE" \notin DOMAIN Bounds
    /\ OneOf["SELF_HEAL_RUN_BUDGET_MODE"] = {"warning_only", "enforce"}
    /\ "AURORAFLOW_ARTIFACT_PRIVACY_PRESET" \in DOMAIN OneOf
    /\ "AURORAFLOW_ARTIFACT_PRIVACY_PRESET" \notin DOMAIN Bounds
    /\ OneOf["AURORAFLOW_ARTIFACT_PRIVACY_PRESET"] = {"compatible", "sensitive"}
    /\ "AURORAFLOW_OBSERVABILITY_ENVIRONMENT" \in DOMAIN OneOf
    /\ "AURORAFLOW_OBSERVABILITY_ENVIRONMENT" \notin DOMAIN Bounds
    /\ OneOf["AURORAFLOW_OBSERVABILITY_ENVIRONMENT"] = {"local", "ci", "staging", "production"}
    /\ "AURORAFLOW_LOG_DESTINATION" \in DOMAIN OneOf
    /\ "AURORAFLOW_LOG_DESTINATION" \notin DOMAIN Bounds
    /\ OneOf["AURORAFLOW_LOG_DESTINATION"] = {"both", "console", "file", "silent"}
    /\ Switches \cap DOMAIN OneOf = {} /\ Switches \cap DOMAIN Bounds = {}
BY DEF Bounds, OneOf, Switches

\* The kinds of readings, replacing or refusing what cannot be read.
IsCount(env, v, default, reading, codes) ==
    LET min == Bounds[v][1]  max == Bounds[v][2] IN
    /\ v \in DOMAIN Bounds /\ min \in Int /\ max \in Int /\ min <= max /\ default \in min .. max
    /\ \/ codes = Replacing /\ reading = ReadCount(Env(env, v), default, min, max)
       \/ codes = Refusing /\ reading = DemandInteger(Env(env, v), default, min, max)
IsEnum(env, v, default, reading, codes) ==
    /\ v \in DOMAIN OneOf /\ v \notin DOMAIN Bounds /\ default \in OneOf[v]
    /\ \/ codes = Replacing /\ reading = ReadEnum(Env(env, v), OneOf[v], default)
       \/ codes = Replacing /\ reading =
           ReadEnum(OrElse(Optional(Env(env, v)), ""), OneOf[v], default)
       \/ codes = Refusing /\ reading = DemandEnum(Env(env, v), OneOf[v], default)
IsSwitch(env, v, default, reading, codes) ==
    /\ v \notin DOMAIN OneOf /\ v \notin DOMAIN Bounds /\ default \in BOOLEAN
    /\ \/ codes = Replacing /\ reading = ReadBoolean(Env(env, v), default)
       \/ codes = Refusing /\ reading = DemandBoolean(Env(env, v), default)

\* A reading of any kind is sound.
LEMMA ReadingsAreSound ==
    ASSUME NEW env, IsEnvironment(env), NEW v, NEW default, NEW reading, NEW codes,
           \/ IsCount(env, v, default, reading, codes)
           \/ IsEnum(env, v, default, reading, codes)
           \/ IsSwitch(env, v, default, reading, codes)
    PROVE  Sound(env, v, reading) /\ reading.code \in codes
<1>. DEFINE text == Env(env, v)
<1>1. CASE IsCount(env, v, default, reading, codes)
  <2>. DEFINE min == Bounds[v][1]
              max == Bounds[v][2]
  <2>1. Sound(env, v, ReadCount(text, default, min, max)) /\ Sound(env, v, DemandInteger(text,
            default, min, max))
    BY <1>1, CountIsSound, IntegerIsSound DEF IsCount
  <2>2. ReadCount(text, default, min, max).code \in Replacing
    BY DEF ReadCount, Replacing, Taken, Instead
  <2>3. DemandInteger(text, default, min, max).code \in Refusing
    BY DEF DemandInteger, Refusing, Taken, NotReadable
  <2>. HIDE DEF text, min, max
  <2>. QED BY <1>1, <2>1, <2>2, <2>3 DEF IsCount, text, min, max
<1>2. CASE IsEnum(env, v, default, reading, codes)
  <2>. DEFINE trimmed == OrElse(Optional(text), "")
  <2>1. /\ Sound(env, v, ReadEnum(text, OneOf[v], default))
        /\ Sound(env, v, DemandEnum(text, OneOf[v], default))
        /\ Sound(env, v, ReadEnum(trimmed, OneOf[v], default))
    BY <1>2, EnumIsSound DEF IsEnum
  <2>2. \A x : ReadEnum(x, OneOf[v], default).code \in Replacing
    BY DEF ReadEnum, Replacing, Taken, Instead
  <2>3. DemandEnum(text, OneOf[v], default).code \in Refusing
    BY DEF DemandEnum, Refusing, Taken, NotReadable
  <2>. QED BY <1>2, <2>1, <2>2, <2>3 DEF IsEnum
<1>3. CASE IsSwitch(env, v, default, reading, codes)
  <2>1. Sound(env, v, ReadBoolean(text, default)) /\ Sound(env, v, DemandBoolean(text, default))
    BY <1>3, BooleanIsSound DEF IsSwitch
  <2>2. ReadBoolean(text, default).code \in Replacing
    BY DEF ReadBoolean, Replacing, Taken, Instead
  <2>3. DemandBoolean(text, default).code \in Refusing
    BY DEF DemandBoolean, Refusing, Taken, NotReadable
  <2>. QED BY <1>3, <2>1, <2>2, <2>3 DEF IsSwitch
<1>. QED BY <1>1, <1>2, <1>3

\* Everything resolveSelfHealingConfig reads.
LEMMA HealingIsSound ==
    ASSUME NEW env, IsEnvironment(env)
    PROVE  TableIsSound(env, HealingReadings(env), Replacing)
<1>. DEFINE r == HealingReadings(env)
            mode  == ReadEnum(Env(env, "SELF_HEAL_MODE"), {"off", "suggest", "guarded"}, "off")
            heals == mode.value # "off"
<1>1. FieldIsSound(env, r, "AURORAFLOW_CONFIG_STRICT", Replacing)
  <2>1. r.AURORAFLOW_CONFIG_STRICT = ReadBoolean(Env(env, "AURORAFLOW_CONFIG_STRICT"), FALSE)
    BY DEF HealingReadings
  <2>. HIDE DEF r
  <2>2. IsSwitch(env, "AURORAFLOW_CONFIG_STRICT", FALSE, r.AURORAFLOW_CONFIG_STRICT, Replacing)
    BY <2>1, DomainsOfVariables DEF IsSwitch, Switches
  <2>. QED BY <2>2, ReadingsAreSound DEF FieldIsSound
<1>2. FieldIsSound(env, r, "SELF_HEAL_MODE", Replacing)
  <2>1. r.SELF_HEAL_MODE =
           ReadEnum(Env(env, "SELF_HEAL_MODE"), {"off", "suggest", "guarded"}, "off")
    BY DEF HealingReadings
  <2>. HIDE DEF r
  <2>2. IsEnum(env, "SELF_HEAL_MODE", "off", r.SELF_HEAL_MODE, Replacing)
    BY <2>1, DomainsOfVariables DEF IsEnum
  <2>. QED BY <2>2, ReadingsAreSound DEF FieldIsSound
<1>3. FieldIsSound(env, r, "SELF_HEAL_SAT_ENABLED", Replacing)
  <2>1. r.SELF_HEAL_SAT_ENABLED = ReadBoolean(Env(env, "SELF_HEAL_SAT_ENABLED"), heals)
    BY DEF HealingReadings
  <2>. HIDE DEF r
  <2>2. IsSwitch(env, "SELF_HEAL_SAT_ENABLED", heals, r.SELF_HEAL_SAT_ENABLED, Replacing)
    BY <2>1, DomainsOfVariables DEF IsSwitch, Switches
  <2>. QED BY <2>2, ReadingsAreSound DEF FieldIsSound
<1>4. FieldIsSound(env, r, "SELF_HEAL_SAT_CAPTURE_DOM", Replacing)
  <2>1. r.SELF_HEAL_SAT_CAPTURE_DOM = ReadBoolean(Env(env, "SELF_HEAL_SAT_CAPTURE_DOM"), heals)
    BY DEF HealingReadings
  <2>. HIDE DEF r
  <2>2. IsSwitch(env, "SELF_HEAL_SAT_CAPTURE_DOM", heals, r.SELF_HEAL_SAT_CAPTURE_DOM, Replacing)
    BY <2>1, DomainsOfVariables DEF IsSwitch, Switches
  <2>. QED BY <2>2, ReadingsAreSound DEF FieldIsSound
<1>5. FieldIsSound(env, r, "SELF_HEAL_MAX_DOM_NODES", Replacing)
  <2>1. r.SELF_HEAL_MAX_DOM_NODES = ReadCount(Env(env, "SELF_HEAL_MAX_DOM_NODES"), 500, 1, 5000)
    BY DEF HealingReadings
  <2>. HIDE DEF r
  <2>2. IsCount(env, "SELF_HEAL_MAX_DOM_NODES", 500, r.SELF_HEAL_MAX_DOM_NODES, Replacing)
    BY <2>1, DomainsOfVariables DEF IsCount
  <2>. QED BY <2>2, ReadingsAreSound DEF FieldIsSound
<1>6. FieldIsSound(env, r, "SELF_HEAL_MAX_CANDIDATES", Replacing)
  <2>1. r.SELF_HEAL_MAX_CANDIDATES = ReadCount(Env(env, "SELF_HEAL_MAX_CANDIDATES"), 10, 1, 50)
    BY DEF HealingReadings
  <2>. HIDE DEF r
  <2>2. IsCount(env, "SELF_HEAL_MAX_CANDIDATES", 10, r.SELF_HEAL_MAX_CANDIDATES, Replacing)
    BY <2>1, DomainsOfVariables DEF IsCount
  <2>. QED BY <2>2, ReadingsAreSound DEF FieldIsSound
<1>7. FieldIsSound(env, r, "SELF_HEAL_MAX_TEXT_LENGTH", Replacing)
  <2>1. r.SELF_HEAL_MAX_TEXT_LENGTH =
            ReadCount(Env(env, "SELF_HEAL_MAX_TEXT_LENGTH"), 120, 1, 500)
    BY DEF HealingReadings
  <2>. HIDE DEF r
  <2>2. IsCount(env, "SELF_HEAL_MAX_TEXT_LENGTH", 120, r.SELF_HEAL_MAX_TEXT_LENGTH, Replacing)
    BY <2>1, DomainsOfVariables DEF IsCount
  <2>. QED BY <2>2, ReadingsAreSound DEF FieldIsSound
<1>8. FieldIsSound(env, r, "SELF_HEAL_REGISTRY_MODE", Replacing)
  <2>1. r.SELF_HEAL_REGISTRY_MODE =
           ReadEnum(Env(env, "SELF_HEAL_REGISTRY_MODE"), {"off", "read", "write_pending"}, "read")
    BY DEF HealingReadings
  <2>. HIDE DEF r
  <2>2. IsEnum(env, "SELF_HEAL_REGISTRY_MODE", "read", r.SELF_HEAL_REGISTRY_MODE, Replacing)
    BY <2>1, DomainsOfVariables DEF IsEnum
  <2>. QED BY <2>2, ReadingsAreSound DEF FieldIsSound
<1>9. FieldIsSound(env, r, "SELF_HEAL_PROMOTION_MODE", Replacing)
  <2>1. r.SELF_HEAL_PROMOTION_MODE =
           ReadEnum(Env(env, "SELF_HEAL_PROMOTION_MODE"), {"manual", "ci_acknowledged"}, "manual")
    BY DEF HealingReadings
  <2>. HIDE DEF r
  <2>2. IsEnum(env, "SELF_HEAL_PROMOTION_MODE", "manual", r.SELF_HEAL_PROMOTION_MODE, Replacing)
    BY <2>1, DomainsOfVariables DEF IsEnum
  <2>. QED BY <2>2, ReadingsAreSound DEF FieldIsSound
<1>10. FieldIsSound(env, r, "SELF_HEAL_RUN_BUDGET_MODE", Replacing)
  <2>1. r.SELF_HEAL_RUN_BUDGET_MODE =
           ReadEnum(Env(env, "SELF_HEAL_RUN_BUDGET_MODE"), {"warning_only", "enforce"},
               "warning_only")
    BY DEF HealingReadings
  <2>. HIDE DEF r
  <2>2. IsEnum(env, "SELF_HEAL_RUN_BUDGET_MODE", "warning_only", r.SELF_HEAL_RUN_BUDGET_MODE,
            Replacing)
    BY <2>1, DomainsOfVariables DEF IsEnum
  <2>. QED BY <2>2, ReadingsAreSound DEF FieldIsSound
<1>11. FieldIsSound(env, r, "SELF_HEAL_RUN_BUDGET_MAX_HEALING_ATTEMPTS", Replacing)
  <2>1. r.SELF_HEAL_RUN_BUDGET_MAX_HEALING_ATTEMPTS =
           ReadCount(Env(env, "SELF_HEAL_RUN_BUDGET_MAX_HEALING_ATTEMPTS"), 25, 0, 10000)
    BY DEF HealingReadings
  <2>. HIDE DEF r
  <2>2. IsCount(env, "SELF_HEAL_RUN_BUDGET_MAX_HEALING_ATTEMPTS", 25,
            r.SELF_HEAL_RUN_BUDGET_MAX_HEALING_ATTEMPTS, Replacing)
    BY <2>1, DomainsOfVariables DEF IsCount
  <2>. QED BY <2>2, ReadingsAreSound DEF FieldIsSound
<1>12. FieldIsSound(env, r, "SELF_HEAL_RUN_BUDGET_MAX_FAILURE_ARTIFACTS", Replacing)
  <2>1. r.SELF_HEAL_RUN_BUDGET_MAX_FAILURE_ARTIFACTS =
           ReadCount(Env(env, "SELF_HEAL_RUN_BUDGET_MAX_FAILURE_ARTIFACTS"), 50, 0, 10000)
    BY DEF HealingReadings
  <2>. HIDE DEF r
  <2>2. IsCount(env, "SELF_HEAL_RUN_BUDGET_MAX_FAILURE_ARTIFACTS", 50,
            r.SELF_HEAL_RUN_BUDGET_MAX_FAILURE_ARTIFACTS, Replacing)
    BY <2>1, DomainsOfVariables DEF IsCount
  <2>. QED BY <2>2, ReadingsAreSound DEF FieldIsSound
<1>13. Documented \cap DOMAIN r \subseteq
         {"AURORAFLOW_CONFIG_STRICT", "SELF_HEAL_MODE", "SELF_HEAL_SAT_ENABLED",
          "SELF_HEAL_SAT_CAPTURE_DOM", "SELF_HEAL_MAX_DOM_NODES", "SELF_HEAL_MAX_CANDIDATES",
          "SELF_HEAL_MAX_TEXT_LENGTH", "SELF_HEAL_REGISTRY_MODE", "SELF_HEAL_PROMOTION_MODE",
          "SELF_HEAL_RUN_BUDGET_MODE", "SELF_HEAL_RUN_BUDGET_MAX_HEALING_ATTEMPTS",
          "SELF_HEAL_RUN_BUDGET_MAX_FAILURE_ARTIFACTS"}
  <2>1. DOMAIN r = {"AURORAFLOW_CONFIG_STRICT", "SELF_HEAL_MODE", "SELF_HEAL_SAT_ENABLED",
                    "SELF_HEAL_SAT_CAPTURE_DOM", "SELF_HEAL_MAX_DOM_NODES",
                    "SELF_HEAL_MAX_CANDIDATES", "SELF_HEAL_MAX_TEXT_LENGTH",
                    "SELF_HEAL_REGISTRY_MODE", "SELF_HEAL_PROMOTION_MODE",
                    "SELF_HEAL_RUN_BUDGET_MODE", "SELF_HEAL_RUN_BUDGET_MAX_HEALING_ATTEMPTS",
                    "SELF_HEAL_RUN_BUDGET_MAX_FAILURE_ARTIFACTS", "SELF_HEAL_MIN_CONFIDENCE",
                    "SELF_HEAL_ALLOWED_ACTIONS", "SELF_HEAL_ALLOWED_DOMAINS",
                    "SELF_HEAL_ALLOWED_ATTRIBUTES"}
    BY DEF HealingReadings
  <2>. HIDE DEF r
  <2>2. \A v \in {"SELF_HEAL_MIN_CONFIDENCE", "SELF_HEAL_ALLOWED_ACTIONS",
                  "SELF_HEAL_ALLOWED_DOMAINS",
                  "SELF_HEAL_ALLOWED_ATTRIBUTES"} : v \notin Documented
    BY DEF Documented, Bounds, OneOf, Switches
  <2>. QED BY <2>1, <2>2
<1>. HIDE DEF r
<1>. QED BY ONLY <1>1, <1>2, <1>3, <1>4, <1>5, <1>6, <1>7, <1>8, <1>9, <1>10, <1>11, <1>12,
            <1>13 DEF TableIsSound, r

\* The environment that is given, or guessed.
LEMMA EnvironmentIsSound ==
    ASSUME NEW env, IsEnvironment(env)
    PROVE  /\ Sound(env, "AURORAFLOW_OBSERVABILITY_ENVIRONMENT", DemandEnvironment(env))
           /\ DemandEnvironment(env).code \in Refusing
<1>. DEFINE v == "AURORAFLOW_OBSERVABILITY_ENVIRONMENT"
            text == Env(env, v)
            set == {"local", "ci", "staging", "production"}
            given == DemandEnum(text, set, NotSet)
            reading == DemandEnvironment(env)
<1>1. v \in DOMAIN OneOf /\ v \notin DOMAIN Bounds /\ OneOf[v] = set
  BY DomainsOfVariables
<1>2. \A x : InDomain(v, x) <=> x \in set
  BY <1>1 DEF InDomain
<1>3. v \in DOMAIN env => Asked(v, env[v]) = {text} \cap set
  BY <1>1, TextOf DEF Asked
<1>4. CASE Optional(text) = NotSet
  <2>1. ~Plainly(env, v)
    BY <1>4, TextOf DEF Optional
  <2>2. given.value = NotSet
    BY <1>4 DEF DemandEnum, Taken
  <2>3. \/ reading = [value |-> "(none)", code |-> "refused"]
        \/ \E x \in set : reading = [value |-> x, code |-> "taken"]
    BY <2>2 DEF DemandEnvironment, Taken, NotReadable
  <2>. HIDE DEF reading
  <2>. QED BY <1>2, <2>1, <2>3 DEF Sound, Refusing, reading
<1>5. CASE Optional(text) # NotSet
  <2>1. given = IF text \in set THEN [value |-> text, code |-> "taken"]
                ELSE [value |-> "(none)", code |-> "refused"]
    BY <1>5 DEF DemandEnum, Taken, NotReadable
  <2>2. given.value # NotSet
    <3>. HIDE DEF given
    <3>. QED BY <2>1 DEF NotSet
  <2>3. reading = given
    BY <2>2 DEF DemandEnvironment
  <2>. HIDE DEF reading, given, set
  <2>4. InDomain(v, reading.value) \/ reading.code = "refused"
    BY <1>2, <2>1, <2>3
  <2>5. Plainly(env, v) => IF Asked(v, env[v]) = {} THEN reading.code # "taken"
                           ELSE reading.code = "taken" /\ reading.value \in Asked(v, env[v])
    BY <1>3, <2>1, <2>3 DEF Plainly
  <2>6. reading.code \in Refusing
    BY <2>1, <2>3 DEF Refusing
  <2>. QED BY <2>4, <2>5, <2>6 DEF Sound, reading, v
<1>. QED BY <1>4, <1>5

\* Everything resolveTelemetryConfig reads.
LEMMA TelemetryIsSound ==
    ASSUME NEW env, IsEnvironment(env)
    PROVE  TableIsSound(env, TelemetryReadings(env), Refusing)
<1>. DEFINE r == TelemetryReadings(env)
<1>1. FieldIsSound(env, r, "AURORAFLOW_OBSERVABILITY_ENABLED", Refusing)
  <2>1. r.AURORAFLOW_OBSERVABILITY_ENABLED =
           DemandBoolean(Env(env, "AURORAFLOW_OBSERVABILITY_ENABLED"), FALSE)
    BY DEF TelemetryReadings
  <2>. HIDE DEF r
  <2>2. IsSwitch(env, "AURORAFLOW_OBSERVABILITY_ENABLED", FALSE,
            r.AURORAFLOW_OBSERVABILITY_ENABLED, Refusing)
    BY <2>1, DomainsOfVariables DEF IsSwitch, Switches
  <2>. QED BY <2>2, ReadingsAreSound DEF FieldIsSound
<1>2. FieldIsSound(env, r, "AURORAFLOW_OBSERVABILITY_STRICT", Refusing)
  <2>1. r.AURORAFLOW_OBSERVABILITY_STRICT =
           DemandBoolean(Env(env, "AURORAFLOW_OBSERVABILITY_STRICT"), FALSE)
    BY DEF TelemetryReadings
  <2>. HIDE DEF r
  <2>2. IsSwitch(env, "AURORAFLOW_OBSERVABILITY_STRICT", FALSE,
            r.AURORAFLOW_OBSERVABILITY_STRICT, Refusing)
    BY <2>1, DomainsOfVariables DEF IsSwitch, Switches
  <2>. QED BY <2>2, ReadingsAreSound DEF FieldIsSound
<1>3. FieldIsSound(env, r, "AURORAFLOW_OBSERVABILITY_EXPORT_RAW_SELECTORS", Refusing)
  <2>1. r.AURORAFLOW_OBSERVABILITY_EXPORT_RAW_SELECTORS =
           DemandBoolean(Env(env, "AURORAFLOW_OBSERVABILITY_EXPORT_RAW_SELECTORS"), FALSE)
    BY DEF TelemetryReadings
  <2>. HIDE DEF r
  <2>2. IsSwitch(env, "AURORAFLOW_OBSERVABILITY_EXPORT_RAW_SELECTORS", FALSE,
            r.AURORAFLOW_OBSERVABILITY_EXPORT_RAW_SELECTORS, Refusing)
    BY <2>1, DomainsOfVariables DEF IsSwitch, Switches
  <2>. QED BY <2>2, ReadingsAreSound DEF FieldIsSound
<1>4. FieldIsSound(env, r, "AURORAFLOW_OBSERVABILITY_METRIC_EXPORT_INTERVAL_MS", Refusing)
  <2>1. r.AURORAFLOW_OBSERVABILITY_METRIC_EXPORT_INTERVAL_MS =
           DemandInteger(Env(env, "AURORAFLOW_OBSERVABILITY_METRIC_EXPORT_INTERVAL_MS"), 10000,
               1000, 300000)
    BY DEF TelemetryReadings
  <2>. HIDE DEF r
  <2>2. IsCount(env, "AURORAFLOW_OBSERVABILITY_METRIC_EXPORT_INTERVAL_MS", 10000,
            r.AURORAFLOW_OBSERVABILITY_METRIC_EXPORT_INTERVAL_MS, Refusing)
    BY <2>1, DomainsOfVariables DEF IsCount
  <2>. QED BY <2>2, ReadingsAreSound DEF FieldIsSound
<1>5. FieldIsSound(env, r, "AURORAFLOW_OBSERVABILITY_SHUTDOWN_TIMEOUT_MS", Refusing)
  <2>1. r.AURORAFLOW_OBSERVABILITY_SHUTDOWN_TIMEOUT_MS =
           DemandInteger(Env(env, "AURORAFLOW_OBSERVABILITY_SHUTDOWN_TIMEOUT_MS"), 3000, 100,
               120000)
    BY DEF TelemetryReadings
  <2>. HIDE DEF r
  <2>2. IsCount(env, "AURORAFLOW_OBSERVABILITY_SHUTDOWN_TIMEOUT_MS", 3000,
            r.AURORAFLOW_OBSERVABILITY_SHUTDOWN_TIMEOUT_MS, Refusing)
    BY <2>1, DomainsOfVariables DEF IsCount
  <2>. QED BY <2>2, ReadingsAreSound DEF FieldIsSound
<1>6. FieldIsSound(env, r, "AURORAFLOW_OBSERVABILITY_ENVIRONMENT", Refusing)
  <2>1. r.AURORAFLOW_OBSERVABILITY_ENVIRONMENT = DemandEnvironment(env)
    BY DEF TelemetryReadings
  <2>. HIDE DEF r
  <2>. QED BY <2>1, EnvironmentIsSound DEF FieldIsSound
<1>7. Documented \cap DOMAIN r \subseteq
         {"AURORAFLOW_OBSERVABILITY_ENABLED", "AURORAFLOW_OBSERVABILITY_STRICT",
          "AURORAFLOW_OBSERVABILITY_EXPORT_RAW_SELECTORS",
          "AURORAFLOW_OBSERVABILITY_METRIC_EXPORT_INTERVAL_MS",
          "AURORAFLOW_OBSERVABILITY_SHUTDOWN_TIMEOUT_MS", "AURORAFLOW_OBSERVABILITY_ENVIRONMENT"}
  <2>1. DOMAIN r = {"AURORAFLOW_OBSERVABILITY_ENABLED", "AURORAFLOW_OBSERVABILITY_STRICT",
                    "AURORAFLOW_OBSERVABILITY_EXPORT_RAW_SELECTORS",
                    "AURORAFLOW_OBSERVABILITY_METRIC_EXPORT_INTERVAL_MS",
                    "AURORAFLOW_OBSERVABILITY_SHUTDOWN_TIMEOUT_MS",
                    "AURORAFLOW_OBSERVABILITY_ENVIRONMENT", "OTEL_EXPORTER_OTLP_ENDPOINT",
                    "AURORAFLOW_RUN_ID", "GITHUB_REF_NAME", "OTEL_RESOURCE_ATTRIBUTES",
                    "AURORAFLOW_OBSERVABILITY_SERVICE_NAME"}
    BY DEF TelemetryReadings
  <2>. HIDE DEF r
  <2>2. \A v \in {"OTEL_EXPORTER_OTLP_ENDPOINT", "AURORAFLOW_RUN_ID", "GITHUB_REF_NAME",
                  "OTEL_RESOURCE_ATTRIBUTES",
                  "AURORAFLOW_OBSERVABILITY_SERVICE_NAME"} : v \notin Documented
    BY DEF Documented, Bounds, OneOf, Switches
  <2>. QED BY <2>1, <2>2
<1>. HIDE DEF r
<1>. QED BY ONLY <1>1, <1>2, <1>3, <1>4, <1>5, <1>6, <1>7 DEF TableIsSound, r

\* Everything resolveRedisRuntimeConfig reads.
LEMMA RedisIsSound ==
    ASSUME NEW env, IsEnvironment(env)
    PROVE  TableIsSound(env, RedisReadings(env), Refusing)
<1>. DEFINE r == RedisReadings(env)
<1>1. FieldIsSound(env, r, "AURORAFLOW_REDIS_PORT", Refusing)
  <2>1. r.AURORAFLOW_REDIS_PORT = DemandInteger(Env(env, "AURORAFLOW_REDIS_PORT"), 6379, 1, 65535)
    BY DEF RedisReadings
  <2>. HIDE DEF r
  <2>2. IsCount(env, "AURORAFLOW_REDIS_PORT", 6379, r.AURORAFLOW_REDIS_PORT, Refusing)
    BY <2>1, DomainsOfVariables DEF IsCount
  <2>. QED BY <2>2, ReadingsAreSound DEF FieldIsSound
<1>2. FieldIsSound(env, r, "AURORAFLOW_REDIS_DB", Refusing)
  <2>1. r.AURORAFLOW_REDIS_DB = DemandInteger(Env(env, "AURORAFLOW_REDIS_DB"), 0, 0, 16)
    BY DEF RedisReadings
  <2>. HIDE DEF r
  <2>2. IsCount(env, "AURORAFLOW_REDIS_DB", 0, r.AURORAFLOW_REDIS_DB, Refusing)
    BY <2>1, DomainsOfVariables DEF IsCount
  <2>. QED BY <2>2, ReadingsAreSound DEF FieldIsSound
<1>3. FieldIsSound(env, r, "AURORAFLOW_REDIS_TLS", Refusing)
  <2>1. r.AURORAFLOW_REDIS_TLS = DemandBoolean(Env(env, "AURORAFLOW_REDIS_TLS"), FALSE)
    BY DEF RedisReadings
  <2>. HIDE DEF r
  <2>2. IsSwitch(env, "AURORAFLOW_REDIS_TLS", FALSE, r.AURORAFLOW_REDIS_TLS, Refusing)
    BY <2>1, DomainsOfVariables DEF IsSwitch, Switches
  <2>. QED BY <2>2, ReadingsAreSound DEF FieldIsSound
<1>4. FieldIsSound(env, r, "AURORAFLOW_REDIS_CONNECT_TIMEOUT_MS", Refusing)
  <2>1. r.AURORAFLOW_REDIS_CONNECT_TIMEOUT_MS =
           DemandInteger(Env(env, "AURORAFLOW_REDIS_CONNECT_TIMEOUT_MS"), 5000, 100, 120000)
    BY DEF RedisReadings
  <2>. HIDE DEF r
  <2>2. IsCount(env, "AURORAFLOW_REDIS_CONNECT_TIMEOUT_MS", 5000,
            r.AURORAFLOW_REDIS_CONNECT_TIMEOUT_MS, Refusing)
    BY <2>1, DomainsOfVariables DEF IsCount
  <2>. QED BY <2>2, ReadingsAreSound DEF FieldIsSound
<1>5. FieldIsSound(env, r, "AURORAFLOW_REDIS_MAX_RETRIES", Refusing)
  <2>1. r.AURORAFLOW_REDIS_MAX_RETRIES =
           DemandInteger(Env(env, "AURORAFLOW_REDIS_MAX_RETRIES"), 3, 0, 20)
    BY DEF RedisReadings
  <2>. HIDE DEF r
  <2>2. IsCount(env, "AURORAFLOW_REDIS_MAX_RETRIES", 3, r.AURORAFLOW_REDIS_MAX_RETRIES, Refusing)
    BY <2>1, DomainsOfVariables DEF IsCount
  <2>. QED BY <2>2, ReadingsAreSound DEF FieldIsSound
<1>6. FieldIsSound(env, r, "AURORAFLOW_REDIS_BASE_BACKOFF_MS", Refusing)
  <2>1. r.AURORAFLOW_REDIS_BASE_BACKOFF_MS =
           DemandInteger(Env(env, "AURORAFLOW_REDIS_BASE_BACKOFF_MS"), 50, 1, 10000)
    BY DEF RedisReadings
  <2>. HIDE DEF r
  <2>2. IsCount(env, "AURORAFLOW_REDIS_BASE_BACKOFF_MS", 50, r.AURORAFLOW_REDIS_BASE_BACKOFF_MS,
            Refusing)
    BY <2>1, DomainsOfVariables DEF IsCount
  <2>. QED BY <2>2, ReadingsAreSound DEF FieldIsSound
<1>7. FieldIsSound(env, r, "AURORAFLOW_REDIS_MAX_BACKOFF_MS", Refusing)
  <2>1. r.AURORAFLOW_REDIS_MAX_BACKOFF_MS =
           DemandInteger(Env(env, "AURORAFLOW_REDIS_MAX_BACKOFF_MS"), 2000, 1, 120000)
    BY DEF RedisReadings
  <2>. HIDE DEF r
  <2>2. IsCount(env, "AURORAFLOW_REDIS_MAX_BACKOFF_MS", 2000, r.AURORAFLOW_REDIS_MAX_BACKOFF_MS,
            Refusing)
    BY <2>1, DomainsOfVariables DEF IsCount
  <2>. QED BY <2>2, ReadingsAreSound DEF FieldIsSound
<1>8. Documented \cap DOMAIN r \subseteq
         {"AURORAFLOW_REDIS_PORT", "AURORAFLOW_REDIS_DB", "AURORAFLOW_REDIS_TLS",
          "AURORAFLOW_REDIS_CONNECT_TIMEOUT_MS", "AURORAFLOW_REDIS_MAX_RETRIES",
          "AURORAFLOW_REDIS_BASE_BACKOFF_MS", "AURORAFLOW_REDIS_MAX_BACKOFF_MS"}
  <2>1. DOMAIN r = {"AURORAFLOW_REDIS_PORT", "AURORAFLOW_REDIS_DB", "AURORAFLOW_REDIS_TLS",
                    "AURORAFLOW_REDIS_CONNECT_TIMEOUT_MS", "AURORAFLOW_REDIS_MAX_RETRIES",
                    "AURORAFLOW_REDIS_BASE_BACKOFF_MS", "AURORAFLOW_REDIS_MAX_BACKOFF_MS",
                    "AURORAFLOW_REDIS_URL", "AURORAFLOW_REDIS_HOST"}
    BY DEF RedisReadings
  <2>. HIDE DEF r
  <2>2. \A v \in {"AURORAFLOW_REDIS_URL", "AURORAFLOW_REDIS_HOST"} : v \notin Documented
    BY DEF Documented, Bounds, OneOf, Switches
  <2>. QED BY <2>1, <2>2
<1>. HIDE DEF r
<1>. QED BY ONLY <1>1, <1>2, <1>3, <1>4, <1>5, <1>6, <1>7, <1>8 DEF TableIsSound, r

\* Everything the logger reads.
LEMMA LoggerIsSound ==
    ASSUME NEW env, IsEnvironment(env)
    PROVE  TableIsSound(env, LoggerReadings(env), Refusing)
<1>. DEFINE r == LoggerReadings(env)
            default == IF Env(env, "NODE_ENV") = "production" THEN "file" ELSE "both"
<1>1. FieldIsSound(env, r, "AURORAFLOW_LOG_DESTINATION", Refusing)
  <2>1. r.AURORAFLOW_LOG_DESTINATION =
           DemandEnum(Env(env, "AURORAFLOW_LOG_DESTINATION"), {"both", "console", "file",
               "silent"}, default)
    BY DEF LoggerReadings
  <2>. HIDE DEF r
  <2>2. IsEnum(env, "AURORAFLOW_LOG_DESTINATION", default, r.AURORAFLOW_LOG_DESTINATION, Refusing)
    BY <2>1, DomainsOfVariables DEF IsEnum
  <2>. QED BY <2>2, ReadingsAreSound DEF FieldIsSound
<1>2. FieldIsSound(env, r, "AURORAFLOW_LOG_REDACT_ENABLED", Refusing)
  <2>1. r.AURORAFLOW_LOG_REDACT_ENABLED =
           DemandBoolean(Env(env, "AURORAFLOW_LOG_REDACT_ENABLED"), TRUE)
    BY DEF LoggerReadings
  <2>. HIDE DEF r
  <2>2. IsSwitch(env, "AURORAFLOW_LOG_REDACT_ENABLED", TRUE, r.AURORAFLOW_LOG_REDACT_ENABLED,
            Refusing)
    BY <2>1, DomainsOfVariables DEF IsSwitch, Switches
  <2>. QED BY <2>2, ReadingsAreSound DEF FieldIsSound
<1>3. Documented \cap DOMAIN r \subseteq
         {"AURORAFLOW_LOG_DESTINATION", "AURORAFLOW_LOG_REDACT_ENABLED"}
  <2>1. DOMAIN r = {"AURORAFLOW_LOG_DESTINATION", "AURORAFLOW_LOG_REDACT_ENABLED",
                    "AURORAFLOW_LOG_LEVEL", "AURORAFLOW_LOG_REDACT_PATHS"}
    BY DEF LoggerReadings
  <2>. HIDE DEF r
  <2>2. \A v \in {"AURORAFLOW_LOG_LEVEL", "AURORAFLOW_LOG_REDACT_PATHS"} : v \notin Documented
    BY DEF Documented, Bounds, OneOf, Switches
  <2>. QED BY <2>1, <2>2
<1>. HIDE DEF r
<1>. QED BY ONLY <1>1, <1>2, <1>3 DEF TableIsSound, r

-----------------------------------------------------------------------------
(* What the resolvers make of the tables.                                  *)

\* The part of the property that is the same for every resolver.
Understood(s) ==
    /\ ~s.threw =>
          /\ \A v \in Documented \cap DOMAIN s.values : InDomain(v, s.values[v])
          /\ \A v \in PlainlySet \cap DOMAIN s.values :
                IF Asked(v, environment[v]) = {} THEN \E d \in s.diagnostics : d[1] = v
                ELSE \/ s.values[v] \in Asked(v, environment[v])
                     \/ v = "SELF_HEAL_SAT_CAPTURE_DOM" /\ ~s.values.SELF_HEAL_SAT_ENABLED
          /\ \A d \in s.diagnostics :
                d[3] = s.values[d[1]] \/ d[1] = "SELF_HEAL_SAT_CAPTURE_DOM"
    /\ \A d \in s.diagnostics : d[1] \in PlainlySet => Asked(d[1], environment[d[1]]) = {}

\* Everything that was read is in effect, or everything is refused.
LEMMA DemandedIsUnderstood ==
    ASSUME NEW r, TableIsSound(environment, r, Refusing)
    PROVE  /\ Understood(Demanded(r))
           /\ Demanded(r).threw \in BOOLEAN
           /\ ~Demanded(r).threw =>
                 /\ Demanded(r).values = [v \in DOMAIN r |-> r[v].value]
                 /\ \A v \in Documented \cap DOMAIN r : InDomain(v, r[v].value)
<1>. DEFINE s == Demanded(r)
<1>1. CASE \E v \in DOMAIN r : r[v].code = "refused"
  <2>1. s = [values |-> <<>>, diagnostics |-> {}, threw |-> TRUE]
    BY <1>1 DEF Demanded, Thrown
  <2>. HIDE DEF s
  <2>2. s.threw = TRUE /\ s.diagnostics = {}
    BY <2>1
  <2>. QED BY <2>2 DEF Understood, s
<1>2. CASE ~ \E v \in DOMAIN r : r[v].code = "refused"
  <2>1. s = [values |-> [v \in DOMAIN r |-> r[v].value], diagnostics |-> {}, threw |-> FALSE]
    BY <1>2 DEF Demanded
  <2>. HIDE DEF s
  <2>2. s.threw = FALSE /\ s.diagnostics = {} /\ s.values = [v \in DOMAIN r |-> r[v].value]
    BY <2>1
  <2>3. ASSUME NEW v \in Documented \cap DOMAIN r
        PROVE  InDomain(v, r[v].value)
    BY <1>2, <2>3 DEF TableIsSound, FieldIsSound, Sound
  <2>4. ASSUME NEW v \in PlainlySet \cap DOMAIN r
        PROVE  Asked(v, environment[v]) # {} /\ r[v].value \in Asked(v, environment[v])
    <3>1. v \in Documented /\ Plainly(environment, v)
      BY <2>4 DEF PlainlySet, Plainly
    <3>2. r[v].code = "taken"
      BY <1>2, <3>1 DEF TableIsSound, FieldIsSound, Refusing
    <3>. QED BY <3>1, <3>2 DEF TableIsSound, FieldIsSound, Sound
  <2>. QED BY <2>2, <2>3, <2>4 DEF Understood, s
<1>. QED BY <1>1, <1>2

\* The property, from its parts.
LEMMA PartsOfTheProperty ==
    ASSUME NEW of, NEW option, NEW s, settings = [of |-> of, strictOption |-> option, made |-> s],
           Understood(s),
           of = "healing" =>
              /\ s.threw <=> /\ s.diagnostics # {}
                             /\ \/ option = "true"
                                \/ /\ option = NotSet
                                   /\ Env(environment, "AURORAFLOW_CONFIG_STRICT") \in TrueTokens
              /\ ~s.threw => (s.values.SELF_HEAL_SAT_CAPTURE_DOM => s.values.SELF_HEAL_SAT_ENABLED),
           of = "redis" /\ ~s.threw =>
              /\ Len(ConnectsTo(s.values)) = 1 <=> s.values.AURORAFLOW_REDIS_URL # NotSet
              /\ BackoffDelay(s.values, 1)[1] = s.values.AURORAFLOW_REDIS_BASE_BACKOFF_MS
              /\ \A attempt \in 1 .. 4 :
                    /\ BackoffDelay(s.values, attempt)[1] <= BackoffDelay(s.values, attempt + 1)[1]
                    /\ BackoffDelay(s.values, attempt)[2] <=
                          s.values.AURORAFLOW_REDIS_MAX_BACKOFF_MS
                          + s.values.AURORAFLOW_REDIS_BASE_BACKOFF_MS \div 2,
           of = "logger" /\ ~s.threw =>
              (TransportTargets(s.values) = {} <=> s.values.AURORAFLOW_LOG_DESTINATION = "silent")
    PROVE  SettingsAreWhatWasAsked
<1>1. settings.of = of /\ settings.strictOption = option /\ settings.made = s
  OBVIOUS
<1>2. \A v : (\E d \in s.diagnostics : d[1] = v) => Announced(v)
  BY <1>1 DEF Announced
<1>. QED BY <1>1, <1>2, Zenon DEF SettingsAreWhatWasAsked, Understood

\* The telemetry settings.
LEMMA TelemetryIsRight ==
    ASSUME NEW option, IsEnvironment(environment),
           settings = [of |-> "telemetry", strictOption |-> option,
                       made |-> Demanded(TelemetryReadings(environment))]
    PROVE  SettingsAreWhatWasAsked
BY TelemetryIsSound, DemandedIsUnderstood, PartsOfTheProperty

\* The settings of the logger: no target only if it is silent.
LEMMA LoggerIsRight ==
    ASSUME NEW option, IsEnvironment(environment),
           settings = [of |-> "logger", strictOption |-> option,
                       made |-> Demanded(LoggerReadings(environment))]
    PROVE  SettingsAreWhatWasAsked
<1>. DEFINE v == "AURORAFLOW_LOG_DESTINATION"
            r == LoggerReadings(environment)
            s == Demanded(r)
<1>1. TableIsSound(environment, r, Refusing)
  BY LoggerIsSound
<1>2. v \in DOMAIN r
  <2>1. DOMAIN r = {"AURORAFLOW_LOG_DESTINATION", "AURORAFLOW_LOG_REDACT_ENABLED",
                    "AURORAFLOW_LOG_LEVEL", "AURORAFLOW_LOG_REDACT_PATHS"}
    BY DEF LoggerReadings
  <2>. HIDE DEF r
  <2>. QED BY <2>1
<1>3. v \in Documented /\ \A x : InDomain(v, x) => x \in {"both", "console", "file", "silent"}
  BY DomainsOfVariables DEF InDomain, Documented
<1>. HIDE DEF r, s
<1>4. ~s.threw => s.values.AURORAFLOW_LOG_DESTINATION \in {"both", "console", "file", "silent"}
  <2>1. ~s.threw => s.values = [w \in DOMAIN r |-> r[w].value] /\ InDomain(v, r[v].value)
    BY <1>1, <1>2, <1>3, DemandedIsUnderstood DEF s
  <2>2. ~s.threw => s.values[v] = r[v].value
    BY ONLY <1>2, <2>1
  <2>3. InDomain(v, r[v].value) => r[v].value \in {"both", "console", "file", "silent"}
    BY <1>3
  <2>. QED BY <2>1, <2>2, <2>3
<1>5. ~s.threw =>
        (TransportTargets(s.values) = {} <=> s.values.AURORAFLOW_LOG_DESTINATION = "silent")
  BY <1>4 DEF TransportTargets
<1>6. Understood(s)
  BY <1>1, DemandedIsUnderstood DEF s
<1>. QED BY <1>5, <1>6, PartsOfTheProperty DEF s, r

\* Whatever is waited grows from the base delay to the cap, with half a base delay on top.
LEMMA WaitsGrow ==
    ASSUME NEW c, c.AURORAFLOW_REDIS_BASE_BACKOFF_MS \in Nat \ {0},
           c.AURORAFLOW_REDIS_MAX_BACKOFF_MS \in Int,
           c.AURORAFLOW_REDIS_BASE_BACKOFF_MS <= c.AURORAFLOW_REDIS_MAX_BACKOFF_MS
    PROVE  /\ BackoffDelay(c, 1)[1] = c.AURORAFLOW_REDIS_BASE_BACKOFF_MS
           /\ \A attempt \in 1 .. 4 :
                 /\ BackoffDelay(c, attempt)[1] <= BackoffDelay(c, attempt + 1)[1]
                 /\ BackoffDelay(c, attempt)[2] <=
                       c.AURORAFLOW_REDIS_MAX_BACKOFF_MS + c.AURORAFLOW_REDIS_BASE_BACKOFF_MS \div 2
<1>. DEFINE base == c.AURORAFLOW_REDIS_BASE_BACKOFF_MS
            cap == c.AURORAFLOW_REDIS_MAX_BACKOFF_MS
            jitter == IF base \div 2 > 1 THEN base \div 2 ELSE 1
            wait(attempt) == Least(base * 2 ^ (attempt - 1), cap)
<1>1. \A attempt : /\ BackoffDelay(c, attempt)[1] = wait(attempt)
                   /\ BackoffDelay(c, attempt)[2] = wait(attempt) + jitter - 1
  <2>1. \A attempt : BackoffDelay(c, attempt) = <<wait(attempt), wait(attempt) + jitter - 1>>
    BY Zenon DEF BackoffDelay
  <2>. HIDE DEF wait, jitter
  <2>. QED BY ONLY <2>1
<1>2. 2 ^ 0 = 1 /\ 2 ^ 1 = 2 /\ 2 ^ 2 = 4 /\ 2 ^ 3 = 8 /\ 2 ^ 4 = 16
  OBVIOUS
<1>3. base \in Nat \ {0} /\ cap \in Int /\ base <= cap
  OBVIOUS
<1>4. base \div 2 \in Int /\ base \div 2 >= 0
  BY <1>3
<1>5. jitter \in Int /\ jitter - 1 <= base \div 2
  <2>. DEFINE half == base \div 2
  <2>. HIDE DEF half
  <2>1. half \in Int /\ half >= 0
    BY <1>4 DEF half
  <2>2. jitter = IF half > 1 THEN half ELSE 1
    BY DEF half
  <2>. HIDE DEF jitter
  <2>. QED BY ONLY <2>1, <2>2 DEF half
<1>. HIDE DEF base, cap, jitter
<1>6. /\ wait(1) = base
      /\ wait(2) = Least(base * 2, cap) /\ wait(3) = Least(base * 4, cap)
      /\ wait(4) = Least(base * 8, cap) /\ wait(5) = Least(base * 16, cap)
  <2>1. 1 - 1 = 0 /\ 2 - 1 = 1 /\ 3 - 1 = 2 /\ 4 - 1 = 3 /\ 5 - 1 = 4
    OBVIOUS
  <2>2. base * 1 = base /\ Least(base, cap) = base
    BY <1>3 DEF Least
  <2>. QED BY <1>2, <2>1, <2>2
<1>. HIDE DEF wait
<1>7. \A attempt \in 1 .. 5 : wait(attempt) \in Int /\ wait(attempt) <= cap
  BY <1>3, <1>6 DEF Least
<1>8. wait(1) <= wait(2) /\ wait(2) <= wait(3) /\ wait(3) <= wait(4) /\ wait(4) <= wait(5)
  BY <1>3, <1>6 DEF Least
<1>9. \A attempt \in 1 .. 4 : wait(attempt) <= wait(attempt + 1)
  <2>1. \A attempt \in 1 .. 4 : attempt = 1 \/ attempt = 2 \/ attempt = 3 \/ attempt = 4
    OBVIOUS
  <2>2. 1 + 1 = 2 /\ 2 + 1 = 3 /\ 3 + 1 = 4 /\ 4 + 1 = 5
    OBVIOUS
  <2>. QED BY <1>8, <2>1, <2>2
<1>10. \A attempt \in 1 .. 4 : wait(attempt) + jitter - 1 <= cap + base \div 2
  BY <1>3, <1>4, <1>5, <1>7
<1>11. BackoffDelay(c, 1)[1] = base
  BY <1>1, <1>6
<1>12. ASSUME NEW attempt \in 1 .. 4
       PROVE  /\ BackoffDelay(c, attempt)[1] <= BackoffDelay(c, attempt + 1)[1]
              /\ BackoffDelay(c, attempt)[2] <= cap + base \div 2
  <2>1. /\ BackoffDelay(c, attempt)[1] = wait(attempt)
        /\ BackoffDelay(c, attempt + 1)[1] = wait(attempt + 1)
        /\ BackoffDelay(c, attempt)[2] = wait(attempt) + jitter - 1
    BY ONLY <1>1
  <2>. QED BY ONLY <1>9, <1>10, <2>1
<1>. QED BY ONLY <1>11, <1>12 DEF base, cap

\* A count in the domain of its variable is an integer between its bounds.
LEMMA CountsAreIntegers ==
    ASSUME NEW v \in DOMAIN Bounds, NEW min \in Int, NEW max \in Int, Bounds[v] = <<min, max>>,
           NEW x, InDomain(v, x)
    PROVE  x \in Int /\ min <= x /\ x <= max
BY DEF InDomain

\* The settings of the Redis client, and the waits made of them.
LEMMA RedisIsRight ==
    ASSUME NEW option, IsEnvironment(environment),
           settings = [of |-> "redis", strictOption |-> option,
                       made |-> ResolveRedisRuntimeConfig(environment)]
    PROVE  SettingsAreWhatWasAsked
<1>. DEFINE r == RedisReadings(environment)
            config == Demanded(r)
            s == ResolveRedisRuntimeConfig(environment)
            c == config.values
<1>1. TableIsSound(environment, r, Refusing)
  BY RedisIsSound
<1>2. {"AURORAFLOW_REDIS_BASE_BACKOFF_MS", "AURORAFLOW_REDIS_MAX_BACKOFF_MS"}
         \subseteq DOMAIN r
  BY DEF RedisReadings
<1>4. s = IF ~config.threw /\ c.AURORAFLOW_REDIS_MAX_BACKOFF_MS < c.AURORAFLOW_REDIS_BASE_BACKOFF_MS
          THEN Thrown({}) ELSE config
  BY DEF ResolveRedisRuntimeConfig
<1>. HIDE DEF r, s, config
<1>3. /\ "AURORAFLOW_REDIS_BASE_BACKOFF_MS" \in Documented
      /\ "AURORAFLOW_REDIS_MAX_BACKOFF_MS" \in Documented
      /\ \A x : InDomain("AURORAFLOW_REDIS_BASE_BACKOFF_MS", x) => x \in Nat \ {0}
      /\ \A x : InDomain("AURORAFLOW_REDIS_MAX_BACKOFF_MS", x) => x \in Int
  <2>1. /\ "AURORAFLOW_REDIS_BASE_BACKOFF_MS" \in DOMAIN Bounds
        /\ Bounds["AURORAFLOW_REDIS_BASE_BACKOFF_MS"] = <<1, 10000>>
        /\ "AURORAFLOW_REDIS_MAX_BACKOFF_MS" \in DOMAIN Bounds
        /\ Bounds["AURORAFLOW_REDIS_MAX_BACKOFF_MS"] = <<1, 120000>>
    BY DomainsOfVariables
  <2>2. \A x : InDomain("AURORAFLOW_REDIS_BASE_BACKOFF_MS", x) => x \in Int /\ 1 <= x
    BY <2>1, CountsAreIntegers
  <2>3. \A x : InDomain("AURORAFLOW_REDIS_MAX_BACKOFF_MS", x) => x \in Int
    BY <2>1, CountsAreIntegers
  <2>. QED BY <2>1, <2>2, <2>3 DEF Documented
<1>5. ~config.threw => /\ c.AURORAFLOW_REDIS_BASE_BACKOFF_MS \in Nat \ {0}
                       /\ c.AURORAFLOW_REDIS_MAX_BACKOFF_MS \in Int
  <2>1. SUFFICES ASSUME ~config.threw
                 PROVE  /\ c.AURORAFLOW_REDIS_BASE_BACKOFF_MS \in Nat \ {0}
                        /\ c.AURORAFLOW_REDIS_MAX_BACKOFF_MS \in Int
    OBVIOUS
  <2>2. /\ c = [v \in DOMAIN r |-> r[v].value]
        /\ \A v \in Documented \cap DOMAIN r : InDomain(v, r[v].value)
    BY <1>1, <2>1, DemandedIsUnderstood DEF config
  <2>3. /\ c.AURORAFLOW_REDIS_BASE_BACKOFF_MS = r["AURORAFLOW_REDIS_BASE_BACKOFF_MS"].value
        /\ c.AURORAFLOW_REDIS_MAX_BACKOFF_MS = r["AURORAFLOW_REDIS_MAX_BACKOFF_MS"].value
    BY ONLY <1>2, <2>2
  <2>4. /\ InDomain("AURORAFLOW_REDIS_BASE_BACKOFF_MS", r["AURORAFLOW_REDIS_BASE_BACKOFF_MS"].value)
        /\ InDomain("AURORAFLOW_REDIS_MAX_BACKOFF_MS", r["AURORAFLOW_REDIS_MAX_BACKOFF_MS"].value)
    BY ONLY <1>2, <1>3, <2>2
  <2>. HIDE DEF c
  <2>. QED BY <1>3, <2>3, <2>4
<1>6. CASE s = Thrown({})
  <2>1. s.threw = TRUE /\ s.diagnostics = {}
    BY <1>6 DEF Thrown
  <2>2. Understood(s)
    BY <2>1 DEF Understood
  <2>. QED BY <2>1, <2>2, PartsOfTheProperty DEF s
<1>7. CASE s # Thrown({})
  <2>1. /\ s = config
        /\ config.threw \/ ~(c.AURORAFLOW_REDIS_MAX_BACKOFF_MS < c.AURORAFLOW_REDIS_BASE_BACKOFF_MS)
    BY <1>4, <1>7
  <2>2. Understood(s)
    BY <1>1, <2>1, DemandedIsUnderstood DEF config
  <2>. HIDE DEF c
  <2>3. ~s.threw => c.AURORAFLOW_REDIS_BASE_BACKOFF_MS <= c.AURORAFLOW_REDIS_MAX_BACKOFF_MS
    BY <1>5, <2>1
  <2>4. Len(ConnectsTo(c)) = 1 <=> c.AURORAFLOW_REDIS_URL # NotSet
    BY DEF ConnectsTo
  <2>5. ~s.threw =>
          /\ BackoffDelay(c, 1)[1] = c.AURORAFLOW_REDIS_BASE_BACKOFF_MS
          /\ \A attempt \in 1 .. 4 :
                /\ BackoffDelay(c, attempt)[1] <= BackoffDelay(c, attempt + 1)[1]
                /\ BackoffDelay(c, attempt)[2] <=
                      c.AURORAFLOW_REDIS_MAX_BACKOFF_MS + c.AURORAFLOW_REDIS_BASE_BACKOFF_MS \div 2
    BY <1>5, <2>1, <2>3, WaitsGrow
  <2>6. c = s.values
    BY <2>1 DEF c
  <2>. QED BY <2>2, <2>4, <2>5, <2>6, PartsOfTheProperty DEF s
<1>. QED BY <1>6, <1>7

\* Diagnostics are of the readings that were not taken: of no text that is understood.
LEMMA DiagnosticsAreOfReadings ==
    ASSUME NEW r, TableIsSound(environment, r, Replacing),
           NEW d \in {<<v, r[v].code, r[v].value>> : v \in {w \in DOMAIN r : r[w].code # "taken"}}
    PROVE  /\ d[1] \in DOMAIN r /\ d[3] = r[d[1]].value
           /\ d[1] \in PlainlySet => Asked(d[1], environment[d[1]]) = {}
<1>1. PICK v \in DOMAIN r : r[v].code # "taken" /\ d = <<v, r[v].code, r[v].value>>
  OBVIOUS
<1>2. d[1] = v /\ d[3] = r[v].value
  BY <1>1
<1>3. ASSUME v \in PlainlySet
      PROVE  Asked(v, environment[v]) = {}
  <2>1. v \in Documented /\ Plainly(environment, v)
    BY <1>3 DEF PlainlySet, Plainly
  <2>. QED BY <1>1, <2>1 DEF TableIsSound, FieldIsSound, Sound
<1>. QED BY <1>1, <1>2, <1>3

\* Strictness, as the variable gives it.
LEMMA StrictnessIsAskedFor ==
    ASSUME NEW text
    PROVE  /\ ReadBoolean(text, FALSE).value = TRUE <=> text \in TrueTokens
           /\ ReadBoolean(text, FALSE).value \in BOOLEAN
<1>1. NotSet \notin TrueTokens /\ "" \notin TrueTokens
  BY DEF NotSet, TrueTokens
<1>2. CASE text \in TrueTokens
  <2>1. ReadBoolean(text, FALSE).value = (text \in TrueTokens)
    BY <1>1, <1>2 DEF ReadBoolean, Taken
  <2>2. (text \in TrueTokens) = TRUE
    BY <1>2
  <2>. QED BY <1>2, <2>1, <2>2
<1>3. CASE text \notin TrueTokens
  <2>1. (text \in TrueTokens) = FALSE
    BY <1>3
  <2>2. \/ ReadBoolean(text, FALSE).value = (text \in TrueTokens)
        \/ ReadBoolean(text, FALSE).value = FALSE
    BY <1>3 DEF ReadBoolean, Taken, Instead
  <2>. QED BY <1>3, <2>1, <2>2
<1>. QED BY <1>2, <1>3

\* The self-healing settings: replaced and announced, or all refused when strict.
LEMMA HealingIsRight ==
    ASSUME NEW option, IsEnvironment(environment),
           settings = [of |-> "healing", strictOption |-> option,
                       made |-> ResolveSelfHealingConfig(environment, option)]
    PROVE  SettingsAreWhatWasAsked
<1>. DEFINE r           == HealingReadings(environment)
            s           == ResolveSelfHealingConfig(environment, option)
            diagnostics == {<<v, r[v].code, r[v].value>> : v \in {w \in DOMAIN r : r[w].code # "taken"}}
            strict      == IF option = NotSet THEN r.AURORAFLOW_CONFIG_STRICT.value
                           ELSE option = "true"
            before      == [v \in DOMAIN r |-> r[v].value]
            after       == [before EXCEPT !.SELF_HEAL_SAT_CAPTURE_DOM =
                                              @ /\ before.SELF_HEAL_SAT_ENABLED]
            sat         == "SELF_HEAL_SAT_ENABLED"
            dom         == "SELF_HEAL_SAT_CAPTURE_DOM"
<1>1. TableIsSound(environment, r, Replacing)
  BY HealingIsSound
<1>2. r.AURORAFLOW_CONFIG_STRICT = ReadBoolean(Env(environment, "AURORAFLOW_CONFIG_STRICT"), FALSE)
  BY DEF HealingReadings
<1>3. sat \in DOMAIN r /\ dom \in DOMAIN r
  BY DEF HealingReadings
<1>4. s = IF diagnostics # {} /\ strict THEN Thrown(diagnostics)
          ELSE [values |-> after, diagnostics |-> diagnostics, threw |-> FALSE]
  BY DEF ResolveSelfHealingConfig
<1>. HIDE DEF r, s
<1>5. strict <=> \/ option = "true"
                 \/ /\ option = NotSet
                    /\ Env(environment, "AURORAFLOW_CONFIG_STRICT") \in TrueTokens
  <2>1. CASE option = NotSet
    <3>1. strict = r.AURORAFLOW_CONFIG_STRICT.value
      BY <2>1
    <3>2. strict = TRUE <=> Env(environment, "AURORAFLOW_CONFIG_STRICT") \in TrueTokens
      BY <1>2, <3>1, StrictnessIsAskedFor
    <3>3. option # "true"
      BY <2>1 DEF NotSet
    <3>4. strict \in BOOLEAN
      <4>. HIDE DEF strict
      <4>. QED BY <1>2, <3>1, StrictnessIsAskedFor
    <3>. QED BY <2>1, <3>2, <3>3, <3>4
  <2>2. CASE option # NotSet
    BY <2>2
  <2>. QED BY <2>1, <2>2
<1>6. \A d \in diagnostics : /\ d[1] \in DOMAIN r /\ d[3] = r[d[1]].value
                             /\ d[1] \in PlainlySet => Asked(d[1], environment[d[1]]) = {}
  BY <1>1, DiagnosticsAreOfReadings
<1>7. \A v \in DOMAIN r : r[v].code # "taken" => \E d \in diagnostics : d[1] = v
  <2>1. SUFFICES ASSUME NEW v \in DOMAIN r, r[v].code # "taken"
                 PROVE  \E d \in diagnostics : d[1] = v
    OBVIOUS
  <2>2. <<v, r[v].code, r[v].value>> \in diagnostics
    BY <2>1
  <2>. HIDE DEF diagnostics
  <2>3. <<v, r[v].code, r[v].value>>[1] = v
    OBVIOUS
  <2>. QED BY ONLY <2>2, <2>3
<1>8. \A v \in Documented \cap DOMAIN r : InDomain(v, r[v].value)
  <2>1. \A v \in Documented \cap DOMAIN r : Sound(environment, v, r[v]) /\ r[v].code # "refused"
    BY <1>1 DEF TableIsSound, FieldIsSound, Replacing
  <2>. QED BY <2>1 DEF Sound
<1>9. /\ sat \in Documented /\ dom \in Documented
      /\ \A x : InDomain(dom, x) <=> x \in BOOLEAN
      /\ \A x : InDomain(sat, x) <=> x \in BOOLEAN
  BY DomainsOfVariables DEF Documented, Switches, InDomain
<1>. HIDE DEF strict, diagnostics
<1>10. CASE diagnostics # {} /\ strict
  <2>1. s.threw = TRUE /\ s.diagnostics = diagnostics
    BY <1>4, <1>10 DEF Thrown
  <2>2. Understood(s)
    BY <1>6, <2>1 DEF Understood
  <2>. QED BY <1>5, <1>10, <2>1, <2>2, PartsOfTheProperty DEF s
<1>11. CASE ~(diagnostics # {} /\ strict)
  <2>1. s.threw = FALSE /\ s.diagnostics = diagnostics /\ s.values = after
    <3>. HIDE DEF after
    <3>. QED BY <1>4, <1>11
  <2>2. DOMAIN after = DOMAIN r /\ sat # dom
    OBVIOUS
  <2>3. \A v \in DOMAIN r : v # dom => after[v] = r[v].value
    OBVIOUS
  <2>4. after[dom] = (r[dom].value /\ r[sat].value)
    BY <1>3
  <2>. HIDE DEF after
  <2>5. r[dom].value \in BOOLEAN /\ r[sat].value \in BOOLEAN
    BY <1>3, <1>8, <1>9
  <2>6. after[sat] = r[sat].value
    BY <1>3, <2>2, <2>3
  <2>7. after[dom] \in BOOLEAN /\ (after[dom] = TRUE => after[sat] = TRUE)
    BY ONLY <2>4, <2>5, <2>6
  <2>8. after[sat] = TRUE => after[dom] = r[dom].value
    BY ONLY <2>4, <2>5, <2>6
  <2>9. ASSUME NEW v \in Documented \cap DOMAIN after
        PROVE  InDomain(v, after[v])
    BY <1>8, <1>9, <2>2, <2>3, <2>7
  <2>10. ASSUME NEW v \in PlainlySet \cap DOMAIN after
         PROVE  IF Asked(v, environment[v]) = {} THEN \E d \in diagnostics : d[1] = v
                ELSE after[v] \in Asked(v, environment[v]) \/ (v = dom /\ after[sat] = FALSE)
    <3>1. v \in Documented /\ Plainly(environment, v) /\ v \in DOMAIN r
      BY <2>2, <2>10 DEF PlainlySet, Plainly
    <3>2. IF Asked(v, environment[v]) = {} THEN r[v].code # "taken"
          ELSE r[v].value \in Asked(v, environment[v])
      BY <1>1, <3>1 DEF TableIsSound, FieldIsSound, Sound
    <3>3. CASE Asked(v, environment[v]) = {}
      BY <1>7, <3>1, <3>2, <3>3
    <3>4. CASE Asked(v, environment[v]) # {} /\ v # dom
      BY <2>3, <3>1, <3>2, <3>4
    <3>5. CASE Asked(v, environment[v]) # {} /\ v = dom
      BY <2>5, <2>6, <2>8, <3>2, <3>5
    <3>. QED BY <3>3, <3>4, <3>5
  <2>11. \A d \in diagnostics : d[3] = after[d[1]] \/ d[1] = dom
    BY <1>6, <2>3
  <2>12. Understood(s)
    BY <1>6, <2>1, <2>9, <2>10, <2>11 DEF Understood
  <2>13. ~s.threw => (s.values.SELF_HEAL_SAT_CAPTURE_DOM => s.values.SELF_HEAL_SAT_ENABLED)
    BY <2>1, <2>7
  <2>14. ~(s.threw) /\ (s.threw <=> s.diagnostics # {} /\ strict)
    BY <1>11, <2>1
  <2>. QED BY <1>5, <2>1, <2>12, <2>13, <2>14, PartsOfTheProperty DEF s
<1>. QED BY <1>10, <1>11

\* The privacy preset.
LEMMA PrivacyIsRight ==
    ASSUME NEW option, IsEnvironment(environment),
           settings = [of |-> "privacy", strictOption |-> option,
                       made |-> ResolveArtifactPrivacyPolicy(environment)]
    PROVE  SettingsAreWhatWasAsked
<1>. DEFINE v      == "AURORAFLOW_ARTIFACT_PRIVACY_PRESET"
            preset == ReadEnum(OrElse(Optional(Env(environment, v)), ""),
                               {"compatible", "sensitive"}, "compatible")
            s      == ResolveArtifactPrivacyPolicy(environment)
            values == [AURORAFLOW_ARTIFACT_PRIVACY_PRESET |-> preset.value]
<1>1. v \in DOMAIN OneOf /\ v \notin DOMAIN Bounds /\ OneOf[v] = {"compatible", "sensitive"}
  BY DomainsOfVariables
<1>2. IsEnum(environment, v, "compatible", preset, Replacing)
  BY <1>1 DEF IsEnum
<1>3. s = [values |-> values,
           diagnostics |-> IF preset.code = "taken" THEN {} ELSE {<<v, preset.code, preset.value>>},
           threw |-> FALSE]
  BY DEF ResolveArtifactPrivacyPolicy
<1>. HIDE DEF preset, s
<1>4. Sound(environment, v, preset) /\ preset.code \in Replacing
  BY <1>2, ReadingsAreSound
<1>5. DOMAIN values = {v} /\ values[v] = preset.value
  OBVIOUS
<1>. HIDE DEF values
<1>6. s.threw = FALSE /\ s.values = values
      /\ s.diagnostics = IF preset.code = "taken" THEN {} ELSE {<<v, preset.code, preset.value>>}
  BY <1>3
<1>7. InDomain(v, preset.value)
  BY <1>4 DEF Sound, Replacing
<1>8. v \in PlainlySet => IF Asked(v, environment[v]) = {} THEN preset.code # "taken"
                          ELSE preset.code = "taken" /\ preset.value \in Asked(v, environment[v])
  BY <1>4 DEF Sound, PlainlySet, Plainly
<1>9. \A d \in s.diagnostics : d[1] = v /\ d[3] = preset.value /\ preset.code # "taken"
  <2>1. SUFFICES ASSUME NEW d \in s.diagnostics
                 PROVE  d[1] = v /\ d[3] = preset.value /\ preset.code # "taken"
    OBVIOUS
  <2>2. preset.code # "taken" /\ d = <<v, preset.code, preset.value>>
    <3>1. preset.code = "taken" => s.diagnostics = {}
      BY ONLY <1>6
    <3>2. preset.code # "taken" => s.diagnostics = {<<v, preset.code, preset.value>>}
      BY ONLY <1>6
    <3>. QED BY ONLY <2>1, <3>1, <3>2
  <2>. QED BY ONLY <2>2
<1>10. preset.code # "taken" => \E d \in s.diagnostics : d[1] = v
  <2>1. SUFFICES ASSUME preset.code # "taken"
                 PROVE  \E d \in s.diagnostics : d[1] = v
    OBVIOUS
  <2>2. <<v, preset.code, preset.value>> \in s.diagnostics
    BY <1>6, <2>1
  <2>3. <<v, preset.code, preset.value>>[1] = v
    OBVIOUS
  <2>. QED BY ONLY <2>2, <2>3
<1>. HIDE DEF v
<1>11. Understood(s)
  BY <1>5, <1>6, <1>7, <1>8, <1>9, <1>10 DEF Understood
<1>. QED BY <1>11, PartsOfTheProperty DEF s

-----------------------------------------------------------------------------
(* The resolvers as a specification: an environment, then what is made of it. *)

SettingsSpec == SettingsInit /\ [][SettingsNext]_settingVars

\* Nothing is resolved yet, or what is there was made by one resolver of this environment.
SettingsInv ==
    \/ settings.of = "none"
    \/ /\ IsEnvironment(environment)
       /\ \E option \in {NotSet, "true", "false"} :
             \/ settings = [of |-> "healing", strictOption |-> option,
                            made |-> ResolveSelfHealingConfig(environment, option)]
             \/ settings = [of |-> "privacy", strictOption |-> option,
                            made |-> ResolveArtifactPrivacyPolicy(environment)]
             \/ settings = [of |-> "telemetry", strictOption |-> option,
                            made |-> Demanded(TelemetryReadings(environment))]
             \/ settings = [of |-> "redis", strictOption |-> option,
                            made |-> ResolveRedisRuntimeConfig(environment)]
             \/ settings = [of |-> "logger", strictOption |-> option,
                            made |-> Demanded(LoggerReadings(environment))]

(***************************************************************************)
(* Whatever the variables are set to, a value that is understood is the    *)
(* one in effect and one that is not is announced, in every resolver       *)
(* (SettingsAreWhatWasAsked).                                              *)
(***************************************************************************)
THEOREM SettingsAreAlwaysWhatWasAsked == SettingsSpec => []SettingsAreWhatWasAsked
<1>1. SettingsInit => SettingsInv
  BY DEF SettingsInit, SettingsInv, Unresolved
<1>2. SettingsInv /\ [SettingsNext]_settingVars => SettingsInv'
  <2>. SUFFICES ASSUME SettingsInv, [SettingsNext]_settingVars
                PROVE  SettingsInv'
    OBVIOUS
  <2>1. CASE UNCHANGED settingVars
    <3>1. environment' = environment /\ settings' = settings
      BY <2>1 DEF settingVars
    <3>. QED BY <3>1 DEF SettingsInv, IsEnvironment
  <2>2. CASE SettingsNext
    <3>1. ASSUME NEW groups, NEW variables \in groups, environment' \in [variables -> RawTexts]
          PROVE  IsEnvironment(environment')
      BY <3>1 DEF IsEnvironment
    <3>2. CASE ResolveHealing
      BY <3>1, <3>2 DEF ResolveHealing, Resolve, SettingsInv
    <3>3. CASE ResolvePrivacy
      BY <3>1, <3>3 DEF ResolvePrivacy, Resolve, SettingsInv
    <3>4. CASE ResolveTelemetry
      BY <3>1, <3>4 DEF ResolveTelemetry, Resolve, SettingsInv
    <3>5. CASE ResolveRedis
      BY <3>1, <3>5 DEF ResolveRedis, Resolve, SettingsInv
    <3>6. CASE ResolveLogger
      BY <3>1, <3>6 DEF ResolveLogger, Resolve, SettingsInv
    <3>. QED BY <2>2, <3>2, <3>3, <3>4, <3>5, <3>6 DEF SettingsNext
  <2>. QED BY <2>1, <2>2
<1>3. SettingsInv => SettingsAreWhatWasAsked
  <2>1. CASE settings.of = "none"
    BY <2>1 DEF SettingsAreWhatWasAsked
  <2>2. CASE settings.of # "none"
    BY <2>2, HealingIsRight, PrivacyIsRight, TelemetryIsRight, RedisIsRight, LoggerIsRight
       DEF SettingsInv
  <2>. QED BY <2>1, <2>2
<1>. QED BY <1>1, <1>2, <1>3, PTL DEF SettingsSpec

-----------------------------------------------------------------------------
(* The history of a candidate.                                             *)

\* The confidence in a candidate with p marks for it and n against it.
Confidence(p, n) == ((p + 1) * Million) \div (p + n + 2)

\* A larger fraction has a larger quotient.
LEMMA QuotientsGrow ==
    ASSUME NEW a \in Int, NEW b \in Nat \ {0}, NEW c \in Int, NEW d \in Nat \ {0}, a * d <= c * b
    PROVE  a \div b <= c \div d
<1>. DEFINE q == a \div b
            r == c \div d
<1>1. q \in Int /\ q * b <= a
  OBVIOUS
<1>2. r \in Int /\ c < (r + 1) * d
  OBVIOUS
<1>. HIDE DEF q, r
<1>3. ASSUME r + 1 <= q PROVE FALSE
  <2>1. (r + 1) * d <= q * d
    BY <1>1, <1>2, <1>3
  <2>2. q * d * b <= a * d
    BY <1>1
  <2>3. c * b < (r + 1) * d * b
    BY <1>2
  <2>4. (r + 1) * d * b <= q * d * b
    BY <1>1, <1>2, <2>1
  <2>. QED BY <1>1, <1>2, <2>2, <2>3, <2>4
<1>. QED BY <1>1, <1>2, <1>3 DEF q, r

\* Marks for a candidate never lower the confidence, marks against it never raise it.
LEMMA ConfidenceGrows ==
    ASSUME NEW p \in Nat, NEW n \in Nat
    PROVE  /\ Confidence(p, n) \in Nat /\ Confidence(p, n) <= Million
           /\ Confidence(p, n) <= Confidence(p + 2, n)
           /\ Confidence(p, n + 2) <= Confidence(p, n)
<1>1. Million = 1000000
  BY DEF Million
<1>2. Confidence(p, n) \in Nat /\ Confidence(p, n) <= Million
  <2>1. (p + 1) * Million <= Million * (p + n + 2)
    BY <1>1
  <2>2. ((p + 1) * Million) \div (p + n + 2) \in Nat
    BY <1>1
  <2>3. ((p + 1) * Million) * 1 <= Million * (p + n + 2)
    BY <2>1, <1>1
  <2>4. (p + 1) * Million \in Int /\ p + n + 2 \in Nat \ {0} /\ Million \in Int /\ 1 \in Nat \ {0} /\ Million \div 1 = Million
    BY <1>1
  <2>. QED BY <2>2, <2>3, <2>4, QuotientsGrow DEF Confidence
<1>3. ((p + 1) * Million) * ((p + 2) + n + 2) <= (((p + 2) + 1) * Million) * (p + n + 2)
  BY <1>1
<1>4. ((p + 1) * Million) * (p + n + 2) <= ((p + 1) * Million) * (p + (n + 2) + 2)
  BY <1>1
<1>5. /\ (p + 1) * Million \in Int /\ ((p + 2) + 1) * Million \in Int
      /\ p + n + 2 \in Nat \ {0} /\ (p + 2) + n + 2 \in Nat \ {0} /\ p + (n + 2) + 2 \in Nat \ {0}
  BY <1>1
<1>6. Confidence(p, n) <= Confidence(p + 2, n)
  BY <1>3, <1>5, QuotientsGrow DEF Confidence
<1>7. Confidence(p, n + 2) <= Confidence(p, n)
  BY <1>4, <1>5, QuotientsGrow DEF Confidence
<1>. QED BY <1>2, <1>6, <1>7

\* A quotient, as what it is multiplied by.
LEMMA Quotient ==
    ASSUME NEW a \in Int, NEW b \in Nat \ {0}
    PROVE  a \div b \in Int /\ (a \div b) * b <= a /\ a < (a \div b) * b + b
OBVIOUS

\* Two marks more on one side outweigh that all marks count for more: a is how far the
\* confidence was from even odds, b how far it is now, of c marks with a margin of d.
LEMMA MarksOutweigh ==
    ASSUME NEW H \in Nat, H >= 30, NEW c \in Nat, c <= 9, NEW d \in Int, d <= c,
           NEW w \in Nat, c <= w, NEW u \in Nat, u <= w + 2, NEW a \in Int, NEW b \in Nat,
           a * (c + 2) >= H * d - (c + 2), b * (c + 4) <= H * (d - 2) + c + 4
    PROVE  u * b <= w * a
<1>. DEFINE k == (c + 2) * (c + 4)
            now == H * (d - 2) + c + 4
            was == H * d - (c + 2)
            gain == w * d * (c + 4) - (w + 2) * (c + 2) * (d - 2)
<1>1. (u * b) * k <= ((w + 2) * (c + 2)) * now
  <2>1. 0 <= b * (c + 4) /\ b * (c + 4) \in Int /\ now \in Int
    OBVIOUS
  <2>2. u * (c + 2) <= (w + 2) * (c + 2) /\ u * (c + 2) \in Nat /\ (w + 2) * (c + 2) \in Nat
    OBVIOUS
  <2>3. (u * b) * k = (u * (c + 2)) * (b * (c + 4))
    OBVIOUS
  <2>. HIDE DEF now, k
  <2>4. (u * (c + 2)) * (b * (c + 4)) <= ((w + 2) * (c + 2)) * (b * (c + 4))
    BY <2>1, <2>2
  <2>5. ((w + 2) * (c + 2)) * (b * (c + 4)) <= ((w + 2) * (c + 2)) * now
    <3>1. b * (c + 4) <= now
      BY DEF now
    <3>. QED BY <2>1, <2>2, <3>1
  <2>6. /\ (u * (c + 2)) * (b * (c + 4)) \in Int
        /\ ((w + 2) * (c + 2)) * (b * (c + 4)) \in Int
        /\ ((w + 2) * (c + 2)) * now \in Int
    BY <2>1, <2>2
  <2>. QED BY ONLY <2>3, <2>4, <2>5, <2>6
<1>2. (w * (c + 4)) * was <= (w * a) * k
  <2>1. was <= a * (c + 2) /\ was \in Int /\ w * (c + 4) \in Nat
    OBVIOUS
  <2>2. (w * a) * k = (w * (c + 4)) * (a * (c + 2))
    OBVIOUS
  <2>. HIDE DEF was, k
  <2>. QED BY <2>1, <2>2
<1>3. gain >= (w + 2) * (c + 2)
  <2>1. gain = 2 * d * (w - c) - 4 * d + 2 * (w + 2) * (c + 2)
    OBVIOUS
  <2>2. 2 * d * (w - c) - 4 * d + (w + 2) * (c + 2) >= 0
    OBVIOUS
  <2>. QED BY <2>1, <2>2
<1>4. (w * (c + 4)) * was - ((w + 2) * (c + 2)) * now = H * gain - (2 * w + 2) * k
  OBVIOUS
<1>5. H * gain >= (2 * w + 2) * k
  <2>1. H * gain >= H * ((w + 2) * (c + 2))
    <3>. DEFINE g == gain
    <3>1. g \in Int /\ g >= (w + 2) * (c + 2)
      BY <1>3
    <3>. HIDE DEF g
    <3>. QED BY <3>1 DEF g
  <2>2. H * ((w + 2) * (c + 2)) >= 26 * ((w + 2) * (c + 2))
    OBVIOUS
  <2>3. 26 * ((w + 2) * (c + 2)) >= (2 * (c + 4)) * ((w + 2) * (c + 2))
    OBVIOUS
  <2>4. (2 * (c + 4)) * ((w + 2) * (c + 2)) >= (2 * w + 2) * k
    OBVIOUS
  <2>. QED BY <2>1, <2>2, <2>3, <2>4
<1>6. (u * b) * k <= (w * a) * k
  BY <1>1, <1>2, <1>4, <1>5
<1>7. k \in Nat /\ k > 0 /\ u * b \in Int /\ w * a \in Int
  OBVIOUS
<1>. HIDE DEF k
<1>. QED BY ONLY <1>6, <1>7

\* The signal of p marks for and n against, at a weight in tenths.
Weighed(w, p, n) == (10 - w) * (Million \div 2) + w * Confidence(p, n)

\* Two marks more, for or against, at no less weight.
LEMMA MarksCountTheRightWay ==
    ASSUME NEW p \in Nat, NEW n \in Nat, NEW w \in 0 .. 10, NEW u \in w .. w + 2, u <= 10,
           p + n <= w \/ w = 10
    PROVE  /\ Weighed(w, p, n) <= Weighed(u, p + 2, n)
           /\ Weighed(u, p, n + 2) <= Weighed(w, p, n)
<1>. DEFINE H == Million \div 2
            c == p + n
            x == Confidence(p, n)
            y == Confidence(p + 2, n)
            z == Confidence(p, n + 2)
<1>1. H \in Nat /\ H >= 30 /\ 2 * H = Million
  BY DEF Million
<1>2. x \in Nat /\ y \in Nat /\ z \in Nat /\ x <= y /\ z <= x
  BY ConfidenceGrows
<1>3. /\ x * (c + 2) <= (p + 1) * (2 * H) /\ (p + 1) * (2 * H) < x * (c + 2) + c + 2
      /\ (p + 3) * (2 * H) < y * (c + 4) + c + 4
      /\ z * (c + 4) <= (p + 1) * (2 * H)
  <2>. HIDE DEF H
  <2>1. /\ (p + 1) * (2 * H) \in Int /\ (p + 3) * (2 * H) \in Int
        /\ c + 2 \in Nat \ {0} /\ c + 4 \in Nat \ {0} /\ c \in Int
    BY <1>1
  <2>2. x = ((p + 1) * (2 * H)) \div (c + 2)
    <3>1. p + n + 2 = c + 2
      OBVIOUS
    <3>. QED BY <1>1, <3>1 DEF Confidence
  <2>3. y = ((p + 3) * (2 * H)) \div (c + 4)
    <3>1. (p + 2) + n + 2 = c + 4 /\ (p + 2) + 1 = p + 3
      OBVIOUS
    <3>. QED BY <1>1, <3>1 DEF Confidence
  <2>4. z = ((p + 1) * (2 * H)) \div (c + 4)
    <3>1. p + (n + 2) + 2 = c + 4
      OBVIOUS
    <3>. QED BY <1>1, <3>1 DEF Confidence
  <2>. DEFINE one == (p + 1) * (2 * H)
              three == (p + 3) * (2 * H)
              less == c + 2
              more == c + 4
  <2>5. /\ x = one \div less /\ y = three \div more /\ z = one \div more
        /\ one \in Int /\ three \in Int /\ less \in Nat \ {0} /\ more \in Nat \ {0}
    BY <2>1, <2>2, <2>3, <2>4
  <2>. HIDE DEF x, y, z, one, three, less, more
  <2>6. /\ x * less <= one /\ one < x * less + less
        /\ three < y * more + more
        /\ z * more <= one
    BY ONLY <2>5, Quotient
  <2>. QED BY ONLY <2>1, <2>6, <1>2 DEF one, three, less, more
<1>. HIDE DEF H, x, y, z
<1>4. w * x - w * H <= u * y - u * H
  <2>1. CASE y >= H
    <3>1. w * (x - H) <= w * (y - H)
      BY <1>1, <1>2
    <3>2. w * (y - H) <= u * (y - H)
      BY <1>1, <1>2, <2>1
    <3>. QED BY <1>1, <1>2, <3>1, <3>2
  <2>2. CASE y < H /\ w = 10
    <3>1. u = 10
      BY <2>2
    <3>. QED BY <1>1, <1>2, <2>2, <3>1
  <2>3. CASE y < H /\ w # 10
    <3>. DEFINE d == n - p
                a == H - x
                b == H - y
    <3>1. a * (c + 2) >= H * d - (c + 2)
      BY <1>1, <1>2, <1>3
    <3>2. b * (c + 4) <= H * (d - 2) + c + 4
      BY <1>1, <1>2, <1>3
    <3>3. /\ c \in Nat /\ c <= 9 /\ c <= w /\ d \in Int /\ d <= c /\ w \in Nat /\ u \in Nat
          /\ u <= w + 2 /\ a \in Int /\ b \in Nat
      BY <1>1, <1>2, <2>3
    <3>. HIDE DEF a, b, c, d
    <3>4. u * b <= w * a
      BY <1>1, <3>1, <3>2, <3>3, MarksOutweigh
    <3>. QED BY <1>1, <1>2, <3>3, <3>4 DEF a, b
  <2>. QED BY <1>1, <1>2, <2>1, <2>2, <2>3
<1>5. u * z - u * H <= w * x - w * H
  <2>1. CASE z <= H
    <3>1. w * (z - H) <= w * (x - H)
      BY <1>1, <1>2
    <3>2. u * (z - H) <= w * (z - H)
      BY <1>1, <1>2, <2>1
    <3>. QED BY <1>1, <1>2, <3>1, <3>2
  <2>2. CASE z > H /\ w = 10
    <3>1. u = 10
      BY <2>2
    <3>. QED BY <1>1, <1>2, <2>2, <3>1
  <2>3. CASE z > H /\ w # 10
    <3>. DEFINE d == p - n
                a == x - H
                b == z - H
    <3>1. a * (c + 2) >= H * d - (c + 2)
      BY <1>1, <1>2, <1>3
    <3>2. b * (c + 4) <= H * (d - 2) + c + 4
      BY <1>1, <1>2, <1>3
    <3>3. /\ c \in Nat /\ c <= 9 /\ c <= w /\ d \in Int /\ d <= c /\ w \in Nat /\ u \in Nat
          /\ u <= w + 2 /\ a \in Int /\ b \in Nat
      BY <1>1, <1>2, <2>3
    <3>. HIDE DEF a, b, c, d
    <3>4. u * b <= w * a
      BY <1>1, <3>1, <3>2, <3>3, MarksOutweigh
    <3>. QED BY <1>1, <1>2, <3>3, <3>4 DEF a, b
  <2>. QED BY <1>1, <1>2, <2>1, <2>2, <2>3
<1>6. /\ Weighed(w, p, n) = (10 - w) * H + w * x
      /\ Weighed(u, p + 2, n) = (10 - u) * H + u * y
      /\ Weighed(u, p, n + 2) = (10 - u) * H + u * z
  BY DEF Weighed, H, x, y, z
<1>. QED BY <1>1, <1>2, <1>4, <1>5, <1>6

-----------------------------------------------------------------------------

\* The marks for and against a candidate, and the weight of what is known of it.
MarksFor(h)     == h.validated + h.guardedApplySucceeded + h.promoted * 2
MarksAgainst(h) == h.guardedApplyFailed + h.rejected * 2
Known(h)        == LargerOf(h.attempts, MarksFor(h) + MarksAgainst(h))
Tenths(h)       == IF Known(h) > 10 THEN 10 ELSE Known(h)

\* The even odds of an unknown candidate are the weighed signal of no marks at all.
LEMMA SignalIsWeighed ==
    ASSUME NEW h \in CandidateHistory
    PROVE  HistorySignal(h) = Clamp(Weighed(Tenths(h), MarksFor(h), MarksAgainst(h)) \div 10)
<1>. DEFINE p == MarksFor(h)
            n == MarksAgainst(h)
            w == Tenths(h)
            H == Million \div 2
<1>1. HistorySignal(h) = IF h.attempts = 0 /\ p + n = 0 THEN H ELSE Clamp(Weighed(w, p, n) \div 10)
  BY Zenon DEF HistorySignal, Weighed, Confidence, Tenths, Known, MarksFor, MarksAgainst
<1>2. CASE h.attempts = 0 /\ p + n = 0
  <2>1. w = 0
    BY <1>2 DEF LargerOf, Tenths, Known
  <2>2. p \in Nat /\ n \in Nat
    BY DEF CandidateHistory, MarksFor, MarksAgainst
  <2>. HIDE DEF p, n, w
  <2>3. Weighed(w, p, n) = 10 * H
    <3>1. Confidence(p, n) \in Nat
      BY <2>2, ConfidenceGrows
    <3>. QED BY <2>1, <3>1 DEF Weighed, Million
  <2>4. (10 * H) \div 10 = H /\ Clamp(H) = H
    BY DEF Clamp, Million
  <2>. QED BY <1>1, <1>2, <2>3, <2>4 DEF w, p, n
<1>3. CASE ~(h.attempts = 0 /\ p + n = 0)
  BY <1>1, <1>3
<1>. QED BY <1>2, <1>3

\* A larger weighed signal is a larger signal.
LEMMA SignalsGrow ==
    ASSUME NEW a \in Int, NEW b \in Int, a <= b
    PROVE  Clamp(a \div 10) <= Clamp(b \div 10)
BY DEF Clamp, Million

\* Two marks more, and one attempt more or none.
LEMMA TwoMarksMore ==
    ASSUME NEW h \in CandidateHistory, NEW g \in CandidateHistory, NEW up \in {0, 2}, NEW down \in {0, 2}, up + down = 2,
           MarksFor(g) = MarksFor(h) + up, MarksAgainst(g) = MarksAgainst(h) + down,
           g.attempts \in h.attempts .. h.attempts + 1
    PROVE  /\ up = 2 => HistorySignal(g) >= HistorySignal(h)
           /\ down = 2 => HistorySignal(g) <= HistorySignal(h)
<1>. DEFINE p == MarksFor(h)
            n == MarksAgainst(h)
            w == Tenths(h)
            u == Tenths(g)
<1>1. p \in Nat /\ n \in Nat
  BY DEF CandidateHistory, MarksFor, MarksAgainst
<1>2. h.attempts \in Nat /\ g.attempts \in Nat
  BY DEF CandidateHistory
<1>3. /\ w \in 0 .. 10 /\ u \in w .. w + 2 /\ u <= 10 /\ (p + n <= w \/ w = 10)
  <2>1. Known(h) = LargerOf(h.attempts, p + n) /\ Known(g) = LargerOf(g.attempts, p + n + 2)
    BY <1>1 DEF Known
  <2>. HIDE DEF p, n
  <2>2. Known(h) \in Nat /\ Known(g) \in Known(h) .. Known(h) + 2 /\ p + n <= Known(h)
    BY <1>1, <1>2, <2>1 DEF LargerOf
  <2>. QED BY <1>1, <2>2 DEF Tenths
<1>. HIDE DEF p, n, w, u
<1>4. /\ Weighed(w, p, n) <= Weighed(u, p + 2, n)
      /\ Weighed(u, p, n + 2) <= Weighed(w, p, n)
  BY <1>1, <1>3, MarksCountTheRightWay
<1>5. \A v \in 0 .. 10, i \in Nat, j \in Nat : Weighed(v, i, j) \in Int
  BY ConfidenceGrows DEF Weighed, Million
<1>6. /\ Weighed(w, p, n) \in Int /\ Weighed(u, p + 2, n) \in Int /\ Weighed(u, p, n + 2) \in Int
  <2>1. u \in 0 .. 10 /\ p + 2 \in Nat /\ n + 2 \in Nat
    BY <1>1, <1>3
  <2>. QED BY ONLY <1>1, <1>3, <1>5, <2>1
<1>7. HistorySignal(h) = Clamp(Weighed(w, p, n) \div 10)
  BY SignalIsWeighed DEF w, p, n
<1>8. CASE up = 2
  <2>1. HistorySignal(g) = Clamp(Weighed(u, p + 2, n) \div 10) /\ down = 0
    BY <1>1, <1>8, SignalIsWeighed DEF u, p, n
  <2>. QED BY <1>4, <1>6, <1>7, <1>8, <2>1, SignalsGrow
<1>9. CASE down = 2
  <2>1. HistorySignal(g) = Clamp(Weighed(u, p, n + 2) \div 10) /\ up = 0
    BY <1>1, <1>9, SignalIsWeighed DEF u, p, n
  <2>. QED BY <1>4, <1>6, <1>7, <1>9, <2>1, SignalsGrow
<1>. QED BY <1>8, <1>9

\* What is recorded of one candidate, in behaviours that record and analyse in any order.
HistoryType == history \in CandidateHistory

\* The candidates as a specification: records and analyses in any order.
RankingSpec == RankingInit /\ [][HistoryNext \/ Analyze]_rankingVars

(***************************************************************************)
(* What is recorded counts the way it should (historySignal), after any    *)
(* number of observations and reviews: a promotion or a successful         *)
(* application never lowers the signal, a rejection never raises it.       *)
(***************************************************************************)
THEOREM HistoryAlwaysCountsTheRightWay == RankingSpec => HistoryCountsTheRightWay
<1>. DEFINE Right ==
        LET before == HistorySignal(history)
            after  == HistorySignal(history')
        IN  /\ history'.rejected > history.rejected => after <= before
            /\ \/ history'.promoted > history.promoted
               \/ history'.guardedApplySucceeded > history.guardedApplySucceeded
               => after >= before
<1>1. RankingInit => HistoryType
  BY DEF RankingInit, HistoryType, NoHistory, CandidateHistory
<1>2. HistoryType /\ [HistoryNext \/ Analyze]_rankingVars => HistoryType' /\ [Right]_rankingVars
  <2>. SUFFICES ASSUME HistoryType, [HistoryNext \/ Analyze]_rankingVars
                PROVE  HistoryType' /\ [Right]_rankingVars
    OBVIOUS
  <2>1. CASE history' = history
    <3>1. HistoryType' /\ history'.rejected = history.rejected /\ history'.promoted = history.promoted
          /\ history'.guardedApplySucceeded = history.guardedApplySucceeded
      BY <2>1 DEF HistoryType, CandidateHistory
    <3>2. /\ history.rejected \in Nat /\ history.promoted \in Nat
          /\ history.guardedApplySucceeded \in Nat
      BY DEF HistoryType, CandidateHistory
    <3>. QED BY <3>1, <3>2
  <2>2. ASSUME NEW accepted \in BOOLEAN, NEW applied \in {"no", "succeeded", "failed"},
               RecordObservation(accepted, applied)
        PROVE  HistoryType' /\ Right
    <3>1. history' = [history EXCEPT !.attempts = @ + 1,
                          !.validated = @ + (IF accepted THEN 1 ELSE 0),
                          !.guardedApplySucceeded = @ + (IF applied = "succeeded" THEN 1 ELSE 0),
                          !.guardedApplyFailed = @ + (IF applied = "failed" THEN 1 ELSE 0)]
          /\ (applied = "succeeded" => accepted)
      BY <2>2 DEF RecordObservation
    <3>2. history' \in CandidateHistory
      <4>. DEFINE i == IF accepted THEN 1 ELSE 0
                  j == IF applied = "succeeded" THEN 1 ELSE 0
                  k == IF applied = "failed" THEN 1 ELSE 0
      <4>1. i \in Nat /\ j \in Nat /\ k \in Nat
        OBVIOUS
      <4>2. history' = [history EXCEPT !.attempts = @ + 1, !.validated = @ + i,
                            !.guardedApplySucceeded = @ + j, !.guardedApplyFailed = @ + k]
        BY <3>1
      <4>. HIDE DEF i, j, k
      <4>3. history \in [attempts : Nat, validated : Nat, guardedApplySucceeded : Nat,
                         guardedApplyFailed : Nat, promoted : Nat, rejected : Nat, rolledBack : Nat]
        BY DEF HistoryType, CandidateHistory
      <4>4. /\ history.attempts + 1 \in Nat /\ history.validated + i \in Nat
            /\ history.guardedApplySucceeded + j \in Nat /\ history.guardedApplyFailed + k \in Nat
        BY <4>1, <4>3
      <4>5. history' = [attempts |-> history.attempts + 1, validated |-> history.validated + i,
                        guardedApplySucceeded |-> history.guardedApplySucceeded + j,
                        guardedApplyFailed |-> history.guardedApplyFailed + k,
                        promoted |-> history.promoted, rejected |-> history.rejected,
                        rolledBack |-> history.rolledBack]
        BY ONLY <4>2, <4>3
      <4>. QED BY ONLY <4>3, <4>4, <4>5 DEF CandidateHistory
    <3>3. /\ history'.rejected = history.rejected /\ history'.promoted = history.promoted
          /\ history'.attempts = history.attempts + 1
          /\ history.rejected \in Nat /\ history.promoted \in Nat /\ history.attempts \in Nat
          /\ history.guardedApplySucceeded \in Nat
      BY <3>1 DEF HistoryType, CandidateHistory
    <3>4. CASE applied # "succeeded"
      <4>1. history'.guardedApplySucceeded = history.guardedApplySucceeded
        BY <3>1, <3>4 DEF HistoryType, CandidateHistory
      <4>. QED BY <3>2, <3>3, <4>1 DEF HistoryType
    <3>5. CASE applied = "succeeded"
      <4>1. /\ MarksFor(history') = MarksFor(history) + 2
            /\ MarksAgainst(history') = MarksAgainst(history) + 0
        BY <3>1, <3>5 DEF HistoryType, CandidateHistory, MarksFor, MarksAgainst
      <4>2. HistorySignal(history') >= HistorySignal(history)
        BY <3>2, <3>3, <4>1, TwoMarksMore DEF HistoryType
      <4>. QED BY <3>2, <3>3, <4>2 DEF HistoryType
    <3>. QED BY <3>4, <3>5
  <2>3. ASSUME NEW outcome \in {"promoted", "rejected", "rolledBack"}, RecordOutcome(outcome)
        PROVE  HistoryType' /\ Right
    <3>1. history' = [history EXCEPT ![outcome] = @ + 1]
      BY <2>3 DEF RecordOutcome
    <3>2. history' \in CandidateHistory
      BY <3>1 DEF HistoryType, CandidateHistory
    <3>3. /\ history'.attempts = history.attempts
          /\ history'.guardedApplySucceeded = history.guardedApplySucceeded
          /\ history.rejected \in Nat /\ history.promoted \in Nat /\ history.attempts \in Nat
          /\ history.guardedApplySucceeded \in Nat
      BY <3>1 DEF HistoryType, CandidateHistory
    <3>4. CASE outcome = "promoted"
      <4>1. /\ MarksFor(history') = MarksFor(history) + 2
            /\ MarksAgainst(history') = MarksAgainst(history) + 0
            /\ history'.rejected = history.rejected
        BY <3>1, <3>4 DEF HistoryType, CandidateHistory, MarksFor, MarksAgainst
      <4>2. HistorySignal(history') >= HistorySignal(history)
        BY <3>2, <3>3, <4>1, TwoMarksMore DEF HistoryType
      <4>. QED BY <3>2, <3>3, <4>1, <4>2 DEF HistoryType
    <3>5. CASE outcome = "rejected"
      <4>1. /\ MarksFor(history') = MarksFor(history) + 0
            /\ MarksAgainst(history') = MarksAgainst(history) + 2
            /\ history'.promoted = history.promoted
        BY <3>1, <3>5 DEF HistoryType, CandidateHistory, MarksFor, MarksAgainst
      <4>2. HistorySignal(history') <= HistorySignal(history)
        BY <3>2, <3>3, <4>1, TwoMarksMore DEF HistoryType
      <4>. QED BY <3>2, <3>3, <4>1, <4>2 DEF HistoryType
    <3>6. CASE outcome = "rolledBack"
      <4>1. history'.promoted = history.promoted /\ history'.rejected = history.rejected
        BY <3>1, <3>6 DEF HistoryType, CandidateHistory
      <4>. QED BY <3>2, <3>3, <4>1 DEF HistoryType
    <3>. QED BY <3>4, <3>5, <3>6
  <2>4. CASE UNCHANGED rankingVars \/ Analyze
    BY <2>1, <2>4 DEF rankingVars, Analyze
  <2>. QED BY <2>2, <2>3, <2>4 DEF HistoryNext
<1>. QED BY <1>1, <1>2, PTL DEF RankingSpec, HistoryCountsTheRightWay

-----------------------------------------------------------------------------
(* The ranking: the order of the candidates.                               *)

\* The position of what occurs in a sequence.
LEMMA PositionIsOne ==
    ASSUME NEW n \in Nat, NEW seq, DOMAIN seq = 1 .. n, NEW x \in Range(seq)
    PROVE  Position(seq, x) \in 1 .. n /\ seq[Position(seq, x)] = x
<1>1. \E i \in DOMAIN seq : seq[i] = x
  BY DEF Range
<1>. QED BY <1>1 DEF Position

\* Two digits are told from the number they make.
LEMMA DigitsAreTold ==
    ASSUME NEW base \in Nat, NEW a \in Nat, NEW b \in 0 .. base - 1, NEW c \in Nat, NEW d \in 0 .. base - 1,
           a * base + b = c * base + d
    PROVE  a = c /\ b = d
<1>1. ASSUME NEW i \in Nat, NEW j \in Nat, i < j PROVE i * base + base <= j * base
  <2>1. j - i \in Nat /\ (j - i) - 1 \in Nat
    BY <1>1
  <2>2. ((j - i) - 1) * base \in Nat
    BY <2>1
  <2>3. j * base = i * base + base + ((j - i) - 1) * base
    BY <2>1
  <2>. QED BY <2>2, <2>3
<1>2. ~(a < c)
  BY <1>1
<1>3. ~(c < a)
  BY <1>1
<1>4. a = c
  BY <1>2, <1>3
<1>. QED BY <1>4

\* The number three digits make.
Number(base, a, b, c) == (a * base + b) * base + c

\* Three digits are told from the number they make.
LEMMA ThreeDigitsAreTold ==
    ASSUME NEW base \in Nat, NEW a \in Nat, NEW b \in 0 .. base - 1, NEW c \in 0 .. base - 1,
           NEW d \in Nat, NEW e \in 0 .. base - 1, NEW f \in 0 .. base - 1
    PROVE  /\ Number(base, a, b, c) \in Int
           /\ Number(base, a, b, c) = Number(base, d, e, f) => a = d /\ b = e /\ c = f
<1>. DEFINE high == a * base + b
            low == d * base + e
<1>1. a * base \in Nat /\ d * base \in Nat
  OBVIOUS
<1>2. high \in Nat /\ low \in Nat
  BY <1>1
<1>3. high = low => a = d /\ b = e
  BY DigitsAreTold
<1>. HIDE DEF high, low
<1>4. high * base + c = low * base + f => high = low /\ c = f
  BY <1>2, DigitsAreTold
<1>5. high * base + c \in Int
  BY <1>2
<1>. QED BY <1>3, <1>4, <1>5 DEF high, low, Number

\* Locators of one place are one locator: the order of display strings has no ties.
LEMMA PlacesTellLocators ==
    ASSUME RankingAssumption, NEW l \in StructuredLocator, NEW m \in StructuredLocator
    PROVE  Place(l) \in Int /\ (Place(l) = Place(m) => l = m)
<1>. DEFINE n == Len(Alphabet)
            kindOf(k) == Position(Kinds, k.kind)
<1>1. n \in Nat /\ DOMAIN Alphabet = 1 .. n /\ DOMAIN Kinds = 1 .. 7
  BY DEF RankingAssumption, Kinds
<1>2. ASSUME NEW k \in StructuredLocator
      PROVE  /\ kindOf(k) \in 1 .. 7 /\ Kinds[kindOf(k)] = k.kind
             /\ Order(k.value) \in 0 .. n /\ Order(k.name) \in 0 .. n
  <2>1. k.kind \in Range(Kinds) /\ k.value \in Phrase /\ k.name \in Phrase
    BY DEF StructuredLocator
  <2>2. kindOf(k) \in 1 .. 7 /\ Kinds[kindOf(k)] = k.kind
    <3>1. 7 \in Nat /\ DOMAIN Kinds = 1 .. 7 /\ k.kind \in Range(Kinds)
      BY <1>1, <2>1
    <3>2. Position(Kinds, k.kind) \in 1 .. 7 /\ Kinds[Position(Kinds, k.kind)] = k.kind
      BY ONLY <3>1, PositionIsOne
    <3>. QED BY ONLY <3>2 DEF kindOf
  <2>3. \A x \in Phrase : Order(x) \in 0 .. n
    <3>. SUFFICES ASSUME NEW x \in Phrase, x # None PROVE Order(x) \in 0 .. n
      BY <1>1 DEF Order
    <3>1. x \in Range(Alphabet)
      BY DEF Phrase
    <3>2. Position(Alphabet, x) \in 1 .. n
      BY <1>1, <3>1, PositionIsOne
    <3>. QED BY <1>1, <3>2 DEF Order
  <2>. QED BY <2>1, <2>2, <2>3
<1>3. ASSUME NEW x \in Phrase, NEW y \in Phrase, Order(x) = Order(y) PROVE x = y
  <2>1. ASSUME NEW z \in Phrase, z # None PROVE Order(z) \in 1 .. n /\ Alphabet[Order(z)] = z
    <3>1. z \in Range(Alphabet)
      BY <2>1 DEF Phrase
    <3>. QED BY <1>1, <2>1, <3>1, PositionIsOne DEF Order
  <2>2. Order(None) = 0
    BY DEF Order
  <2>. QED BY <1>1, <1>3, <2>1, <2>2
<1>. HIDE DEF n
<1>4. /\ Place(l) = (kindOf(l) * (n + 1) + Order(l.value)) * (n + 1) + Order(l.name)
      /\ Place(m) = (kindOf(m) * (n + 1) + Order(m.value)) * (n + 1) + Order(m.name)
  BY DEF Place, n
<1>. HIDE DEF kindOf
<1>5. n + 1 \in Nat /\ \A i \in 0 .. n : i \in 0 .. (n + 1) - 1
  BY <1>1
<1>6. /\ kindOf(l) \in Nat /\ kindOf(m) \in Nat
      /\ Order(l.value) \in 0 .. (n + 1) - 1 /\ Order(m.value) \in 0 .. (n + 1) - 1
      /\ Order(l.name) \in 0 .. (n + 1) - 1 /\ Order(m.name) \in 0 .. (n + 1) - 1
  BY <1>2, <1>5
<1>7. /\ Place(l) \in Int
      /\ Place(l) = Place(m) => /\ kindOf(l) = kindOf(m)
                                /\ Order(l.value) = Order(m.value) /\ Order(l.name) = Order(m.name)
  <2>0. PICK base \in Nat : base = n + 1
    BY <1>5
  <2>1. PICK a \in Nat, d \in Nat, b \in 0 .. base - 1, c \in 0 .. base - 1,
             e \in 0 .. base - 1, f \in 0 .. base - 1 :
           /\ a = kindOf(l) /\ b = Order(l.value) /\ c = Order(l.name)
           /\ d = kindOf(m) /\ e = Order(m.value) /\ f = Order(m.name)
    BY <1>6, <2>0
  <2>2. Place(l) = Number(base, a, b, c) /\ Place(m) = Number(base, d, e, f)
    BY <1>4, <2>0, <2>1 DEF Number
  <2>3. Number(base, a, b, c) \in Int
    BY ONLY base \in Nat, a \in Nat, b \in 0 .. base - 1, c \in 0 .. base - 1, ThreeDigitsAreTold
  <2>4. Number(base, a, b, c) = Number(base, d, e, f) => a = d /\ b = e /\ c = f
    BY ONLY base \in Nat, a \in Nat, b \in 0 .. base - 1, c \in 0 .. base - 1,
            d \in Nat, e \in 0 .. base - 1, f \in 0 .. base - 1, ThreeDigitsAreTold
  <2>. QED BY <2>1, <2>2, <2>3, <2>4
<1>8. ASSUME Place(l) = Place(m) PROVE l = m
  <2>4. l.kind = m.kind
    BY <1>2, <1>7, <1>8
  <2>5. l.value \in Phrase /\ m.value \in Phrase /\ l.name \in Phrase /\ m.name \in Phrase
    BY DEF StructuredLocator
  <2>6. l.value = m.value /\ l.name = m.name
    BY <1>3, <1>7, <1>8, <2>5
  <2>. QED BY <2>4, <2>6 DEF StructuredLocator
<1>. QED BY <1>7, <1>8

\* Scored locators, each of which occurs once.
Rankable(S) == /\ IsFiniteSet(S)
               /\ \A c \in S : c.locator \in StructuredLocator /\ c.score \in Int
               /\ \A c, d \in S : c.locator = d.locator => c = d

\* Of two candidates, one is better, and who is better than the better is better.
LEMMA BetterIsAnOrder ==
    ASSUME RankingAssumption, NEW S, Rankable(S)
    PROVE  /\ \A c \in S : ~Better(c, c)
           /\ \A c, d \in S : c # d => Better(c, d) \/ Better(d, c)
           /\ \A c, d, e \in S : Better(c, d) /\ Better(d, e) => Better(c, e)
<1>1. \A c \in S : c.score \in Int /\ Place(c.locator) \in Int
  BY PlacesTellLocators DEF Rankable
<1>2. \A c, d \in S : Place(c.locator) = Place(d.locator) => c = d
  BY PlacesTellLocators DEF Rankable
<1>. QED BY ONLY <1>1, <1>2 DEF Better

\* A set and its image under a function that is one-to-one have as many elements.
LEMMA ImageHasAsMany ==
    ASSUME NEW S, IsFiniteSet(S), NEW f, \A x, y \in S : f[x] = f[y] => x = y
    PROVE  IsFiniteSet({f[x] : x \in S}) /\ Cardinality({f[x] : x \in S}) = Cardinality(S)
<1>. DEFINE T == {f[x] : x \in S}
            h == [x \in S |-> f[x]]
<1>1. h \in Bijection(S, T)
  BY DEF Bijection, Injection, Surjection, IsInjective
<1>2. ExistsBijection(S, T)
  BY <1>1 DEF ExistsBijection
<1>. QED BY <1>2, FS_Bijection

\* The place of a candidate among others.
Ahead(S, c) == {d \in S : Better(d, c)}
RankIn(S, c) == 1 + Cardinality(Ahead(S, c))

\* The ranks among n candidates are 1 to n.
LEMMA RanksAreOneToN ==
    ASSUME RankingAssumption, NEW S, Rankable(S)
    PROVE  /\ Cardinality(S) \in Nat
           /\ \A c, d \in S : RankIn(S, c) = RankIn(S, d) => c = d
           /\ \A i \in 1 .. Cardinality(S) : \E c \in S : RankIn(S, c) = i
<1>. DEFINE n == Cardinality(S)
<1>0. IsFiniteSet(S) /\ n \in Nat
  BY FS_CardinalityType DEF Rankable
<1>1. ASSUME NEW c \in S PROVE IsFiniteSet(Ahead(S, c)) /\ RankIn(S, c) \in 1 .. n
  <2>1. Ahead(S, c) \in SUBSET (S \ {c})
    BY BetterIsAnOrder DEF Ahead
  <2>2. IsFiniteSet(S \ {c}) /\ Cardinality(S \ {c}) = n - 1
    BY <1>0, FS_RemoveElement
  <2>3. /\ IsFiniteSet(Ahead(S, c)) /\ Cardinality(Ahead(S, c)) \in Nat
        /\ Cardinality(Ahead(S, c)) <= n - 1
    BY <2>1, <2>2, FS_Subset, FS_CardinalityType
  <2>. QED BY <1>0, <2>3 DEF RankIn
<1>2. ASSUME NEW c \in S, NEW d \in S, Better(c, d) PROVE RankIn(S, c) < RankIn(S, d)
  <2>1. Ahead(S, c) \cup {c} \in SUBSET Ahead(S, d)
    BY <1>2, BetterIsAnOrder DEF Ahead
  <2>2. c \notin Ahead(S, c)
    BY BetterIsAnOrder DEF Ahead
  <2>3. Cardinality(Ahead(S, c) \cup {c}) = Cardinality(Ahead(S, c)) + 1
    BY <1>1, <2>2, FS_AddElement
  <2>4. Cardinality(Ahead(S, c) \cup {c}) <= Cardinality(Ahead(S, d))
    BY <1>1, <2>1, FS_Subset
  <2>5. Cardinality(Ahead(S, c)) \in Nat /\ Cardinality(Ahead(S, d)) \in Nat
    BY <1>1, FS_CardinalityType
  <2>. QED BY <2>3, <2>4, <2>5 DEF RankIn
<1>3. ASSUME NEW c \in S, NEW d \in S, RankIn(S, c) = RankIn(S, d) PROVE c = d
  <2>1. RankIn(S, c) \in Int /\ RankIn(S, d) \in Int
    BY <1>1
  <2>2. ~Better(c, d) /\ ~Better(d, c)
    BY <1>2, <1>3, <2>1
  <2>. QED BY <2>2, BetterIsAnOrder
<1>. DEFINE ranks == [c \in S |-> RankIn(S, c)]
<1>4. ranks \in Injection(S, 1 .. n)
  <2>1. ranks \in [S -> 1 .. n]
    BY <1>1
  <2>2. \A c, d \in S : ranks[c] = ranks[d] => c = d
    BY <1>3
  <2>. HIDE DEF ranks
  <2>. QED BY <2>1, <2>2 DEF Injection, IsInjective
<1>5. IsFiniteSet(1 .. n) /\ Cardinality(1 .. n) = n
  BY <1>0, FS_Interval
<1>6. ranks \in Surjection(S, 1 .. n)
  <2>. HIDE DEF ranks, n
  <2>1. Cardinality(S) = Cardinality(1 .. n)
    BY <1>5 DEF n
  <2>. QED BY <1>4, <1>5, <2>1, FS_Injection
<1>7. \A i \in 1 .. n : \E c \in S : RankIn(S, c) = i
  BY <1>6 DEF Surjection
<1>. QED BY <1>0, <1>3, <1>7

\* The i-th of a ranking is the one of rank i.
LEMMA BestFirstIsByRank ==
    ASSUME RankingAssumption, NEW S, Rankable(S), NEW max \in Int
    PROVE  LET size == IF Cardinality(S) < max THEN Cardinality(S) ELSE max
           IN  /\ BestFirst(S, max) = [i \in 1 .. size |-> BestFirst(S, max)[i]]
               /\ DOMAIN BestFirst(S, max) = 1 .. size
               /\ \A i \in 1 .. size :
                     BestFirst(S, max)[i] \in S /\ RankIn(S, BestFirst(S, max)[i]) = i
<1>. DEFINE size == IF Cardinality(S) < max THEN Cardinality(S) ELSE max
<1>1. BestFirst(S, max) = [i \in 1 .. size |-> CHOOSE c \in S : RankIn(S, c) = i]
  BY DEF BestFirst, RankIn, Ahead
<1>2. ASSUME NEW i \in 1 .. size PROVE \E c \in S : RankIn(S, c) = i
  <2>1. Cardinality(S) \in Nat /\ \A j \in 1 .. Cardinality(S) : \E c \in S : RankIn(S, c) = j
    BY RanksAreOneToN
  <2>2. i \in 1 .. Cardinality(S)
    BY <2>1
  <2>. QED BY <2>1, <2>2
<1>. HIDE DEF size
<1>3. ASSUME NEW i \in 1 .. size
      PROVE  BestFirst(S, max)[i] \in S /\ RankIn(S, BestFirst(S, max)[i]) = i
  <2>1. BestFirst(S, max)[i] = CHOOSE c \in S : RankIn(S, c) = i
    BY <1>1
  <2>. QED BY <1>2, <2>1
<1>4. BestFirst(S, max) = [i \in 1 .. size |-> BestFirst(S, max)[i]] /\ DOMAIN BestFirst(S, max) = 1 .. size
  BY <1>1
<1>. QED BY <1>3, <1>4 DEF size

\* What counts of a candidate.
Scored(c) == [locator |-> c.locator, score |-> c.score]

\* Whatever else candidates say of themselves, their scores come in the same order.
LEMMA ScoresComeInTheSameOrder ==
    ASSUME RankingAssumption, NEW S, Rankable(S), NEW max \in Int,
           NEW P, P = {Scored(c) : c \in S}
    PROVE  [i \in DOMAIN BestFirst(S, max) |-> Scored(BestFirst(S, max)[i])] = BestFirst(P, max)
<1>. DEFINE f == [c \in S |-> Scored(c)]
<1>0. /\ \A c \in S : Scored(c).locator = c.locator /\ Scored(c).score = c.score
      /\ \A c, d : Better(Scored(c), Scored(d)) <=> Better(c, d)
  BY DEF Scored, Better
<1>1. \A c, d \in S : Scored(c) = Scored(d) => c = d
  BY <1>0 DEF Rankable
<1>2. IsFiniteSet(P) /\ Cardinality(P) = Cardinality(S)
  <2>1. IsFiniteSet(S) /\ (\A x, y \in S : f[x] = f[y] => x = y) /\ P = {f[x] : x \in S}
    BY <1>1 DEF Rankable
  <2>. HIDE DEF f
  <2>2. IsFiniteSet({f[x] : x \in S}) /\ Cardinality({f[x] : x \in S}) = Cardinality(S)
    BY ONLY <2>1, ImageHasAsMany
  <2>. QED BY <2>1, <2>2
<1>3. Rankable(P)
  BY <1>0, <1>2 DEF Rankable
<1>4. ASSUME NEW c \in S PROVE RankIn(P, Scored(c)) = RankIn(S, c)
  <2>. DEFINE A == Ahead(S, c)
  <2>1. IsFiniteSet(A) /\ A \in SUBSET S
    BY FS_Subset DEF Ahead, Rankable
  <2>2. Ahead(P, Scored(c)) = {f[d] : d \in A}
    BY <1>0 DEF Ahead
  <2>3. \A x, y \in A : f[x] = f[y] => x = y
    BY <1>1, <2>1
  <2>. HIDE DEF f, A
  <2>4. Cardinality(Ahead(P, Scored(c))) = Cardinality(A)
    BY <2>1, <2>2, <2>3, ImageHasAsMany
  <2>. QED BY <2>4 DEF RankIn, A
<1>. DEFINE size == IF Cardinality(S) < max THEN Cardinality(S) ELSE max
            s == BestFirst(S, max)
            p == BestFirst(P, max)
<1>5. /\ DOMAIN s = 1 .. size /\ \A i \in 1 .. size : s[i] \in S /\ RankIn(S, s[i]) = i
  BY BestFirstIsByRank
<1>6. /\ p = [i \in 1 .. size |-> p[i]]
      /\ \A i \in 1 .. size : p[i] \in P /\ RankIn(P, p[i]) = i
  <2>. DEFINE sizeP == IF Cardinality(P) < max THEN Cardinality(P) ELSE max
  <2>1. /\ p = [i \in 1 .. sizeP |-> p[i]]
        /\ \A i \in 1 .. sizeP : p[i] \in P /\ RankIn(P, p[i]) = i
    BY ONLY RankingAssumption, <1>3, max \in Int, BestFirstIsByRank DEF p, sizeP
  <2>2. sizeP = size
    BY <1>2
  <2>. QED BY <2>1, <2>2
<1>. HIDE DEF size, s, p
<1>7. ASSUME NEW i \in 1 .. size PROVE Scored(s[i]) = p[i]
  <2>1. Scored(s[i]) \in P /\ RankIn(P, Scored(s[i])) = i
    BY <1>4, <1>5
  <2>2. p[i] \in P /\ RankIn(P, p[i]) = i
    BY <1>6
  <2>3. \A c, d \in P : RankIn(P, c) = RankIn(P, d) => c = d
    BY <1>3, RanksAreOneToN
  <2>. QED BY <2>1, <2>2, <2>3
<1>8. [i \in DOMAIN s |-> Scored(s[i])] = p
  BY <1>5, <1>6, <1>7
<1>. QED BY <1>8 DEF s, p

-----------------------------------------------------------------------------
(* The ranking: folds over what is found, one element at a time.            *)

\* FoldLeft(Admit) takes one element after the other.
LEMMA AdmitsRun ==
    ASSUME NEW C, NEW cons \in Seq(C), NEW V, {} \in V, \A v \in V : \A x \in C : Admit(v, x) \in V
    PROVE  \E run : /\ run[0] = {}
                    /\ \A k \in 0 .. Len(cons) - 1 : run[k + 1] = Admit(run[k], cons[k + 1])
                    /\ \A k \in 0 .. Len(cons) : run[k] \in V
                    /\ FoldLeft(Admit, {}, cons) = run[Len(cons)]
<1>. DEFINE n == Len(cons)
            step == [p \in (SUBSET (1 .. n)) \X V |-> Admit(p[2], cons[Max(p[1])])]
            body(iter) == [U \in SUBSET (1 .. n) |->
                              IF U = {} THEN {} ELSE Admit(iter[U \ {Max(U)}], cons[Max(U)])]
            it == CHOOSE iter : iter = body(iter)
<1>0. n \in Nat /\ DOMAIN cons = 1 .. n /\ \A i \in 1 .. n : cons[i] \in C
  OBVIOUS
<1>1. FoldLeft(Admit, {}, cons) = it[1 .. n]
  BY <1>0 DEF FoldLeft, MapThenFoldSet
<1>2. \A T \in SUBSET (1 .. n) : \A v \in V : T # {} =>
         step[<<T, v>>] = Admit(v, cons[Max(T)]) /\ step[<<T, v>>] \in V
  <2>. TAKE T \in SUBSET (1 .. n)
  <2>. TAKE v \in V
  <2>. HAVE T # {}
  <2>1. Max(T) \in T
    BY <1>0, GreatestOfSet
  <2>2. cons[Max(T)] \in C
    BY ONLY <1>0, <2>1, T \in SUBSET (1 .. n)
  <2>3. Admit(v, cons[Max(T)]) \in V
    BY <2>2
  <2>. QED BY <2>3
<1>. HIDE DEF step
<1>3. PICK g \in [SUBSET (1 .. n) -> V] :
         /\ g[{}] = {}
         /\ \A T \in SUBSET (1 .. n) : T # {} => g[T] = step[<<T, g[T \ {Max(T)}]>>]
  <2>1. \A T \in SUBSET (1 .. n) : \A v \in V : T # {} => step[<<T, v>>] \in V
    BY <1>2
  <2>2. n \in Nat
    BY <1>0
  <2>. HIDE DEF n
  <2>3. \E g \in [SUBSET (1 .. n) -> V] : Folds(g, 1 .. n, {}, step)
    BY ONLY {} \in V, <2>1, <2>2, FoldExists
  <2>. QED BY <2>3 DEF Folds
<1>4. g = body(g)
  <2>1. \A T \in SUBSET (1 .. n) : T # {} => g[T] = Admit(g[T \ {Max(T)}], cons[Max(T)])
    BY <1>2, <1>3
  <2>. QED BY <1>3, <2>1
<1>5. it = body(it)
  <2>. HIDE DEF body
  <2>. QED BY <1>4
<1>. HIDE DEF it
<1>6. \A U \in SUBSET (1 .. n) : it[U] = body(it)[U]
  BY <1>5
<1>. HIDE DEF n
<1>7. it[1 .. 0] = {}
  <2>1. 1 .. 0 = {}
    OBVIOUS
  <2>. QED BY <1>6, <2>1
<1>8. \A k \in 0 .. n - 1 : it[1 .. k + 1] = Admit(it[1 .. k], cons[k + 1])
  <2>. TAKE k \in 0 .. n - 1
  <2>0. n \in Nat /\ k \in Nat /\ k + 1 <= n /\ 1 \in 1 .. k + 1
    BY <1>0
  <2>1. 1 .. k + 1 \in SUBSET (1 .. n) /\ 1 .. k + 1 # {}
    <3>1. \A i \in 1 .. k + 1 : i \in 1 .. n
      BY ONLY <2>0
    <3>2. 1 .. k + 1 # {}
      BY ONLY <2>0
    <3>. QED BY <3>1, <3>2
  <2>2. Max(1 .. k + 1) = k + 1 /\ (1 .. k + 1) \ {k + 1} = 1 .. k
    BY <2>0, GreatestOfPrefix
  <2>. QED BY <1>6, <2>1, <2>2
<1>. DEFINE run == [k \in 0 .. n |-> it[1 .. k]]
<1>9. run[0] = {} /\ FoldLeft(Admit, {}, cons) = run[n]
  <2>1. 0 \in 0 .. n /\ n \in 0 .. n
    BY <1>0
  <2>. QED BY <1>1, <1>7, <2>1
<1>10. ASSUME NEW k \in 0 .. n - 1 PROVE run[k + 1] = Admit(run[k], cons[k + 1])
  <2>1. k \in 0 .. n /\ k + 1 \in 0 .. n
    BY <1>0
  <2>. QED BY <1>8, <2>1
<1>. DEFINE Q == {k \in 0 .. n : run[k] \in V}
<1>. HIDE DEF run
<1>11. 0 \in Q
  <2>1. run[0] \in V
    BY ONLY <1>9, {} \in V
  <2>2. 0 \in 0 .. n
    BY <1>0
  <2>. QED BY <2>1, <2>2
<1>12. ASSUME NEW k \in 0 .. n - 1, k \in Q PROVE k + 1 \in Q
  <2>1. run[k] \in V /\ cons[k + 1] \in C /\ k + 1 \in 0 .. n
    BY <1>0, <1>12
  <2>. QED BY <1>10, <2>1
<1>13. \A k \in 0 .. n : k \in Q
  <2>. HIDE DEF Q
  <2>. QED BY <1>0, <1>11, <1>12, InductionUpTo
<1>. QED BY <1>9, <1>10, <1>13 DEF n

\* FoldLeft(KeepFirst) takes one element after the other.
LEMMA KeepFirstRuns ==
    ASSUME NEW C, NEW cons \in Seq(C), NEW V, <<>> \in V, \A v \in V : \A x \in C : KeepFirst(v, x) \in V
    PROVE  \E run : /\ run[0] = <<>>
                    /\ \A k \in 0 .. Len(cons) - 1 : run[k + 1] = KeepFirst(run[k], cons[k + 1])
                    /\ \A k \in 0 .. Len(cons) : run[k] \in V
                    /\ FoldLeft(KeepFirst, <<>>, cons) = run[Len(cons)]
<1>. DEFINE n == Len(cons)
            step == [p \in (SUBSET (1 .. n)) \X V |-> KeepFirst(p[2], cons[Max(p[1])])]
            body(iter) == [U \in SUBSET (1 .. n) |->
                              IF U = {} THEN <<>> ELSE KeepFirst(iter[U \ {Max(U)}], cons[Max(U)])]
            it == CHOOSE iter : iter = body(iter)
<1>0. n \in Nat /\ DOMAIN cons = 1 .. n /\ \A i \in 1 .. n : cons[i] \in C
  OBVIOUS
<1>1. FoldLeft(KeepFirst, <<>>, cons) = it[1 .. n]
  BY <1>0 DEF FoldLeft, MapThenFoldSet
<1>2. \A T \in SUBSET (1 .. n) : \A v \in V : T # {} =>
         step[<<T, v>>] = KeepFirst(v, cons[Max(T)]) /\ step[<<T, v>>] \in V
  <2>. TAKE T \in SUBSET (1 .. n)
  <2>. TAKE v \in V
  <2>. HAVE T # {}
  <2>1. Max(T) \in T
    BY <1>0, GreatestOfSet
  <2>2. cons[Max(T)] \in C
    BY ONLY <1>0, <2>1, T \in SUBSET (1 .. n)
  <2>3. KeepFirst(v, cons[Max(T)]) \in V
    BY <2>2
  <2>. QED BY <2>3
<1>. HIDE DEF step
<1>3. PICK g \in [SUBSET (1 .. n) -> V] :
         /\ g[{}] = <<>>
         /\ \A T \in SUBSET (1 .. n) : T # {} => g[T] = step[<<T, g[T \ {Max(T)}]>>]
  <2>1. \A T \in SUBSET (1 .. n) : \A v \in V : T # {} => step[<<T, v>>] \in V
    BY <1>2
  <2>2. n \in Nat
    BY <1>0
  <2>. HIDE DEF n
  <2>3. \E g \in [SUBSET (1 .. n) -> V] : Folds(g, 1 .. n, <<>>, step)
    BY ONLY <<>> \in V, <2>1, <2>2, FoldExists
  <2>. QED BY <2>3 DEF Folds
<1>4. g = body(g)
  <2>1. \A T \in SUBSET (1 .. n) : T # {} => g[T] = KeepFirst(g[T \ {Max(T)}], cons[Max(T)])
    BY <1>2, <1>3
  <2>. QED BY <1>3, <2>1
<1>5. it = body(it)
  <2>. HIDE DEF body
  <2>. QED BY <1>4
<1>. HIDE DEF it
<1>6. \A U \in SUBSET (1 .. n) : it[U] = body(it)[U]
  BY <1>5
<1>. HIDE DEF n
<1>7. it[1 .. 0] = <<>>
  <2>1. 1 .. 0 = {}
    OBVIOUS
  <2>. QED BY <1>6, <2>1
<1>8. \A k \in 0 .. n - 1 : it[1 .. k + 1] = KeepFirst(it[1 .. k], cons[k + 1])
  <2>. TAKE k \in 0 .. n - 1
  <2>0. n \in Nat /\ k \in Nat /\ k + 1 <= n /\ 1 \in 1 .. k + 1
    BY <1>0
  <2>1. 1 .. k + 1 \in SUBSET (1 .. n) /\ 1 .. k + 1 # {}
    <3>1. \A i \in 1 .. k + 1 : i \in 1 .. n
      BY ONLY <2>0
    <3>2. 1 .. k + 1 # {}
      BY ONLY <2>0
    <3>. QED BY <3>1, <3>2
  <2>2. Max(1 .. k + 1) = k + 1 /\ (1 .. k + 1) \ {k + 1} = 1 .. k
    BY <2>0, GreatestOfPrefix
  <2>. QED BY <1>6, <2>1, <2>2
<1>. DEFINE run == [k \in 0 .. n |-> it[1 .. k]]
<1>9. run[0] = <<>> /\ FoldLeft(KeepFirst, <<>>, cons) = run[n]
  <2>1. 0 \in 0 .. n /\ n \in 0 .. n
    BY <1>0
  <2>. QED BY <1>1, <1>7, <2>1
<1>10. ASSUME NEW k \in 0 .. n - 1 PROVE run[k + 1] = KeepFirst(run[k], cons[k + 1])
  <2>1. k \in 0 .. n /\ k + 1 \in 0 .. n
    BY <1>0
  <2>. QED BY <1>8, <2>1
<1>. DEFINE Q == {k \in 0 .. n : run[k] \in V}
<1>. HIDE DEF run
<1>11. 0 \in Q
  <2>1. run[0] \in V
    BY ONLY <1>9, <<>> \in V
  <2>2. 0 \in 0 .. n
    BY <1>0
  <2>. QED BY <2>1, <2>2
<1>12. ASSUME NEW k \in 0 .. n - 1, k \in Q PROVE k + 1 \in Q
  <2>1. run[k] \in V /\ cons[k + 1] \in C /\ k + 1 \in 0 .. n
    BY <1>0, <1>12
  <2>. QED BY <1>10, <2>1
<1>13. \A k \in 0 .. n : k \in Q
  <2>. HIDE DEF Q
  <2>. QED BY <1>0, <1>11, <1>12, InductionUpTo
<1>. QED BY <1>9, <1>10, <1>13 DEF n

\* FoldLeft(KeepVisible) takes one element after the other.
LEMMA KeepVisibleRuns ==
    ASSUME NEW C, NEW cons \in Seq(C), NEW V, <<>> \in V, \A v \in V : \A x \in C : KeepVisible(v, x) \in V
    PROVE  \E run : /\ run[0] = <<>>
                    /\ \A k \in 0 .. Len(cons) - 1 : run[k + 1] = KeepVisible(run[k], cons[k + 1])
                    /\ \A k \in 0 .. Len(cons) : run[k] \in V
                    /\ FoldLeft(KeepVisible, <<>>, cons) = run[Len(cons)]
<1>. DEFINE n == Len(cons)
            step == [p \in (SUBSET (1 .. n)) \X V |-> KeepVisible(p[2], cons[Max(p[1])])]
            body(iter) == [U \in SUBSET (1 .. n) |->
                              IF U = {} THEN <<>> ELSE KeepVisible(iter[U \ {Max(U)}], cons[Max(U)])]
            it == CHOOSE iter : iter = body(iter)
<1>0. n \in Nat /\ DOMAIN cons = 1 .. n /\ \A i \in 1 .. n : cons[i] \in C
  OBVIOUS
<1>1. FoldLeft(KeepVisible, <<>>, cons) = it[1 .. n]
  BY <1>0 DEF FoldLeft, MapThenFoldSet
<1>2. \A T \in SUBSET (1 .. n) : \A v \in V : T # {} =>
         step[<<T, v>>] = KeepVisible(v, cons[Max(T)]) /\ step[<<T, v>>] \in V
  <2>. TAKE T \in SUBSET (1 .. n)
  <2>. TAKE v \in V
  <2>. HAVE T # {}
  <2>1. Max(T) \in T
    BY <1>0, GreatestOfSet
  <2>2. cons[Max(T)] \in C
    BY ONLY <1>0, <2>1, T \in SUBSET (1 .. n)
  <2>3. KeepVisible(v, cons[Max(T)]) \in V
    BY <2>2
  <2>. QED BY <2>3
<1>. HIDE DEF step
<1>3. PICK g \in [SUBSET (1 .. n) -> V] :
         /\ g[{}] = <<>>
         /\ \A T \in SUBSET (1 .. n) : T # {} => g[T] = step[<<T, g[T \ {Max(T)}]>>]
  <2>1. \A T \in SUBSET (1 .. n) : \A v \in V : T # {} => step[<<T, v>>] \in V
    BY <1>2
  <2>2. n \in Nat
    BY <1>0
  <2>. HIDE DEF n
  <2>3. \E g \in [SUBSET (1 .. n) -> V] : Folds(g, 1 .. n, <<>>, step)
    BY ONLY <<>> \in V, <2>1, <2>2, FoldExists
  <2>. QED BY <2>3 DEF Folds
<1>4. g = body(g)
  <2>1. \A T \in SUBSET (1 .. n) : T # {} => g[T] = KeepVisible(g[T \ {Max(T)}], cons[Max(T)])
    BY <1>2, <1>3
  <2>. QED BY <1>3, <2>1
<1>5. it = body(it)
  <2>. HIDE DEF body
  <2>. QED BY <1>4
<1>. HIDE DEF it
<1>6. \A U \in SUBSET (1 .. n) : it[U] = body(it)[U]
  BY <1>5
<1>. HIDE DEF n
<1>7. it[1 .. 0] = <<>>
  <2>1. 1 .. 0 = {}
    OBVIOUS
  <2>. QED BY <1>6, <2>1
<1>8. \A k \in 0 .. n - 1 : it[1 .. k + 1] = KeepVisible(it[1 .. k], cons[k + 1])
  <2>. TAKE k \in 0 .. n - 1
  <2>0. n \in Nat /\ k \in Nat /\ k + 1 <= n /\ 1 \in 1 .. k + 1
    BY <1>0
  <2>1. 1 .. k + 1 \in SUBSET (1 .. n) /\ 1 .. k + 1 # {}
    <3>1. \A i \in 1 .. k + 1 : i \in 1 .. n
      BY ONLY <2>0
    <3>2. 1 .. k + 1 # {}
      BY ONLY <2>0
    <3>. QED BY <3>1, <3>2
  <2>2. Max(1 .. k + 1) = k + 1 /\ (1 .. k + 1) \ {k + 1} = 1 .. k
    BY <2>0, GreatestOfPrefix
  <2>. QED BY <1>6, <2>1, <2>2
<1>. DEFINE run == [k \in 0 .. n |-> it[1 .. k]]
<1>9. run[0] = <<>> /\ FoldLeft(KeepVisible, <<>>, cons) = run[n]
  <2>1. 0 \in 0 .. n /\ n \in 0 .. n
    BY <1>0
  <2>. QED BY <1>1, <1>7, <2>1
<1>10. ASSUME NEW k \in 0 .. n - 1 PROVE run[k + 1] = KeepVisible(run[k], cons[k + 1])
  <2>1. k \in 0 .. n /\ k + 1 \in 0 .. n
    BY <1>0
  <2>. QED BY <1>8, <2>1
<1>. DEFINE Q == {k \in 0 .. n : run[k] \in V}
<1>. HIDE DEF run
<1>11. 0 \in Q
  <2>1. run[0] \in V
    BY ONLY <1>9, <<>> \in V
  <2>2. 0 \in 0 .. n
    BY <1>0
  <2>. QED BY <2>1, <2>2
<1>12. ASSUME NEW k \in 0 .. n - 1, k \in Q PROVE k + 1 \in Q
  <2>1. run[k] \in V /\ cons[k + 1] \in C /\ k + 1 \in 0 .. n
    BY <1>0, <1>12
  <2>. QED BY <1>10, <2>1
<1>13. \A k \in 0 .. n : k \in Q
  <2>. HIDE DEF Q
  <2>. QED BY <1>0, <1>11, <1>12, InductionUpTo
<1>. QED BY <1>9, <1>10, <1>13 DEF n

-----------------------------------------------------------------------------
(* The ranking: what the merge and the seeds come to.                      *)

\* The merge has one candidate for each locator considered, and none scores more.
LEMMA TheBestAreAdmitted ==
    ASSUME NEW C, NEW cons \in Seq(C), \A c \in C : c.score \in Int,
           NEW T, T = FoldLeft(Admit, {}, cons)
    PROVE  /\ IsFiniteSet(T) /\ T \subseteq Range(cons)
           /\ \A c, d \in T : c.locator = d.locator => c = d
           /\ \A c \in Range(cons) : \E d \in T : d.locator = c.locator /\ c.score <= d.score
<1>. DEFINE n == Len(cons)
            V == SUBSET C
<1>0. n \in Nat /\ DOMAIN cons = 1 .. n /\ \A i \in 1 .. n : cons[i] \in C
  OBVIOUS
<1>1. {} \in V /\ \A v \in V : \A x \in C : Admit(v, x) \in V
  BY DEF Admit
<1>. HIDE DEF V
<1>2. PICK run : /\ run[0] = {}
                 /\ \A k \in 0 .. n - 1 : run[k + 1] = Admit(run[k], cons[k + 1])
                 /\ \A k \in 0 .. n : run[k] \in V
                 /\ T = run[n]
  BY <1>1, AdmitsRun
<1>. HIDE DEF n
<1>. DEFINE Merged(k) == /\ IsFiniteSet(run[k])
                         /\ \A c \in run[k] : \E i \in 1 .. k : c = cons[i]
                         /\ \A c, d \in run[k] : c.locator = d.locator => c = d
                         /\ \A i \in 1 .. k : \E d \in run[k] :
                               d.locator = cons[i].locator /\ cons[i].score <= d.score
            Q == {k \in 0 .. n : Merged(k)}
<1>3. 0 \in Q
  <2>1. Merged(0)
    <3>1. IsFiniteSet(run[0])
      BY ONLY <1>2, FS_EmptySet
    <3>2. 1 .. 0 = {}
      OBVIOUS
    <3>. QED BY <1>2, <3>1, <3>2
  <2>2. 0 \in 0 .. n
    BY <1>0
  <2>. HIDE DEF Merged
  <2>. QED BY <2>1, <2>2
<1>4. ASSUME NEW k \in 0 .. n - 1, Merged(k) PROVE Merged(k + 1)
  <2>. DEFINE c == cons[k + 1]
              old == run[k]
              others == {d \in old : d.locator # c.locator}
  <2>1. k \in Nat /\ k + 1 \in 1 .. n /\ c \in C /\ c.score \in Int /\ old \subseteq C
    BY <1>0, <1>2 DEF V
  <2>2. \A i \in 1 .. k + 1 : i \in 1 .. k \/ i = k + 1
    BY <2>1
  <2>3. CASE \E d \in old : d.locator = c.locator /\ d.score > c.score
    <3>1. run[k + 1] = old
      BY <1>2, <2>3 DEF Admit
    <3>2. \E d \in old : d.locator = c.locator /\ c.score <= d.score
      BY <2>1, <2>3
    <3>3. \A d \in old : \E i \in 1 .. k + 1 : d = cons[i]
      BY <1>4, <2>1
    <3>. QED BY <1>4, <2>2, <3>1, <3>2, <3>3
  <2>4. CASE ~\E d \in old : d.locator = c.locator /\ d.score > c.score
    <3>1. run[k + 1] = others \cup {c}
      BY <1>2, <2>4 DEF Admit
    <3>2. IsFiniteSet(others \cup {c})
      <4>1. others \in SUBSET old /\ IsFiniteSet(old)
        BY <1>4
      <4>2. IsFiniteSet(others)
        BY <4>1, FS_Subset
      <4>. HIDE DEF others, c
      <4>. QED BY <4>2, FS_AddElement
    <3>3. \A d \in others \cup {c} : \E i \in 1 .. k + 1 : d = cons[i]
      <4>1. k + 1 \in 1 .. k + 1 /\ \A i \in 1 .. k : i \in 1 .. k + 1
        BY <2>1
      <4>. QED BY <1>4, <4>1
    <3>4. \A d, e \in others \cup {c} : d.locator = e.locator => d = e
      BY <1>4
    <3>5. ASSUME NEW i \in 1 .. k + 1
          PROVE  \E d \in others \cup {c} : d.locator = cons[i].locator /\ cons[i].score <= d.score
      <4>1. CASE i = k + 1
        BY <2>1, <4>1
      <4>2. CASE i # k + 1
        <5>1. i \in 1 .. k /\ i \in 1 .. n /\ cons[i].score \in Int
          BY <1>0, <2>1, <4>2
        <5>2. PICK d \in old : d.locator = cons[i].locator /\ cons[i].score <= d.score
          BY <1>4, <5>1
        <5>3. CASE d.locator = c.locator
          <6>1. d.score \in Int /\ d.score <= c.score
            BY <2>1, <2>4, <5>3
          <6>2. cons[i].score <= c.score
            BY <2>1, <5>1, <5>2, <6>1
          <6>. QED BY <5>2, <5>3, <6>2
        <5>4. CASE d.locator # c.locator
          BY <5>2, <5>4
        <5>. QED BY <5>3, <5>4
      <4>. QED BY <4>1, <4>2
    <3>. QED BY <3>1, <3>2, <3>3, <3>4, <3>5
  <2>. QED BY <2>3, <2>4
<1>5. \A k \in 0 .. n - 1 : k \in Q => k + 1 \in Q
  <2>. TAKE k \in 0 .. n - 1
  <2>1. k + 1 \in 0 .. n
    BY <1>0
  <2>. HIDE DEF Merged
  <2>. QED BY <1>4, <2>1
<1>6. Merged(n)
  <2>1. n \in 0 .. n
    BY <1>0
  <2>. HIDE DEF Q
  <2>2. n \in Q
    BY <1>0, <1>3, <1>5, <2>1, InductionUpTo
  <2>. QED BY <2>2 DEF Q
<1>7. Range(cons) = {cons[i] : i \in 1 .. n}
  BY <1>0 DEF Range
<1>. QED BY <1>2, <1>6, <1>7

\* They are the ones that score best of all that were considered.
LEMMA TheBestAreTheBest ==
    ASSUME NEW C, NEW cons \in Seq(C), \A c \in C : c.score \in Int,
           NEW T, T = FoldLeft(Admit, {}, cons), NEW all, all = Range(cons)
    PROVE  {Scored(c) : c \in T}
             = {Scored(c) : c \in {c \in all : \A d \in all : d.locator = c.locator => d.score <= c.score}}
<1>. DEFINE best == {c \in all : \A d \in all : d.locator = c.locator => d.score <= c.score}
<1>1. /\ T \subseteq all
      /\ \A c, d \in T : c.locator = d.locator => c = d
      /\ \A c \in all : \E d \in T : d.locator = c.locator /\ c.score <= d.score
  BY TheBestAreAdmitted
<1>2. \A c \in all : c.score \in Int
  BY DEF Range
<1>3. ASSUME NEW c \in T PROVE c \in best
  BY <1>1
<1>4. ASSUME NEW c \in best PROVE \E d \in T : Scored(d) = Scored(c)
  <2>1. PICK d \in T : d.locator = c.locator /\ c.score <= d.score
    BY <1>1
  <2>2. d.score <= c.score /\ d.score \in Int /\ c.score \in Int
    BY <1>1, <1>2, <2>1
  <2>. QED BY <2>1, <2>2 DEF Scored
<1>. HIDE DEF best
<1>5. {Scored(c) : c \in T} = {Scored(c) : c \in best}
  BY <1>3, <1>4
<1>. QED BY <1>5 DEF best

\* FirstOfEach keeps seeds of different locators.
LEMMA FirstOfEachDiffer ==
    ASSUME NEW C, NEW seeds \in Seq(C)
    PROVE  /\ FirstOfEach(seeds) \in Seq(C)
           /\ \A i, j \in DOMAIN FirstOfEach(seeds) :
                 FirstOfEach(seeds)[i].locator = FirstOfEach(seeds)[j].locator => i = j
<1>. DEFINE V == {s \in Seq(C) : \A i, j \in DOMAIN s : s[i].locator = s[j].locator => i = j}
<1>1. <<>> \in V
  OBVIOUS
<1>2. ASSUME NEW v \in V, NEW x \in C PROVE KeepFirst(v, x) \in V
  <2>1. CASE \E i \in DOMAIN v : v[i].locator = x.locator
    BY <2>1 DEF KeepFirst
  <2>2. CASE ~\E i \in DOMAIN v : v[i].locator = x.locator
    <3>1. KeepFirst(v, x) = Append(v, x)
      BY <2>2 DEF KeepFirst
    <3>. DEFINE w == Append(v, x)
    <3>2. /\ v \in Seq(C) /\ w \in Seq(C) /\ Len(v) \in Nat
          /\ DOMAIN v = 1 .. Len(v) /\ DOMAIN w = 1 .. Len(v) + 1
          /\ w[Len(v) + 1] = x /\ \A i \in 1 .. Len(v) : w[i] = v[i]
      OBVIOUS
    <3>. HIDE DEF w
    <3>3. ASSUME NEW i \in DOMAIN w, NEW j \in DOMAIN w, w[i].locator = w[j].locator PROVE i = j
      <4>1. (i \in DOMAIN v \/ i = Len(v) + 1) /\ (j \in DOMAIN v \/ j = Len(v) + 1)
        BY <3>2
      <4>. QED BY <2>2, <3>2, <3>3, <4>1
    <3>4. w \in V
      BY <3>2, <3>3
    <3>. QED BY <3>1, <3>4 DEF w
  <2>. QED BY <2>1, <2>2
<1>. HIDE DEF V
<1>3. PICK run : (\A k \in 0 .. Len(seeds) : run[k] \in V) /\ FirstOfEach(seeds) = run[Len(seeds)]
  BY <1>1, <1>2, KeepFirstRuns DEF FirstOfEach
<1>4. FirstOfEach(seeds) \in V
  <2>1. Len(seeds) \in 0 .. Len(seeds)
    OBVIOUS
  <2>. QED BY <1>3, <2>1
<1>. QED BY <1>4 DEF V

\* What is shown of a snapshot are its visible elements, in order.
LEMMA TheVisibleAreShown ==
    ASSUME NEW E, NEW all \in Seq(E), NEW shown, shown = FoldLeft(KeepVisible, <<>>, all)
    PROVE  /\ shown \in Seq({e \in E : e.visible})
           /\ \A j \in DOMAIN shown : \E i \in DOMAIN all : shown[j] = all[i]
           /\ \A h, i \in DOMAIN all : h < i /\ all[h].visible /\ all[i].visible =>
                 \E j, k \in DOMAIN shown : j < k /\ shown[j] = all[h] /\ shown[k] = all[i]
<1>. DEFINE n == Len(all)
            Vis == {e \in E : e.visible}
            V == Seq(Vis)
<1>0. n \in Nat /\ DOMAIN all = 1 .. n /\ \A i \in 1 .. n : all[i] \in E
  OBVIOUS
<1>1. <<>> \in V /\ \A v \in V : \A x \in E : KeepVisible(v, x) \in V
  <2>1. <<>> \in V
    OBVIOUS
  <2>2. ASSUME NEW v \in V, NEW x \in E PROVE KeepVisible(v, x) \in V
    <3>1. CASE x.visible
      <4>1. x \in Vis /\ KeepVisible(v, x) = Append(v, x)
        BY <3>1 DEF KeepVisible
      <4>. HIDE DEF Vis
      <4>. QED BY <4>1
    <3>2. CASE ~x.visible
      BY <3>2 DEF KeepVisible
    <3>. QED BY <3>1, <3>2
  <2>. HIDE DEF V
  <2>. QED BY <2>1, <2>2
<1>. HIDE DEF V
<1>2. PICK run : /\ run[0] = <<>>
                 /\ \A k \in 0 .. n - 1 : run[k + 1] = KeepVisible(run[k], all[k + 1])
                 /\ \A k \in 0 .. n : run[k] \in V
                 /\ shown = run[n]
  BY <1>1, KeepVisibleRuns
<1>. HIDE DEF n
<1>. DEFINE ShownOf(k) ==
                /\ \A j \in DOMAIN run[k] : \E i \in 1 .. k : run[k][j] = all[i]
                /\ \A i \in 1 .. k : all[i].visible => \E j \in DOMAIN run[k] : run[k][j] = all[i]
                /\ \A h, i \in 1 .. k : h < i /\ all[h].visible /\ all[i].visible =>
                      \E a, b \in DOMAIN run[k] : a < b /\ run[k][a] = all[h] /\ run[k][b] = all[i]
            Q == {k \in 0 .. n : ShownOf(k)}
<1>3. 0 \in Q
  <2>1. ShownOf(0)
    <3>1. 1 .. 0 = {} /\ DOMAIN run[0] = {}
      BY <1>2
    <3>. QED BY <3>1
  <2>2. 0 \in 0 .. n
    BY <1>0
  <2>. HIDE DEF ShownOf
  <2>. QED BY <2>1, <2>2
<1>4. ASSUME NEW k \in 0 .. n - 1, ShownOf(k) PROVE ShownOf(k + 1)
  <2>. DEFINE e == all[k + 1]
              old == run[k]
              new == run[k + 1]
  <2>1. /\ k \in Nat /\ k + 1 \in 1 .. n /\ e \in E /\ old \in Seq(Vis) /\ k \in 0 .. n
        /\ new = KeepVisible(old, e)
    BY <1>0, <1>2 DEF V
  <2>2. /\ \A i \in 1 .. k + 1 : i \in 1 .. k \/ i = k + 1
        /\ k + 1 \in 1 .. k + 1 /\ \A i \in 1 .. k : i \in 1 .. k + 1 /\ i < k + 1
    BY <2>1
  <2>3. CASE ~e.visible
    <3>1. new = old
      BY <2>1, <2>3 DEF KeepVisible
    <3>2. \A h, i \in 1 .. k + 1 : h < i /\ all[h].visible /\ all[i].visible => h \in 1 .. k /\ i \in 1 .. k
      BY <2>2, <2>3
    <3>. HIDE DEF new, old
    <3>. QED BY <1>4, <2>2, <2>3, <3>1, <3>2 DEF new, old
  <2>4. CASE e.visible
    <3>. DEFINE m == Len(old)
    <3>1. new = Append(old, e)
      BY <2>1, <2>4 DEF KeepVisible
    <3>2. /\ m \in Nat /\ DOMAIN old = 1 .. m /\ DOMAIN new = 1 .. m + 1
          /\ new[m + 1] = e /\ \A j \in 1 .. m : new[j] = old[j]
          /\ \A j \in 1 .. m + 1 : j \in 1 .. m \/ j = m + 1
          /\ m + 1 \in 1 .. m + 1 /\ \A j \in 1 .. m : j \in 1 .. m + 1 /\ j < m + 1
      <4>. HIDE DEF e, old, new
      <4>1. e \in Vis
        BY <2>1, <2>4
      <4>. QED BY <2>1, <3>1, <4>1
    <3>. HIDE DEF m, new, old, e
    <3>3. \A j \in DOMAIN new : \E i \in 1 .. k + 1 : new[j] = all[i]
      <4>. TAKE j \in DOMAIN new
      <4>1. CASE j \in 1 .. m
        <5>1. \E i \in 1 .. k : old[j] = all[i]
          BY <1>4, <3>2, <4>1 DEF old
        <5>. QED BY <2>2, <3>2, <4>1, <5>1
      <4>2. CASE j = m + 1
        BY <2>2, <3>2, <4>2 DEF e
      <4>. QED BY <3>2, <4>1, <4>2
    <3>4. ASSUME NEW i \in 1 .. k, all[i].visible PROVE \E j \in 1 .. m : new[j] = all[i]
      <4>1. \E j \in DOMAIN old : old[j] = all[i]
        BY <1>4, <3>4 DEF old
      <4>. QED BY <3>2, <4>1
    <3>5. ASSUME NEW i \in 1 .. k + 1, all[i].visible PROVE \E j \in DOMAIN new : new[j] = all[i]
      <4>1. CASE i \in 1 .. k
        BY <3>2, <3>4, <3>5, <4>1
      <4>2. CASE i = k + 1
        BY <3>2, <4>2 DEF e
      <4>. QED BY <2>2, <4>1, <4>2
    <3>6. ASSUME NEW h \in 1 .. k + 1, NEW i \in 1 .. k + 1, h < i, all[h].visible, all[i].visible
          PROVE  \E a, b \in DOMAIN new : a < b /\ new[a] = all[h] /\ new[b] = all[i]
      <4>0. h \in 1 .. k
        BY <2>1, <3>6
      <4>1. CASE i \in 1 .. k
        <5>1. \E a, b \in DOMAIN old : a < b /\ old[a] = all[h] /\ old[b] = all[i]
          BY <1>4, <3>6, <4>0, <4>1 DEF old
        <5>. QED BY <3>2, <5>1
      <4>2. CASE i = k + 1
        <5>1. PICK a \in 1 .. m : new[a] = all[h]
          BY <3>4, <3>6, <4>0
        <5>2. a < m + 1 /\ new[m + 1] = all[i]
          BY <3>2, <4>2 DEF e
        <5>. QED BY <3>2, <5>1, <5>2
      <4>. QED BY <2>2, <4>1, <4>2
    <3>. QED BY <3>3, <3>5, <3>6 DEF new
  <2>. QED BY <2>3, <2>4
<1>5. \A k \in 0 .. n - 1 : k \in Q => k + 1 \in Q
  <2>. TAKE k \in 0 .. n - 1
  <2>1. k + 1 \in 0 .. n
    BY <1>0
  <2>. HIDE DEF ShownOf
  <2>. QED BY <1>4, <2>1
<1>6. ShownOf(n) /\ run[n] \in V
  <2>1. n \in 0 .. n
    BY <1>0
  <2>. HIDE DEF Q
  <2>2. n \in Q
    BY <1>0, <1>3, <1>5, <2>1, InductionUpTo
  <2>. QED BY <1>2, <2>1, <2>2 DEF Q
<1>7. shown = run[n] /\ DOMAIN all = 1 .. n
  BY <1>0, <1>2
<1>. HIDE DEF n
<1>8. shown \in Seq({e \in E : e.visible})
  BY <1>6, <1>7 DEF V
<1>9. \A j \in DOMAIN shown : \E i \in DOMAIN all : shown[j] = all[i]
  BY <1>6, <1>7
<1>10. \A h, i \in DOMAIN all : h < i /\ all[h].visible /\ all[i].visible =>
          \E j, k \in DOMAIN shown : j < k /\ shown[j] = all[h] /\ shown[k] = all[i]
  BY <1>6, <1>7
<1>. QED BY <1>8, <1>9, <1>10

\* Sequences put together.
LEMMA FlatSequences ==
    ASSUME NEW C, NEW seqs \in Seq(Seq(C))
    PROVE  FlattenSeq(seqs) \in Seq(C)
<1>. DEFINE n == Len(seqs)
<1>0. n \in Nat /\ DOMAIN seqs = 1 .. n /\ \A i \in 1 .. n : seqs[i] \in Seq(C)
  OBVIOUS
<1>1. CASE n = 0
  <2>1. FlattenSeq(seqs) = seqs
    BY <1>1 DEF FlattenSeq
  <2>2. seqs = <<>>
    BY <1>1
  <2>. QED BY <2>1, <2>2
<1>2. CASE n # 0
  <2>. DEFINE body(f) == [i \in 1 .. n |-> IF i = 1 THEN seqs[i] ELSE f[i - 1] \o seqs[i]]
              flatten == CHOOSE f : f = body(f)
              step == [p \in (SUBSET (1 .. n)) \X Seq(C) |-> p[2] \o seqs[Max(p[1])]]
  <2>1. FlattenSeq(seqs) = flatten[n]
    BY <1>2 DEF FlattenSeq
  <2>2. \A T \in SUBSET (1 .. n) : \A v \in Seq(C) : T # {} =>
           step[<<T, v>>] = v \o seqs[Max(T)] /\ step[<<T, v>>] \in Seq(C)
    <3>. TAKE T \in SUBSET (1 .. n)
    <3>. TAKE v \in Seq(C)
    <3>. HAVE T # {}
    <3>1. Max(T) \in T
      BY <1>0, GreatestOfSet
    <3>2. seqs[Max(T)] \in Seq(C)
      BY ONLY <1>0, <3>1, T \in SUBSET (1 .. n)
    <3>3. v \o seqs[Max(T)] \in Seq(C)
      BY ONLY <3>2, v \in Seq(C)
    <3>4. step[<<T, v>>] = v \o seqs[Max(T)]
      OBVIOUS
    <3>. QED BY <3>3, <3>4
  <2>. HIDE DEF step
  <2>3. PICK g \in [SUBSET (1 .. n) -> Seq(C)] :
           /\ g[{}] = <<>>
           /\ \A T \in SUBSET (1 .. n) : T # {} => g[T] = step[<<T, g[T \ {Max(T)}]>>]
    <3>1. \A T \in SUBSET (1 .. n) : \A v \in Seq(C) : T # {} => step[<<T, v>>] \in Seq(C)
      BY <2>2
    <3>2. n \in Nat /\ <<>> \in Seq(C)
      BY <1>0
    <3>. HIDE DEF n
    <3>3. \E g \in [SUBSET (1 .. n) -> Seq(C)] : Folds(g, 1 .. n, <<>>, step)
      BY ONLY <3>1, <3>2, FoldExists
    <3>. QED BY <3>3 DEF Folds
  <2>. HIDE DEF n
  <2>. DEFINE f == [i \in 1 .. n |-> g[1 .. i]]
  <2>4. ASSUME NEW i \in 1 .. n
        PROVE  f[i] = IF i = 1 THEN seqs[i] ELSE f[i - 1] \o seqs[i]
    <3>1. /\ i \in Nat /\ i - 1 \in Nat /\ (i - 1) + 1 = i /\ i <= n /\ 1 <= i
          /\ i # 1 => i - 1 \in 1 .. n
      BY <1>0
    <3>2. Max(1 .. i) = i /\ (1 .. i) \ {i} = 1 .. i - 1
      BY <3>1, GreatestOfPrefix
    <3>3. 1 .. i \in SUBSET (1 .. n) /\ 1 .. i # {} /\ 1 .. i - 1 \in SUBSET (1 .. n)
      <4>1. \A j \in 1 .. i : j \in 1 .. n
        BY ONLY <1>0, <3>1
      <4>2. i \in 1 .. i
        BY ONLY <3>1
      <4>3. \A j \in 1 .. i - 1 : j \in 1 .. n
        BY ONLY <1>0, <3>1
      <4>. QED BY <4>1, <4>2, <4>3
    <3>4. g[1 .. i] = g[1 .. i - 1] \o seqs[i]
      <4>1. g[1 .. i] = step[<<1 .. i, g[1 .. i - 1]>>] /\ g[1 .. i - 1] \in Seq(C)
        BY <2>3, <3>2, <3>3
      <4>. QED BY <2>2, <3>2, <3>3, <4>1
    <3>5. CASE i = 1
      <4>1. 1 .. i - 1 = {}
        BY <3>5
      <4>2. g[1 .. i] = <<>> \o seqs[i]
        BY <2>3, <3>4, <4>1
      <4>3. <<>> \o seqs[i] = seqs[i]
        BY <1>0
      <4>. QED BY <3>5, <4>2, <4>3
    <3>6. CASE i # 1
      BY <3>1, <3>4, <3>6
    <3>. QED BY <3>5, <3>6
  <2>5. f = body(f)
    <3>1. f = [i \in 1 .. n |-> f[i]]
      OBVIOUS
    <3>. HIDE DEF f
    <3>. QED BY <2>4, <3>1
  <2>6. flatten = body(flatten)
    <3>. HIDE DEF body, f
    <3>. QED BY <2>5
  <2>. HIDE DEF flatten, f
  <2>. DEFINE Q == {i \in 0 .. n : i = 0 \/ flatten[i] \in Seq(C)}
  <2>7. ASSUME NEW i \in 0 .. n - 1, i \in Q PROVE i + 1 \in Q
    <3>1. i + 1 \in 1 .. n /\ i + 1 \in 0 .. n /\ (i + 1) - 1 = i /\ (i + 1 = 1 <=> i = 0)
      BY <1>0
    <3>2. flatten[i + 1] = IF i = 0 THEN seqs[i + 1] ELSE flatten[i] \o seqs[i + 1]
      BY <2>6, <3>1
    <3>3. seqs[i + 1] \in Seq(C) /\ (i # 0 => flatten[i] \in Seq(C))
      BY <1>0, <2>7, <3>1
    <3>4. flatten[i + 1] \in Seq(C)
      BY <3>2, <3>3
    <3>. QED BY <3>1, <3>4
  <2>8. 0 \in Q
    BY <1>0
  <2>9. n \in Q
    <3>1. n \in 0 .. n
      BY <1>0
    <3>. HIDE DEF Q
    <3>. QED BY <1>0, <2>7, <2>8, <3>1, InductionUpTo
  <2>. QED BY <1>2, <2>1, <2>9
<1>. QED BY <1>1, <1>2

\* What one visible element is counted under, no two visible elements of the snapshot are.
LEMMA AtMostOne ==
    ASSUME NEW E, NEW all \in Seq(E), NEW shown, shown = FoldLeft(KeepVisible, <<>>, all),
           NEW P, One({j \in DOMAIN shown : shown[j] \in P}),
           NEW M, M \subseteq {i \in DOMAIN all : all[i].visible /\ all[i] \in P}
    PROVE  Cardinality(M) <= 1
<1>. DEFINE S == {j \in DOMAIN shown : shown[j] \in P}
<1>1. /\ shown \in Seq({e \in E : e.visible})
      /\ \A h, i \in DOMAIN all : h < i /\ all[h].visible /\ all[i].visible =>
            \E j, k \in DOMAIN shown : j < k /\ shown[j] = all[h] /\ shown[k] = all[i]
  BY TheVisibleAreShown
<1>2. Len(shown) \in Nat /\ DOMAIN shown = 1 .. Len(shown) /\ DOMAIN all \subseteq Int
  BY <1>1
<1>3. IsFiniteSet(S)
  <2>1. IsFiniteSet(1 .. Len(shown))
    BY <1>2, FS_Interval
  <2>2. S \in SUBSET (1 .. Len(shown))
    BY <1>2
  <2>. HIDE DEF S
  <2>. QED BY <2>1, <2>2, FS_Subset
<1>4. PICK s : S = {s}
  <2>1. Cardinality(S) = 1
    BY DEF One
  <2>. HIDE DEF S
  <2>. QED BY <1>3, <2>1, FS_Singleton
<1>5. ASSUME NEW h \in M, NEW i \in M, h < i PROVE FALSE
  <2>1. h \in DOMAIN all /\ i \in DOMAIN all /\ all[h] \in P /\ all[i] \in P /\ all[h].visible /\ all[i].visible
    OBVIOUS
  <2>2. PICK j \in DOMAIN shown, k \in DOMAIN shown : j < k /\ shown[j] = all[h] /\ shown[k] = all[i]
    BY <1>1, <1>5, <2>1
  <2>3. j \in S /\ k \in S
    BY <2>1, <2>2
  <2>4. j \in Int /\ k \in Int
    BY <1>2, <2>2
  <2>. HIDE DEF S
  <2>. QED BY <1>4, <2>2, <2>3, <2>4
<1>6. \A h, i \in M : h = i
  <2>1. \A h, i \in M : h \in Int /\ i \in Int
    BY <1>2
  <2>. QED BY <1>5, <2>1
<1>7. CASE M = {}
  BY <1>7, FS_EmptySet
<1>8. CASE M # {}
  <2>1. PICK m : m \in M
    BY <1>8
  <2>2. M = {m}
    BY <1>6, <2>1
  <2>3. Cardinality(M) = 1
    BY ONLY <2>2, FS_Singleton
  <2>. QED BY <2>3
<1>. QED BY <1>7, <1>8

\* One is not none.
LEMMA OneIsSome ==
    ASSUME NEW S, One(S)
    PROVE  S # {}
<1>1. Cardinality({}) = 0
  BY FS_EmptySet
<1>. QED BY <1>1 DEF One

\* Six sequences in a row.
LEMMA SixSequences ==
    ASSUME NEW C, NEW u \in Seq(C), NEW v \in Seq(C), NEW w \in Seq(C), NEW x \in Seq(C),
           NEW y \in Seq(C), NEW z \in Seq(C)
    PROVE  u \o v \o w \o x \o y \o z \in Seq(C)
<1>1. \A s, t \in Seq(C) : s \o t \in Seq(C)
  OBVIOUS
<1>. QED BY ONLY <1>1, u \in Seq(C), v \in Seq(C), w \in Seq(C), x \in Seq(C), y \in Seq(C), z \in Seq(C)

\* Seeds of a snapshot that count as they should.
SeedsFor(all) ==
    {s \in [locator : StructuredLocator, strategy : DOMAIN Reliability,
            unique : BOOLEAN, role : BOOLEAN, named : BOOLEAN] :
        UniquenessIsCounted(s, all) => Cardinality(Matched(s.locator, all)) <= 1}

\* A visible element gives no others.
LEMMA SeedsCount ==
    ASSUME NEW all \in Seq(SnapshotElement), NEW type,
           NEW shown, shown = FoldLeft(KeepVisible, <<>>, all), NEW i \in DOMAIN shown
    PROVE  SeedsOf(type, shown, i) \in Seq(SeedsFor(all))
<1>. DEFINE e    == shown[i]
            name == Normal(e.name)
            text == Normal(e.text)
            new(l, strategy, unique) ==
                [locator |-> l, strategy |-> strategy, unique |-> unique,
                 role |-> e.role # None, named |-> name # None]
            seed(given, l, strategy, unique) ==
                IF given /\ Describable(l) THEN <<new(l, strategy, unique)>> ELSE <<>>
            sameTestId == {j \in DOMAIN shown : TestIdKey(shown[j]) = <<"data-testid", e.testId>>}
            sameTest   == {j \in DOMAIN shown : TestIdKey(shown[j]) = <<"data-test", e.test>>}
            sameName   == {j \in DOMAIN shown : shown[j].role = e.role /\ shown[j].name = name}
            sameText   == {j \in DOMAIN shown : shown[j].text = text}
            samePath   == {j \in DOMAIN shown : shown[j].css = e.css}
            G == SeedsFor(all)
            byTestId == seed(e.testId # None, Locator("testId", e.testId, None), "testId", One(sameTestId))
            byTest   == seed(e.test # None, Locator("testId", e.test, None), "testId", One(sameTest))
            byRole   == seed(e.role # None /\ name # None /\ RoleCompatible(type, e.role),
                             Locator("role", e.role, name), "roleName", One(sameName))
            byLabel  == seed(name # None /\ e.labelled, Locator("label", name, None), "ariaLabel", TRUE)
            byText   == seed(text # None /\ type \in {"click", "read", "wait", "unknown"} /\ text \notin Generic,
                             Locator("text", text, None), "text", One(sameText))
            byPath   == seed(e.css # None, Locator("css", e.css, None), "cssFallback", One(samePath))
<1>1. /\ shown \in Seq({x \in SnapshotElement : x.visible})
      /\ \A j \in DOMAIN shown : \E k \in DOMAIN all : shown[j] = all[k]
  BY TheVisibleAreShown
<1>2. \A j \in DOMAIN shown : shown[j] \in SnapshotElement
  BY <1>1
<1>3. /\ e.testId \in Phrase /\ e.test \in Phrase /\ e.role \in Phrase /\ e.css \in Phrase
      /\ name \in Phrase /\ text \in Phrase
  BY <1>2 DEF SnapshotElement, Normal, Phrase
<1>. HIDE DEF e, name, text
<1>4. ASSUME NEW kind \in {"testId", "role", "label", "text", "css"},
             NEW value \in Phrase, NEW called \in Phrase, NEW unique \in BOOLEAN,
             NEW strategy \in DOMAIN Reliability,
             UniquenessIsCounted(new(Locator(kind, value, called), strategy, unique), all)
                 => Cardinality(Matched(Locator(kind, value, called), all)) <= 1
      PROVE  new(Locator(kind, value, called), strategy, unique) \in G
  <2>. DEFINE l == Locator(kind, value, called)
              s == new(l, strategy, unique)
  <2>1. kind \in Range(Kinds)
    <3>1. \A n \in 1 .. 7 : Kinds[n] \in Range(Kinds)
      BY DEF Range, Kinds
    <3>. QED BY <3>1 DEF Kinds
  <2>2. l \in StructuredLocator
    BY <2>1 DEF Locator, StructuredLocator
  <2>. HIDE DEF l
  <2>3. s \in [locator : StructuredLocator, strategy : DOMAIN Reliability,
               unique : BOOLEAN, role : BOOLEAN, named : BOOLEAN]
    BY <2>2
  <2>4. s.locator = l
    OBVIOUS
  <2>. HIDE DEF s
  <2>. QED BY <1>4, <2>3, <2>4 DEF SeedsFor, l, s
<1>. HIDE DEF new
<1>5. \A given : \A s \in G : (IF given THEN <<s>> ELSE <<>>) \in Seq(G)
  OBVIOUS
<1>6. /\ "testId" \in DOMAIN Reliability /\ "roleName" \in DOMAIN Reliability
      /\ "ariaLabel" \in DOMAIN Reliability /\ "text" \in DOMAIN Reliability
      /\ "cssFallback" \in DOMAIN Reliability /\ None \in Phrase
  BY DEF Reliability, Phrase
<1>7. \A set : One(set) \in BOOLEAN
  BY DEF One
<1>8. \A l, strategy, unique : /\ new(l, strategy, unique).unique = unique
                               /\ new(l, strategy, unique).strategy = strategy
  BY DEF new
<1>. HIDE DEF G
<1>9. byTestId \in Seq(G)
  <2>. DEFINE l == Locator("testId", e.testId, None)
              P == {x \in SnapshotElement : TestIdKey(x) = <<"data-testid", e.testId>>}
  <2>1. ASSUME e.testId # None, One(sameTestId) PROVE Cardinality(Matched(l, all)) <= 1
    <3>1. sameTestId = {j \in DOMAIN shown : shown[j] \in P}
      BY <1>2
    <3>2. Matched(l, all) \subseteq {k \in DOMAIN all : all[k].visible /\ all[k] \in P}
      BY <2>1 DEF Matched, Locator, TestIdKey
    <3>3. One({j \in DOMAIN shown : shown[j] \in P})
      BY ONLY <2>1, <3>1
    <3>. HIDE DEF P, l
    <3>. QED BY <3>2, <3>3, AtMostOne
  <2>2. CASE e.testId # None
    <3>1. new(l, "testId", One(sameTestId)) \in G
      BY <1>3, <1>4, <1>6, <1>7, <1>8, <2>1, <2>2 DEF UniquenessIsCounted
    <3>. QED BY <1>5, <3>1
  <2>. QED BY <2>2
<1>10. byTest \in Seq(G)
  <2>. DEFINE l == Locator("testId", e.test, None)
              s == new(l, "testId", One(sameTest))
  <2>1. ASSUME e.test # None, UniquenessIsCounted(s, all) PROVE Matched(l, all) = {}
    <3>1. SUFFICES ASSUME NEW k \in Matched(l, all) PROVE FALSE
      OBVIOUS
    <3>2. k \in DOMAIN all /\ all[k].testId = e.test
      BY DEF Matched, Locator
    <3>3. TestIdKey(all[k])[1] = "data-testid"
      BY <2>1, <3>2 DEF TestIdKey
    <3>4. One(sameTest)
      BY <1>8, <2>1 DEF UniquenessIsCounted
    <3>5. sameTest # {}
      BY <3>4, OneIsSome
    <3>6. PICK j \in DOMAIN shown : TestIdKey(shown[j])[1] = "data-test"
      BY <3>5
    <3>7. PICK m \in DOMAIN all : TestIdKey(all[m])[1] = "data-test"
      BY <1>1, <3>6
    <3>8. {"data-testid", "data-test"} \subseteq {TestIdKey(all[n])[1] : n \in DOMAIN all}
      BY <3>2, <3>3, <3>7
    <3>. QED BY <1>8, <2>1, <3>8 DEF UniquenessIsCounted
  <2>2. CASE e.test # None
    <3>1. Cardinality({}) <= 1
      BY FS_EmptySet
    <3>2. new(l, "testId", One(sameTest)) \in G
      BY <1>3, <1>4, <1>6, <1>7, <2>1, <2>2, <3>1
    <3>. QED BY <1>5, <3>2
  <2>. QED BY <2>2
<1>11. byRole \in Seq(G)
  <2>. DEFINE l == Locator("role", e.role, name)
              P == {x \in SnapshotElement : x.role = e.role /\ x.name = name}
  <2>1. ASSUME One(sameName) PROVE Cardinality(Matched(l, all)) <= 1
    <3>1. sameName = {j \in DOMAIN shown : shown[j] \in P}
      BY <1>2
    <3>2. Matched(l, all) \subseteq {k \in DOMAIN all : all[k].visible /\ all[k] \in P}
      BY DEF Matched, Locator
    <3>3. One({j \in DOMAIN shown : shown[j] \in P})
      BY ONLY <2>1, <3>1
    <3>. HIDE DEF P, l
    <3>. QED BY <3>2, <3>3, AtMostOne
  <2>2. new(l, "roleName", One(sameName)) \in G
    BY <1>3, <1>4, <1>6, <1>7, <1>8, <2>1 DEF UniquenessIsCounted
  <2>. QED BY <1>5, <2>2
<1>12. byLabel \in Seq(G)
  <2>. DEFINE l == Locator("label", name, None)
              s == new(l, "ariaLabel", TRUE)
  <2>1. ~UniquenessIsCounted(s, all)
    <3>1. s.strategy = "ariaLabel"
      BY DEF new
    <3>. HIDE DEF s
    <3>. QED BY <3>1 DEF UniquenessIsCounted
  <2>2. new(l, "ariaLabel", TRUE) \in G
    BY <1>3, <1>4, <1>6, <2>1
  <2>. QED BY <1>5, <2>2
<1>13. byText \in Seq(G)
  <2>. DEFINE l == Locator("text", text, None)
              P == {x \in SnapshotElement : x.text = text}
  <2>1. ASSUME One(sameText) PROVE Cardinality(Matched(l, all)) <= 1
    <3>1. sameText = {j \in DOMAIN shown : shown[j] \in P}
      BY <1>2
    <3>2. Matched(l, all) \subseteq {k \in DOMAIN all : all[k].visible /\ all[k] \in P}
      BY DEF Matched, Locator
    <3>3. One({j \in DOMAIN shown : shown[j] \in P})
      BY ONLY <2>1, <3>1
    <3>. HIDE DEF P, l
    <3>. QED BY <3>2, <3>3, AtMostOne
  <2>2. new(l, "text", One(sameText)) \in G
    BY <1>3, <1>4, <1>6, <1>7, <1>8, <2>1 DEF UniquenessIsCounted
  <2>. QED BY <1>5, <2>2
<1>14. byPath \in Seq(G)
  <2>. DEFINE l == Locator("css", e.css, None)
              P == {x \in SnapshotElement : x.css = e.css}
  <2>1. ASSUME One(samePath) PROVE Cardinality(Matched(l, all)) <= 1
    <3>1. samePath = {j \in DOMAIN shown : shown[j] \in P}
      BY <1>2
    <3>2. Matched(l, all) \subseteq {k \in DOMAIN all : all[k].visible /\ all[k] \in P}
      BY DEF Matched, Locator
    <3>3. One({j \in DOMAIN shown : shown[j] \in P})
      BY ONLY <2>1, <3>1
    <3>. HIDE DEF P, l
    <3>. QED BY <3>2, <3>3, AtMostOne
  <2>2. new(l, "cssFallback", One(samePath)) \in G
    BY <1>3, <1>4, <1>6, <1>7, <1>8, <2>1 DEF UniquenessIsCounted
  <2>. QED BY <1>5, <2>2
<1>15. SeedsOf(type, shown, i) = byTestId \o byTest \o byRole \o byLabel \o byText \o byPath
  BY DEF SeedsOf, e, name, text, new
<1>. HIDE DEF byTestId, byTest, byRole, byLabel, byText, byPath
<1>. HIDE DEF seed, sameTestId, sameTest, sameName, sameText, samePath
<1>16. SeedsOf(type, shown, i) \in Seq(G)
  <2>1. byTestId \o byTest \o byRole \o byLabel \o byText \o byPath \in Seq(G)
    BY ONLY <1>9, <1>10, <1>11, <1>12, <1>13, <1>14, SixSequences
  <2>. QED BY <1>15, <2>1
<1>. QED BY <1>16 DEF G

\* The seeds of a snapshot.
LEMMA DomSeedsCount ==
    ASSUME NEW all \in Seq(SnapshotElement), NEW type
    PROVE  DomSeeds(type, all) \in Seq(SeedsFor(all))
<1>. DEFINE shown == FoldLeft(KeepVisible, <<>>, all)
            seqs == [i \in DOMAIN shown |-> SeedsOf(type, shown, i)]
            G == SeedsFor(all)
<1>1. shown \in Seq({e \in SnapshotElement : e.visible})
  BY TheVisibleAreShown
<1>2. \A i \in DOMAIN shown : SeedsOf(type, shown, i) \in Seq(G)
  BY SeedsCount
<1>3. DomSeeds(type, all) = FirstOfEach(FlattenSeq(seqs))
  BY DEF DomSeeds
<1>. HIDE DEF shown, G
<1>4. seqs \in Seq(Seq(G))
  BY <1>1, <1>2
<1>. HIDE DEF seqs
<1>5. FlattenSeq(seqs) \in Seq(G)
  BY <1>4, FlatSequences
<1>6. FirstOfEach(FlattenSeq(seqs)) \in Seq(G)
  BY <1>5, FirstOfEachDiffer
<1>. QED BY <1>3, <1>6 DEF G

\* Seeds of a failed target.
HeuristicSeed == [locator : StructuredLocator, strategy : DOMAIN BaseSignal]

\* One thing given away gives one of them, or none.
LEMMA SeedIsOne ==
    ASSUME NEW given, NEW kind \in Range(Kinds), NEW value \in Phrase, NEW called \in Phrase,
           NEW strategy \in DOMAIN BaseSignal
    PROVE  Seed(given, Locator(kind, value, called), strategy) \in Seq(HeuristicSeed)
<1>. DEFINE s == [locator |-> Locator(kind, value, called), strategy |-> strategy]
<1>1. s \in HeuristicSeed
  BY DEF HeuristicSeed, Locator, StructuredLocator
<1>2. Seed(given, Locator(kind, value, called), strategy) \in {<<s>>, <<>>}
  BY DEF Seed
<1>. HIDE DEF s
<1>3. <<s>> \in Seq(HeuristicSeed) /\ <<>> \in Seq(HeuristicSeed)
  BY <1>1
<1>4. \A x : x \in {<<s>>, <<>>} => x \in Seq(HeuristicSeed)
  BY ONLY <1>3
<1>. QED BY <1>2, <1>4

\* The seeds of a failed target, each of another locator.
LEMMA CreateSeedsDiffer ==
    ASSUME RankingAssumption, NEW type, NEW t \in FailedTarget
    PROVE  /\ CreateSeeds(type, t) \in Seq(HeuristicSeed)
           /\ \A i, j \in DOMAIN CreateSeeds(type, t) :
                 CreateSeeds(type, t)[i].locator = CreateSeeds(type, t)[j].locator => i = j
<1>. DEFINE role == RoleForAction(type)
            fall == GenericFallback(type)
            a == <<[locator |-> t.locator, strategy |-> "original"]>>
            b == Seed(t.testId, Locator("testId", t.testId, None), "testId")
            c == Seed(t.id, Locator("testId", t.id, None), "testId")
            d == Seed(t.id, Locator("roleRegex", role, t.id), "roleName")
            e == Seed(t.id, Locator("label", t.id, None), "ariaLabel")
            f == Seed(t.shown, Locator("text", t.shown, None), "text")
            g == Seed(t.shown, Locator("roleRegex", role, t.shown), "roleName")
            h == Seed(t.class, Locator("css", t.class, None), "cssFallback")
            last == Seed("fallback", fall, "fallback")
            six == a \o b \o c \o d \o e \o f
            first == IF t.text = None THEN <<>> ELSE six \o g \o h
            G == HeuristicSeed
<1>1. /\ t.testId \in Phrase /\ t.id \in Phrase /\ t.shown \in Phrase /\ t.class \in Phrase
      /\ t.locator \in StructuredLocator /\ None \in Phrase
  BY DEF FailedTarget, Phrase
<1>2. {"button", "textbox", "status", "body"} \subseteq Phrase
  BY DEF RankingAssumption, Phrase
<1>3. role \in Phrase
  BY <1>2 DEF RoleForAction
<1>4. \A kind \in {"testId", "role", "roleRegex", "label", "text", "css"} : kind \in Range(Kinds)
  <2>1. \A n \in 1 .. 7 : Kinds[n] \in Range(Kinds)
    BY DEF Range, Kinds
  <2>. QED BY <2>1 DEF Kinds
<1>5. {"original", "testId", "roleName", "ariaLabel", "text", "cssFallback", "fallback"} \subseteq DOMAIN BaseSignal
  BY DEF BaseSignal
<1>6. a \in Seq(G)
  BY <1>1, <1>5 DEF HeuristicSeed
<1>. HIDE DEF role
<1>7. b \in Seq(G)
  BY <1>1, <1>4, <1>5, SeedIsOne
<1>8. c \in Seq(G)
  BY <1>1, <1>4, <1>5, SeedIsOne
<1>9. d \in Seq(G)
  BY <1>1, <1>3, <1>4, <1>5, SeedIsOne
<1>10. e \in Seq(G)
  BY <1>1, <1>4, <1>5, SeedIsOne
<1>11. f \in Seq(G)
  BY <1>1, <1>4, <1>5, SeedIsOne
<1>12. g \in Seq(G)
  BY <1>1, <1>3, <1>4, <1>5, SeedIsOne
<1>13. h \in Seq(G)
  BY <1>1, <1>4, <1>5, SeedIsOne
<1>14. last \in Seq(G)
  <2>1. fall \in {Locator("role", "button", None), Locator("role", "textbox", None), Locator("css", "body", None)}
    BY DEF GenericFallback
  <2>2. PICK kind \in {"role", "css"}, value \in {"button", "textbox", "body"} : fall = Locator(kind, value, None)
    BY <2>1
  <2>3. Seed("fallback", Locator(kind, value, None), "fallback") \in Seq(G)
    BY <1>1, <1>2, <1>4, <1>5, SeedIsOne
  <2>. QED BY <2>2, <2>3
<1>15. CreateSeeds(type, t) = FirstOfEach(first \o last)
  BY DEF CreateSeeds, role
<1>. HIDE DEF a, b, c, d, e, f, g, h, last, G
<1>16. six \in Seq(G)
  BY ONLY <1>6, <1>7, <1>8, <1>9, <1>10, <1>11, SixSequences DEF six
<1>. HIDE DEF six
<1>17. first \in Seq(G)
  BY <1>12, <1>13, <1>16
<1>. HIDE DEF first
<1>18. first \o last \in Seq(G)
  BY <1>14, <1>17
<1>. HIDE DEF role, fall
<1>. DEFINE seeds == first \o last
<1>19. seeds \in Seq(G)
  BY <1>18
<1>20. CreateSeeds(type, t) = FirstOfEach(seeds)
  BY <1>15
<1>. HIDE DEF seeds
<1>21. FirstOfEach(seeds) \in Seq(G)
  BY <1>19, FirstOfEachDiffer
<1>22. \A i, j \in DOMAIN FirstOfEach(seeds) :
          FirstOfEach(seeds)[i].locator = FirstOfEach(seeds)[j].locator => i = j
  BY <1>19, FirstOfEachDiffer
<1>. QED BY <1>20, <1>21, <1>22 DEF G

\* How alike two texts are is a number.
LEMMA SimilarityIsInteger ==
    ASSUME NEW l \in StructuredLocator, NEW t \in FailedTarget, IsFiniteSet(t.words)
    PROVE  SimilaritySignal(l, t) \in Int
<1>. DEFINE words == Words(l, t)
<1>1. IsFiniteSet(words)
  <2>1. IsFiniteSet({})
    BY FS_EmptySet
  <2>2. \A x, y, z : IsFiniteSet({x, y, z})
    <3>. TAKE x, y, z
    <3>1. IsFiniteSet({x}) /\ {x, y} = {x} \cup {y} /\ {x, y, z} = {x, y} \cup {z}
      BY FS_Singleton
    <3>2. IsFiniteSet({x, y})
      BY <3>1, FS_AddElement
    <3>. QED BY <3>1, <3>2, FS_AddElement
  <2>3. \A x, y, z, v, w : IsFiniteSet({x, y, z, v, w})
    <3>. TAKE x, y, z, v, w
    <3>1. IsFiniteSet({x, y, z}) /\ {x, y, z, v} = {x, y, z} \cup {v} /\ {x, y, z, v, w} = {x, y, z, v} \cup {w}
      BY <2>2
    <3>2. IsFiniteSet({x, y, z, v})
      BY <3>1, FS_AddElement
    <3>. QED BY <3>1, <3>2, FS_AddElement
  <2>4. CASE l.kind = "raw"
    BY <2>4 DEF Words
  <2>5. CASE l.kind \in {"role", "roleRegex"} /\ l.name # None
    BY <2>3, <2>5 DEF Words
  <2>6. CASE l.kind # "raw" /\ ~(l.kind \in {"role", "roleRegex"} /\ l.name # None)
    BY <2>2, <2>6 DEF Words
  <2>. QED BY <2>4, <2>5, <2>6
<1>2. CASE t.text = None
  <2>1. SimilaritySignal(l, t) = Million \div 2
    BY <1>2 DEF SimilaritySignal
  <2>. QED BY <2>1 DEF Million
<1>3. CASE t.text # None /\ t.words = {}
  BY <1>3 DEF SimilaritySignal
<1>4. CASE t.text # None /\ t.words # {}
  <2>. DEFINE m == Cardinality(words \cap t.words)
              n == Cardinality(words \cup t.words)
  <2>1. SimilaritySignal(l, t) = (m * Million) \div n
    BY <1>4 DEF SimilaritySignal
  <2>. HIDE DEF words
  <2>2. words \cap t.words \in SUBSET t.words
    OBVIOUS
  <2>3. m \in Nat
    BY <2>2, FS_Subset, FS_CardinalityType
  <2>4. IsFiniteSet(words \cup t.words) /\ words \cup t.words # {}
    BY <1>1, <1>4, FS_Union
  <2>5. n \in Nat /\ n # 0
    BY <2>4, FS_CardinalityType, FS_EmptySet
  <2>. HIDE DEF m, n
  <2>6. m * Million \in Int /\ n \in Nat \ {0}
    BY <2>3, <2>5 DEF Million
  <2>. QED BY <2>1, <2>6, Quotient
<1>. QED BY <1>2, <1>3, <1>4

\* A ranking is a sequence of the candidates.
LEMMA BestFirstIsASequence ==
    ASSUME RankingAssumption, NEW S, Rankable(S), NEW max \in Int
    PROVE  BestFirst(S, max) \in Seq(S)
<1>. DEFINE size == IF Cardinality(S) < max THEN Cardinality(S) ELSE max
            s == BestFirst(S, max)
<1>1. s = [i \in 1 .. size |-> s[i]] /\ \A i \in 1 .. size : s[i] \in S
  BY BestFirstIsByRank
<1>2. size \in Int
  BY FS_CardinalityType DEF Rankable
<1>3. PICK n \in Nat : 1 .. size = 1 .. n
  <2>1. CASE size < 0
    <3>1. 1 .. size = 1 .. 0
      BY <1>2, <2>1
    <3>. QED BY <3>1
  <2>2. CASE size >= 0
    BY <1>2, <2>2
  <2>. QED BY <1>2, <2>1, <2>2
<1>. HIDE DEF s, size
<1>4. s = [i \in 1 .. n |-> s[i]] /\ \A i \in 1 .. n : s[i] \in S
  BY ONLY <1>1, <1>3
<1>5. s \in Seq(S)
  BY ONLY <1>4, n \in Nat
<1>. QED BY <1>5 DEF s

\* What is ranked.
Strategies == DOMAIN BaseSignal \cup DOMAIN Reliability
RankedCandidate ==
    [locator : StructuredLocator, strategy : Strategies, score : Int, selectorId : STRING]

\* Scores are numbers.
LEMMA ScoresAreIntegers ==
    ASSUME NEW role, NEW name, NEW unique \in Int, NEW similarity \in Int
    PROVE  ScoreSignals(Signals(role, name, unique, similarity)) \in Int
<1>. DEFINE s == Signals(role, name, unique, similarity)
<1>1. /\ s.role \in Int /\ s.name \in Int /\ s.unique \in Int /\ s.history \in Int /\ s.similarity \in Int
  BY DEF Signals, Million
<1>2. /\ Weight.role \in Int /\ Weight.name \in Int /\ Weight.unique \in Int /\ Weight.history \in Int
      /\ Weight.similarity \in Int
  BY DEF Weight
<1>. HIDE DEF s
<1>. DEFINE sum == s.role * Weight.role + s.name * Weight.name + s.unique * Weight.unique
                     + s.history * Weight.history + s.similarity * Weight.similarity
<1>3. sum \in Int
  BY ONLY <1>1, <1>2
<1>. HIDE DEF sum
<1>4. Clamp(sum \div 100) \in Int
  BY <1>3 DEF Clamp, Million
<1>5. ToFixed(Clamp(sum \div 100)) \in Int
  BY <1>4 DEF ToFixed
<1>. QED BY <1>5 DEF ScoreSignals, sum, s

\* The suggestions of the failed target.
LEMMA SuggestionsAreRanked ==
    ASSUME RankingAssumption, NEW type, NEW t \in FailedTarget, IsFiniteSet(t.words),
           NEW selectorId \in STRING, NEW max \in Int
    PROVE  Suggestions(type, t, selectorId, max) \in Seq(RankedCandidate)
<1>. DEFINE seeds == CreateSeeds(type, t)
            score(seed) == ScoreSignals(Signals(seed.strategy = "roleName",
                               seed.strategy \in {"roleName", "ariaLabel", "text"},
                               BaseSignal[seed.strategy] * 10000,
                               SimilaritySignal(seed.locator, t)))
            f == [i \in DOMAIN seeds |->
                     Candidate(seeds[i].locator, seeds[i].strategy, score(seeds[i]), selectorId)]
            D == DOMAIN seeds
            S == {f[i] : i \in D}
<1>1. seeds \in Seq(HeuristicSeed)
  BY CreateSeedsDiffer
<1>2. \A i, j \in DOMAIN seeds : seeds[i].locator = seeds[j].locator => i = j
  BY CreateSeedsDiffer
<1>3. Suggestions(type, t, selectorId, max) = BestFirst(S, max)
  <2>. DEFINE S2 == {Candidate(seeds[i].locator, seeds[i].strategy, score(seeds[i]), selectorId) : i \in D}
  <2>1. S = S2
    OBVIOUS
  <2>2. Suggestions(type, t, selectorId, max) = BestFirst(S2, max)
    BY ONLY Zenon DEF Suggestions, S2, seeds, score, D
  <2>. HIDE DEF S, S2
  <2>. QED BY <2>1, <2>2
<1>4. IsFiniteSet(D)
  <2>. HIDE DEF seeds
  <2>1. Len(seeds) \in Nat /\ D = 1 .. Len(seeds)
    BY <1>1
  <2>2. IsFiniteSet(1 .. Len(seeds))
    BY <2>1, FS_Interval
  <2>. QED BY <2>1, <2>2
<1>5. ASSUME NEW seed \in HeuristicSeed PROVE score(seed) \in Int
  <2>1. seed.locator \in StructuredLocator /\ seed.strategy \in DOMAIN BaseSignal
    BY DEF HeuristicSeed
  <2>2. BaseSignal[seed.strategy] * 10000 \in Int
    BY <2>1 DEF BaseSignal
  <2>3. SimilaritySignal(seed.locator, t) \in Int
    BY <2>1, SimilarityIsInteger
  <2>. QED BY <2>2, <2>3, ScoresAreIntegers
<1>. HIDE DEF seeds, score
<1>7. \A i \in D : /\ f[i] \in RankedCandidate /\ f[i].locator = seeds[i].locator
  <2>. TAKE i \in D
  <2>1. seeds[i] \in HeuristicSeed
    BY <1>1
  <2>2. /\ seeds[i].locator \in StructuredLocator /\ seeds[i].strategy \in Strategies
        /\ score(seeds[i]) \in Int
    BY <1>5, <2>1 DEF HeuristicSeed, Strategies
  <2>. QED BY <2>2 DEF Candidate, RankedCandidate
<1>. HIDE DEF f, D
<1>8. \A i, j \in D : f[i] = f[j] => i = j
  BY <1>2, <1>7 DEF D
<1>9. IsFiniteSet(S)
  BY <1>4, <1>8, ImageHasAsMany
<1>10. \A c \in S : c \in RankedCandidate
  BY <1>7
<1>11. Rankable(S)
  <2>1. \A c \in S : c.locator \in StructuredLocator /\ c.score \in Int
    BY <1>10 DEF RankedCandidate
  <2>2. \A c, d \in S : c.locator = d.locator => c = d
    <3>1. \A i, j \in D : f[i].locator = f[j].locator => f[i] = f[j]
      BY <1>2, <1>7 DEF D
    <3>. QED BY <3>1
  <2>. QED BY <1>9, <2>1, <2>2 DEF Rankable
<1>. HIDE DEF S
<1>12. BestFirst(S, max) \in Seq(S)
  BY <1>11, BestFirstIsASequence
<1>13. BestFirst(S, max) \in Seq(RankedCandidate)
  BY <1>10, <1>12
<1>. QED BY <1>3, <1>13

\* A seed of the snapshot, an entry of the registry.
LEMMA CandidatesAreRanked ==
    ASSUME NEW t \in FailedTarget, IsFiniteSet(t.words), NEW selectorId \in STRING
    PROVE  /\ \A all : \A s \in SeedsFor(all) : DomCandidate(s, t, selectorId) \in RankedCandidate
           /\ \A e \in [id : STRING, locator : StructuredLocator, confidence : Int] :
                 RegistryCandidate(e, t, selectorId) \in RankedCandidate
<1>1. ASSUME NEW all, NEW s \in SeedsFor(all) PROVE DomCandidate(s, t, selectorId) \in RankedCandidate
  <2>. DEFINE unique == Reliability[s.strategy] * 10000
              given == IF s.unique THEN unique ELSE (unique * 55) \div 100
              similarity == SimilaritySignal(s.locator, t)
              score == ScoreSignals(Signals(s.role \/ s.strategy = "roleName", s.named, given, similarity))
  <2>1. s.locator \in StructuredLocator /\ s.strategy \in DOMAIN Reliability
    BY DEF SeedsFor
  <2>2. unique \in Int /\ s.strategy \in Strategies
    <3>1. s.strategy \in Strategies
      BY <2>1 DEF Strategies
    <3>2. unique \in Int
      BY <2>1 DEF Reliability
    <3>. QED BY <3>1, <3>2
  <2>3. given \in Int
    <3>. HIDE DEF unique
    <3>. QED BY <2>2
  <2>4. similarity \in Int
    BY <2>1, SimilarityIsInteger
  <2>5. DomCandidate(s, t, selectorId) = Candidate(s.locator, s.strategy, score, selectorId)
    BY DEF DomCandidate
  <2>. HIDE DEF given, similarity, unique
  <2>6. score \in Int
    BY <2>3, <2>4, ScoresAreIntegers
  <2>. HIDE DEF score
  <2>. QED BY <2>1, <2>2, <2>5, <2>6 DEF Candidate, RankedCandidate
<1>2. ASSUME NEW e \in [id : STRING, locator : StructuredLocator, confidence : Int]
      PROVE  RegistryCandidate(e, t, selectorId) \in RankedCandidate
  <2>. DEFINE unique == Reliability["registry"] * 10000
              similarity == SimilaritySignal(e.locator, t)
              score == ScoreSignals(Signals(FALSE, FALSE, unique, similarity))
              confidence == ToFixed(Clamp(e.confidence))
  <2>1. similarity \in Int
    BY SimilarityIsInteger
  <2>2. unique \in Int
    BY DEF Reliability
  <2>3. confidence \in Int
    BY DEF ToFixed, Clamp, Million
  <2>4. RegistryCandidate(e, t, selectorId) = Candidate(e.locator, "registry",
            LargerOf(score, confidence), IF selectorId = None THEN e.id ELSE selectorId)
    BY DEF RegistryCandidate
  <2>. HIDE DEF similarity, unique, confidence
  <2>5. score \in Int
    BY <2>1, <2>2, ScoresAreIntegers
  <2>. HIDE DEF score
  <2>6. LargerOf(score, confidence) \in Int
    BY <2>3, <2>5 DEF LargerOf
  <2>. DEFINE larger == LargerOf(score, confidence)
              id == IF selectorId = None THEN e.id ELSE selectorId
  <2>7. larger \in Int /\ id \in STRING /\ e.locator \in StructuredLocator /\ "registry" \in Strategies
    BY <2>6 DEF Strategies, Reliability
  <2>8. RegistryCandidate(e, t, selectorId) = Candidate(e.locator, "registry", larger, id)
    BY <2>4
  <2>. HIDE DEF larger, id
  <2>. QED BY <2>7, <2>8 DEF Candidate, RankedCandidate
<1>. QED BY <1>1, <1>2

\* The signal of a history is a number.
LEMMA HistorySignalIsInteger ==
    ASSUME NEW h \in CandidateHistory
    PROVE  HistorySignal(h) \in Int
<1>. DEFINE positive == h.validated + h.guardedApplySucceeded + h.promoted * 2
            negative == h.guardedApplyFailed + h.rejected * 2
            count    == positive + negative
            confidence == ((positive + 1) * Million) \div (count + 2)
            known    == LargerOf(h.attempts, count)
            weight   == IF known > 10 THEN 10 ELSE known
            weighed  == ((10 - weight) * (Million \div 2) + weight * confidence) \div 10
<1>1. positive \in Nat /\ negative \in Nat /\ h.attempts \in Nat
  BY DEF CandidateHistory
<1>2. HistorySignal(h) = IF h.attempts = 0 /\ count = 0 THEN Million \div 2 ELSE Clamp(weighed)
  BY Zenon DEF HistorySignal
<1>. HIDE DEF positive, negative
<1>3. count \in Nat
  BY <1>1
<1>4. confidence \in Int
  <2>1. (positive + 1) * Million \in Int /\ count + 2 \in Nat \ {0}
    BY <1>1, <1>3 DEF Million
  <2>. QED BY <2>1, Quotient
<1>5. weight \in Int
  BY <1>1, <1>3 DEF LargerOf
<1>. HIDE DEF confidence, weight, count
<1>6. weighed \in Int
  <2>1. Million \div 2 \in Int
    BY DEF Million
  <2>2. (10 - weight) * (Million \div 2) \in Int /\ weight * confidence \in Int
    BY <1>4, <1>5, <2>1
  <2>. QED BY <2>2
<1>. HIDE DEF weighed
<1>7. Clamp(weighed) \in Int /\ Million \div 2 \in Int
  BY <1>6 DEF Clamp, Million
<1>. QED BY <1>2, <1>7

\* All that is considered, from whichever source, can be ranked.
LEMMA ConsideredAreRanked ==
    ASSUME RankingAssumption, NEW q \in Queries
    PROVE  Considered(q) \in Seq(RankedCandidate)
<1>. DEFINE heuristic == Suggestions(q.type, q.target, q.selectorId, q.maxSuggestions)
            seeds == DomSeeds(q.type, q.elements)
            dom == [i \in DOMAIN seeds |-> DomCandidate(seeds[i], q.target, q.selectorId)]
            entries == [i \in DOMAIN q.entries |-> RegistryCandidate(q.entries[i], q.target, q.selectorId)]
            found == heuristic \o dom \o entries
<1>1. /\ q.target \in FailedTarget /\ IsFiniteSet(q.target.words)
      /\ q.selectorId \in STRING /\ q.maxSuggestions \in Int
      /\ q.elements \in Seq(SnapshotElement)
      /\ q.entries \in Seq([id : STRING, locator : StructuredLocator, confidence : Int])
      /\ \A id \in DOMAIN q.histories : q.histories[id] \in CandidateHistory
  BY DEF RankingAssumption
<1>2. heuristic \in Seq(RankedCandidate)
  BY <1>1, SuggestionsAreRanked
<1>3. dom \in Seq(RankedCandidate)
  <2>1. seeds \in Seq(SeedsFor(q.elements))
    BY <1>1, DomSeedsCount
  <2>2. \A s \in SeedsFor(q.elements) : DomCandidate(s, q.target, q.selectorId) \in RankedCandidate
    BY <1>1, CandidatesAreRanked
  <2>. HIDE DEF seeds
  <2>3. \A i \in DOMAIN seeds : DomCandidate(seeds[i], q.target, q.selectorId) \in RankedCandidate
    BY <2>1, <2>2
  <2>4. Len(seeds) \in Nat /\ DOMAIN seeds = 1 .. Len(seeds)
    BY <2>1
  <2>. QED BY ONLY <2>3, <2>4 DEF dom
<1>4. entries \in Seq(RankedCandidate)
  <2>. DEFINE es == q.entries
              Entry == [id : STRING, locator : StructuredLocator, confidence : Int]
  <2>1. \A e \in Entry : RegistryCandidate(e, q.target, q.selectorId) \in RankedCandidate
    BY <1>1, CandidatesAreRanked
  <2>2. es \in Seq(Entry)
    BY <1>1
  <2>. HIDE DEF es, Entry
  <2>3. \A i \in DOMAIN es : RegistryCandidate(es[i], q.target, q.selectorId) \in RankedCandidate
    BY <2>1, <2>2
  <2>4. Len(es) \in Nat /\ DOMAIN es = 1 .. Len(es)
    BY <2>2
  <2>5. [i \in DOMAIN es |-> RegistryCandidate(es[i], q.target, q.selectorId)] \in Seq(RankedCandidate)
    BY ONLY <2>3, <2>4
  <2>. QED BY <2>5 DEF es
<1>5. Considered(q) = [i \in DOMAIN found |-> ApplyHistory(found[i], q.histories)]
  BY DEF Considered
<1>. HIDE DEF heuristic, dom, entries
<1>6. found \in Seq(RankedCandidate)
  BY <1>2, <1>3, <1>4
<1>7. ASSUME NEW c \in RankedCandidate PROVE ApplyHistory(c, q.histories) \in RankedCandidate
  <2>1. CASE Id(c) \notin DOMAIN q.histories
    BY <2>1 DEF ApplyHistory
  <2>2. CASE Id(c) \in DOMAIN q.histories
    <3>. DEFINE signal == HistorySignal(q.histories[Id(c)])
                delta == ((signal - Million \div 2) * Weight.history) \div 100
                score == ToFixed(Clamp(c.score * 1000 + delta))
    <3>1. signal \in Int
      BY <1>1, <2>2, HistorySignalIsInteger
    <3>2. ApplyHistory(c, q.histories) = [c EXCEPT !.score = score]
      BY <2>2 DEF ApplyHistory
    <3>. HIDE DEF signal
    <3>3. delta \in Int
      BY <3>1 DEF Million, Weight
    <3>. HIDE DEF delta
    <3>4. c.score \in Int
      BY DEF RankedCandidate
    <3>5. Clamp(c.score * 1000 + delta) \in Int
      BY <3>3, <3>4 DEF Clamp, Million
    <3>6. score \in Int
      BY <3>5 DEF ToFixed
    <3>. HIDE DEF score
    <3>. QED BY <3>2, <3>6 DEF RankedCandidate
  <2>. QED BY <2>1, <2>2
<1>. HIDE DEF found
<1>8. [i \in DOMAIN found |-> ApplyHistory(found[i], q.histories)] \in Seq(RankedCandidate)
  BY <1>6, <1>7
<1>. QED BY <1>5, <1>8

\* The ranking of any query.
LEMMA RankOfQueries ==
    ASSUME RankingAssumption, NEW q \in Queries
    PROVE  LET all == Range(Considered(q))
               best == {c \in all : \A d \in all : d.locator = c.locator => d.score <= c.score}
           IN  [i \in DOMAIN Rank(q) |-> Scored(Rank(q)[i])]
                   = BestFirst({Scored(c) : c \in best}, LargerOf(1, q.maxCandidates))
<1>. DEFINE cons == Considered(q)
            all == Range(cons)
            best == {c \in all : \A d \in all : d.locator = c.locator => d.score <= c.score}
            T == FoldLeft(Admit, {}, cons)
            max == LargerOf(1, q.maxCandidates)
            P == {Scored(c) : c \in T}
<1>1. cons \in Seq(RankedCandidate)
  BY ConsideredAreRanked
<1>2. \A c \in RankedCandidate : c.score \in Int /\ c.locator \in StructuredLocator
  BY DEF RankedCandidate
<1>3. max \in Int
  <2>1. q.maxCandidates \in Int
    BY DEF RankingAssumption
  <2>. QED BY <2>1 DEF LargerOf
<1>4. Rank(q) = BestFirst(T, max)
  BY DEF Rank
<1>. HIDE DEF cons, max
<1>5. /\ IsFiniteSet(T) /\ T \subseteq Range(cons)
      /\ \A c, d \in T : c.locator = d.locator => c = d
  BY <1>1, <1>2, TheBestAreAdmitted
<1>6. P = {Scored(c) : c \in best}
  <2>1. \A c \in RankedCandidate : c.score \in Int
    BY <1>2
  <2>2. T = FoldLeft(Admit, {}, cons) /\ all = Range(cons)
    OBVIOUS
  <2>. HIDE DEF T, all
  <2>. QED BY ONLY <1>1, <2>1, <2>2, TheBestAreTheBest DEF P, best
<1>. HIDE DEF T, best, P, all
<1>7. Rankable(T)
  <2>1. Range(cons) \subseteq RankedCandidate
    BY <1>1 DEF Range
  <2>. QED BY <1>2, <1>5, <2>1 DEF Rankable
<1>8. [i \in DOMAIN BestFirst(T, max) |-> Scored(BestFirst(T, max)[i])] = BestFirst(P, max)
  BY <1>3, <1>7, ScoresComeInTheSameOrder DEF P
<1>9. [i \in DOMAIN Rank(q) |-> Scored(Rank(q)[i])] = BestFirst({Scored(c) : c \in best}, max)
  BY <1>4, <1>6, <1>8
<1>. QED BY <1>9 DEF max, best, all, cons

\* The ranking is that of the query.
RankedAsAsked == query # NoQuery => query \in Queries /\ ranking = Rank(query)

(***************************************************************************)
(* The ranking always rests on the best evidence: of all that was          *)
(* considered for a locator, the best score counts, from whichever source  *)
(* and in whatever order it came; no locator is missing that beats one     *)
(* ranked (rankSelfHealingCandidates); and a seed that scores as unique in *)
(* the snapshot matches no two visible elements (locatorCountsBy).         *)
(***************************************************************************)
THEOREM RankingAlwaysRestsOnEvidence == RankingSpec => []RankingRestsOnEvidence
<1>1. RankingInit => RankedAsAsked
  BY DEF RankingInit, RankedAsAsked
<1>2. RankedAsAsked /\ [HistoryNext \/ Analyze]_rankingVars => RankedAsAsked'
  <2>. SUFFICES ASSUME RankedAsAsked, [HistoryNext \/ Analyze]_rankingVars PROVE RankedAsAsked'
    OBVIOUS
  <2>1. CASE HistoryNext
    BY <2>1 DEF HistoryNext, RecordObservation, RecordOutcome, RankedAsAsked
  <2>2. CASE Analyze
    BY <2>2 DEF Analyze, RankedAsAsked
  <2>3. CASE UNCHANGED rankingVars
    BY <2>3 DEF rankingVars, RankedAsAsked
  <2>. QED BY <2>1, <2>2, <2>3
<1>3. RankedAsAsked => RankingRestsOnEvidence
  <2>. SUFFICES ASSUME RankedAsAsked, query # NoQuery PROVE RankingRestsOnEvidence
    BY DEF RankingRestsOnEvidence
  <2>. DEFINE all == Range(Considered(query))
              best == {c \in all : \A d \in all : d.locator = c.locator => d.score <= c.score}
              scored == {[locator |-> c.locator, score |-> c.score] : c \in best}
              seeds == DomSeeds(query.type, query.elements)
  <2>1. query \in Queries /\ ranking = Rank(query) /\ RankingAssumption
    BY RankingAssumption DEF RankedAsAsked
  <2>2. [i \in DOMAIN ranking |-> [locator |-> ranking[i].locator, score |-> ranking[i].score]]
            = BestFirst(scored, LargerOf(1, query.maxCandidates))
    BY <2>1, RankOfQueries DEF Scored
  <2>3. ASSUME NEW i \in DOMAIN seeds, UniquenessIsCounted(seeds[i], query.elements)
        PROVE  Cardinality(Matched(seeds[i].locator, query.elements)) <= 1
    <3>1. query.elements \in Seq(SnapshotElement)
      BY <2>1 DEF RankingAssumption
    <3>2. seeds \in Seq(SeedsFor(query.elements))
      BY <3>1, DomSeedsCount
    <3>. HIDE DEF seeds
    <3>3. seeds[i] \in SeedsFor(query.elements)
      BY <3>2
    <3>. QED BY <2>3, <3>3 DEF SeedsFor
  <2>. QED BY <2>2, <2>3 DEF RankingRestsOnEvidence
<1>. QED BY <1>1, <1>2, <1>3, PTL DEF RankingSpec
=============================================================================
