------------------------------- MODULE FoldProofs -------------------------------
(***************************************************************************)
(* Facts about finite sets that the proofs about the backtester rest on:   *)
(* least elements, recursion over the subsets of a set, and sums.  The     *)
(* induction theorems of the library take a predicate as a parameter; here *)
(* a proof by induction takes a smallest counterexample instead.           *)
(***************************************************************************)
EXTENDS Integers, FiniteSets, FiniteSetsExt, Functions, FiniteSetTheorems,
        WellFoundedInduction, TLAPS

Least(T, m) == m \in T /\ \A x \in T : m <= x
Greatest(T, m) == m \in T /\ \A x \in T : x <= m

\* Every set of naturals that is not empty has a least element.
LEMMA HasLeast == ASSUME NEW T, T \subseteq Nat, T # {} PROVE \E m \in T : Least(T, m)
<1>1. PICK m \in T : \A y \in T : ~(<<y, m>> \in OpToRel(<, Nat))
  BY NatLessThanWellFounded, WFMin
<1>2. \A y \in T : ~(y < m)
  BY <1>1 DEF OpToRel
<1> QED
  BY <1>2 DEF Least

\* And a set of subsets of a finite set has a smallest one.
LEMMA HasSmallest ==
    ASSUME NEW S, IsFiniteSet(S), NEW T, T \subseteq SUBSET S, T # {}
    PROVE  \E m \in T : \A k \in T : k \subseteq m => k = m
<1>1. IsWellFoundedOn(StrictSubsetOrdering(S), SUBSET S)
  BY FS_StrictSubsetOrderingWellFounded, FS_FiniteSubsetsOfFinite
<1>2. PICK m \in T : \A k \in T : <<k, m>> \notin StrictSubsetOrdering(S)
  BY <1>1, WFMin
<1> QED
  BY <1>2 DEF StrictSubsetOrdering

--------------------------------------------------------------------------------
\* g is what the recursion over the subsets of S computes: a step for the
\* element chosen, on what the rest gives.
Computes(g, S, V, step, base, ch) ==
    /\ g \in [SUBSET S -> V]
    /\ \A T \in SUBSET S :
           g[T] = IF T = {} THEN base ELSE step[<<ch[T], g[T \ {ch[T]}]>>]

\* Two such functions agree where both are defined.
LEMMA RecursionUnique ==
    ASSUME NEW S, IsFiniteSet(S), NEW V, NEW step, NEW base, NEW ch,
           \A T \in SUBSET S : T # {} => ch[T] \in T,
           NEW A \in SUBSET S, NEW B \in SUBSET S, NEW g, NEW h,
           Computes(g, A, V, step, base, ch), Computes(h, B, V, step, base, ch)
    PROVE  \A U \in SUBSET (A \cap B) : g[U] = h[U]
<1> DEFINE Bad == {U \in SUBSET (A \cap B) : g[U] # h[U]}
<1> SUFFICES ASSUME Bad # {} PROVE FALSE
  OBVIOUS
<1>1. Bad \subseteq SUBSET S
  OBVIOUS
<1>2. PICK U \in Bad : \A W \in Bad : W \subseteq U => W = U
  <2> HIDE DEF Bad
  <2> QED
    BY <1>1, HasSmallest
<1>3. U \in SUBSET A /\ U \in SUBSET B /\ U \in SUBSET S
  OBVIOUS
<1>4. U # {}
  BY <1>3 DEF Computes
<1> DEFINE W == U \ {ch[U]}
<1>5. W \in SUBSET (A \cap B) /\ W \subseteq U /\ W # U
  BY <1>3, <1>4
<1>6. g[W] = h[W]
  BY <1>2, <1>5
<1>7. g[U] = step[<<ch[U], g[W]>>] /\ h[U] = step[<<ch[U], h[W]>>]
  BY <1>3, <1>4 DEF Computes
<1> QED
  BY <1>6, <1>7

\* A recursion over the subsets of a finite set defines a function.
LEMMA SetRecursion ==
    ASSUME NEW S, IsFiniteSet(S), NEW V, NEW step \in [S \X V -> V], NEW base \in V, NEW ch,
           \A T \in SUBSET S : T # {} => ch[T] \in T
    PROVE  \E g : Computes(g, S, V, step, base, ch)
<1> DEFINE Bad == {T \in SUBSET S : ~\E g : Computes(g, T, V, step, base, ch)}
<1> SUFFICES ASSUME Bad # {} PROVE FALSE
  OBVIOUS
<1>0. Bad \subseteq SUBSET S
  OBVIOUS
<1>1. PICK T \in Bad : \A W \in Bad : W \subseteq T => W = T
  <2> HIDE DEF Bad
  <2> QED
    BY <1>0, HasSmallest
<1>2. T \in SUBSET S /\ ~\E g : Computes(g, T, V, step, base, ch)
  OBVIOUS
<1>3. ASSUME NEW U \in SUBSET T, U # T
      PROVE  \E g : Computes(g, U, V, step, base, ch)
  <2>1. U \notin Bad
    <3> HIDE DEF Bad
    <3> QED
      BY <1>1, <1>3
  <2> QED
    BY <2>1, <1>2
<1> HIDE DEF Bad
<1>4. PICK h : \A U \in SUBSET T : U # T => Computes(h[U], U, V, step, base, ch)
  <2> DEFINE k == [U \in SUBSET T |-> CHOOSE g : Computes(g, U, V, step, base, ch)]
  <2>1. ASSUME NEW U \in SUBSET T, U # T PROVE Computes(k[U], U, V, step, base, ch)
    BY <1>3, <2>1
  <2> HIDE DEF k
  <2> QED
    BY <2>1
<1>5. T # {}
  <2>1. SUFFICES ASSUME T = {} PROVE FALSE
    OBVIOUS
  <2>2. Computes([U \in SUBSET T |-> base], T, V, step, base, ch)
    BY <2>1 DEF Computes
  <2> QED
    BY <2>2, <1>2
<1> DEFINE R == T \ {ch[T]}
<1>6. R \in SUBSET T /\ R # T /\ ch[T] \in S
  BY <1>2, <1>5
<1>7. ASSUME NEW U \in SUBSET T, U # T PROVE h[U][U] \in V
  <2>1. h[U] \in [SUBSET U -> V] /\ U \in SUBSET U
    BY <1>4, <1>7 DEF Computes
  <2> QED
    BY <2>1
<1>8. step[<<ch[T], h[R][R]>>] \in V
  <2>1. <<ch[T], h[R][R]>> \in S \X V
    BY <1>6, <1>7
  <2> QED
    BY <2>1
<1> DEFINE g == [U \in SUBSET T |-> IF U = T THEN step[<<ch[T], h[R][R]>>] ELSE h[U][U]]
<1>9. g \in [SUBSET T -> V]
  BY <1>7, <1>8
<1>10. ASSUME NEW U \in SUBSET T
       PROVE  g[U] = IF U = {} THEN base ELSE step[<<ch[U], g[U \ {ch[U]}]>>]
  <2>1. CASE U = T
    <3>1. g[U] = step[<<ch[T], h[R][R]>>] /\ g[R] = h[R][R]
      BY <1>6, <2>1
    <3>2. U # {} /\ U \ {ch[U]} = R /\ ch[U] = ch[T]
      BY <2>1, <1>5
    <3> HIDE DEF g, R
    <3> QED
      BY <3>1, <3>2
  <2>2. CASE U # T /\ U = {}
    <3>1. h[U][U] = base
      BY <1>4, <2>2 DEF Computes
    <3>2. g[U] = h[U][U]
      BY <2>2
    <3> QED
      BY <3>1, <3>2, <2>2
  <2>3. CASE U # T /\ U # {}
    <3> DEFINE W == U \ {ch[U]}
    <3>1. ch[U] \in U
      BY <1>2, <2>3
    <3>2. W \in SUBSET T /\ W # T /\ W \in SUBSET U /\ U \in SUBSET S /\ W \in SUBSET S
          /\ W \in SUBSET (U \cap W)
      BY <1>2, <2>3, <3>1
    <3>6. g[U] = h[U][U] /\ g[W] = h[W][W]
      BY <2>3, <3>2
    <3> HIDE DEF W, g
    <3>3. Computes(h[U], U, V, step, base, ch) /\ Computes(h[W], W, V, step, base, ch)
      BY <1>4, <2>3, <3>2
    <3>4. h[U][W] = h[W][W]
      BY <3>2, <3>3, RecursionUnique
    <3>5. h[U][U] = step[<<ch[U], h[U][W]>>]
      BY <3>3, <2>3 DEF Computes, W
    <3>7. g[U] = step[<<ch[U], g[W]>>]
      BY <3>4, <3>5, <3>6
    <3> QED
      BY <3>7, <2>3 DEF W
  <2> QED
    BY <2>1, <2>2, <2>3
<1>11. Computes(g, T, V, step, base, ch)
  <2> HIDE DEF g
  <2> QED
    BY <1>9, <1>10 DEF Computes
<1> QED
  BY <1>11, <1>2

--------------------------------------------------------------------------------
\* Sums.  A sum is a recursion over the subsets of the set summed over ...
SumStep(f, S) == [x \in S \X Int |-> f[x[1]] + x[2]]
Chosen(S) == [T \in SUBSET S |-> CHOOSE x \in T : TRUE]

LEMMA SumComputed ==
    ASSUME NEW S, IsFiniteSet(S), NEW f, \A x \in S : f[x] \in Int
    PROVE  \E g : /\ Computes(g, S, Int, SumStep(f, S), 0, Chosen(S))
                  /\ SumFunctionOnSet(f, S) = g[S]
<1> DEFINE Eq(g) == g = [T \in SUBSET S |-> IF T = {} THEN 0
                            ELSE LET x == (CHOOSE x \in T : TRUE) IN f[x] + g[T \ {x}]]
<1>1. SumStep(f, S) \in [S \X Int -> Int] /\ \A T \in SUBSET S : T # {} => Chosen(S)[T] \in T
  BY DEF SumStep, Chosen
<1>2. \E g : Computes(g, S, Int, SumStep(f, S), 0, Chosen(S))
  BY <1>1, SetRecursion
<1>3. ASSUME NEW g, NEW T \in SUBSET S, T # {}, g \in [SUBSET S -> Int]
      PROVE  SumStep(f, S)[<<Chosen(S)[T], g[T \ {Chosen(S)[T]}]>>]
             = LET x == (CHOOSE x \in T : TRUE) IN f[x] + g[T \ {x}]
  <2>1. Chosen(S)[T] = CHOOSE x \in T : TRUE
    BY DEF Chosen
  <2>2. Chosen(S)[T] \in S /\ g[T \ {Chosen(S)[T]}] \in Int
    BY <1>1, <1>3
  <2> QED
    BY <2>1, <2>2 DEF SumStep
<1>4. ASSUME NEW g, Computes(g, S, Int, SumStep(f, S), 0, Chosen(S)) PROVE Eq(g)
  <2>1. ASSUME NEW T \in SUBSET S
        PROVE  g[T] = IF T = {} THEN 0
                      ELSE LET x == (CHOOSE x \in T : TRUE) IN f[x] + g[T \ {x}]
    BY <1>3, <1>4 DEF Computes
  <2>2. g \in [SUBSET S -> Int]
    BY <1>4 DEF Computes
  <2> QED
    BY <2>1, <2>2
<1>5. \E g : Eq(g) /\ SumFunctionOnSet(f, S) = g[S]
  <2>1. \E g : Eq(g)
    BY <1>2, <1>4
  <2> QED
    BY <2>1 DEF SumFunctionOnSet, FoldFunctionOnSet, MapThenFoldSet
<1>6. PICK g : Eq(g) /\ SumFunctionOnSet(f, S) = g[S]
  BY <1>5
<1>7. ASSUME NEW T \in SUBSET S PROVE g[T] \in Int
  <2> DEFINE Bad == {U \in SUBSET S : g[U] \notin Int}
  <2> SUFFICES ASSUME Bad # {} PROVE FALSE
    OBVIOUS
  <2>1. PICK U \in Bad : \A W \in Bad : W \subseteq U => W = U
    <3>1. Bad \subseteq SUBSET S
      OBVIOUS
    <3> HIDE DEF Bad
    <3> QED
      BY <3>1, HasSmallest
  <2> DEFINE x == CHOOSE x \in U : TRUE
  <2>2. U \in SUBSET S /\ g[U] \notin Int
    OBVIOUS
  <2>3. U # {}
    BY <1>6, <2>2
  <2>4. x \in U /\ g[U] = f[x] + g[U \ {x}]
    BY <1>6, <2>2, <2>3
  <2>5. U \ {x} \in SUBSET S /\ U \ {x} \subseteq U /\ U \ {x} # U
    BY <2>2, <2>4
  <2>6. g[U \ {x}] \in Int
    BY <2>1, <2>5
  <2> QED
    BY <2>2, <2>4, <2>6
<1>8. Computes(g, S, Int, SumStep(f, S), 0, Chosen(S))
  <2>1. g \in [SUBSET S -> Int]
    <3>1. g = [T \in SUBSET S |-> g[T]]
      BY <1>6
    <3> QED
      BY <3>1, <1>7
  <2>2. ASSUME NEW T \in SUBSET S
        PROVE  g[T] = IF T = {} THEN 0
                      ELSE SumStep(f, S)[<<Chosen(S)[T], g[T \ {Chosen(S)[T]}]>>]
    <3>1. g[T] = IF T = {} THEN 0
                 ELSE LET x == (CHOOSE x \in T : TRUE) IN f[x] + g[T \ {x}]
      BY <1>6
    <3> QED
      BY <3>1, <2>1, <1>3
  <2> QED
    BY <2>1, <2>2 DEF Computes
<1> QED
  BY <1>6, <1>8

\* ... so it is a number, nothing for the empty set, and otherwise that of one
\* element and the sum of the rest: first of the element it chooses ...
LEMMA SumFirst ==
    ASSUME NEW S, IsFiniteSet(S), NEW f, \A x \in S : f[x] \in Int
    PROVE  /\ SumFunctionOnSet(f, S) \in Int
           /\ S = {} => SumFunctionOnSet(f, S) = 0
           /\ S # {} => \E x \in S : SumFunctionOnSet(f, S)
                                     = f[x] + SumFunctionOnSet(f, S \ {x})
<1>1. PICK g : /\ Computes(g, S, Int, SumStep(f, S), 0, Chosen(S))
               /\ SumFunctionOnSet(f, S) = g[S]
  BY SumComputed
<1>2. g \in [SUBSET S -> Int] /\ S \in SUBSET S
  BY <1>1 DEF Computes
<1>3. SumFunctionOnSet(f, S) \in Int /\ (S = {} => SumFunctionOnSet(f, S) = 0)
  <2>1. S = {} => g[S] = 0
    BY <1>1, <1>2 DEF Computes
  <2>2. g[S] \in Int
    BY <1>2
  <2> QED
    BY <1>1, <2>1, <2>2
<1>4. ASSUME S # {}
      PROVE  \E x \in S : SumFunctionOnSet(f, S) = f[x] + SumFunctionOnSet(f, S \ {x})
  <2> DEFINE x == Chosen(S)[S]
             R == S \ {x}
  <2>1. x \in S /\ R \in SUBSET S
    BY <1>4 DEF Chosen
  <2>2. g[S] = f[x] + g[R]
    <3>1. g[S] = SumStep(f, S)[<<x, g[R]>>]
      BY <1>1, <1>4 DEF Computes
    <3>2. <<x, g[R]>> \in S \X Int
      BY <1>2, <2>1
    <3> HIDE DEF x, R
    <3> QED
      BY <3>1, <3>2 DEF SumStep
  <2>3. IsFiniteSet(R) /\ \A y \in R : f[y] \in Int
    BY FS_Subset
  <2>4. PICK h : /\ Computes(h, R, Int, SumStep(f, R), 0, Chosen(R))
                 /\ SumFunctionOnSet(f, R) = h[R]
    <3> HIDE DEF R
    <3> QED
      BY <2>3, SumComputed
  <2>5. Computes(h, R, Int, SumStep(f, S), 0, Chosen(S))
    <3> HIDE DEF R, x
    <3>1. h \in [SUBSET R -> Int]
      BY <2>4 DEF Computes
    <3>2. ASSUME NEW T \in SUBSET R, T # {}
          PROVE  /\ Chosen(S)[T] = Chosen(R)[T]
                 /\ SumStep(f, S)[<<Chosen(R)[T], h[T \ {Chosen(R)[T]}]>>]
                    = SumStep(f, R)[<<Chosen(R)[T], h[T \ {Chosen(R)[T]}]>>]
      <4>1. Chosen(S)[T] = Chosen(R)[T] /\ Chosen(R)[T] \in T
        BY <2>1, <3>2 DEF Chosen
      <4>2. T \ {Chosen(R)[T]} \in SUBSET R
        BY <3>2
      <4>3. h[T \ {Chosen(R)[T]}] \in Int
        BY <3>1, <4>2
      <4> QED
        BY <4>1, <4>3, <2>1 DEF SumStep
    <3> QED
      BY <2>4, <3>1, <3>2 DEF Computes
  <2>6. g[R] = h[R]
    <3>1. \A T \in SUBSET S : T # {} => Chosen(S)[T] \in T
      BY DEF Chosen
    <3>2. R \in SUBSET (S \cap R)
      OBVIOUS
    <3> HIDE DEF R, x
    <3> QED
      BY <1>1, <2>1, <2>5, <3>1, <3>2, RecursionUnique
  <2> HIDE DEF x, R
  <2> QED
    BY <1>1, <2>1, <2>2, <2>4, <2>6 DEF R
<1> QED
  BY <1>3, <1>4

\* ... and then of any element.
LEMMA SumRemove ==
    ASSUME NEW S, IsFiniteSet(S), NEW f, \A x \in S : f[x] \in Int, NEW x \in S
    PROVE  SumFunctionOnSet(f, S) = f[x] + SumFunctionOnSet(f, S \ {x})
<1> DEFINE Good(T) == \A y \in T : SumFunctionOnSet(f, T) = f[y] + SumFunctionOnSet(f, T \ {y})
           Bad == {T \in SUBSET S : ~Good(T)}
<1> SUFFICES ASSUME Bad # {} PROVE FALSE
  OBVIOUS
<1>1. PICK T \in Bad : \A U \in Bad : U \subseteq T => U = T
  <2>1. Bad \subseteq SUBSET S
    OBVIOUS
  <2> HIDE DEF Bad
  <2> QED
    BY <2>1, HasSmallest
<1>2. T \in SUBSET S /\ ~Good(T)
  OBVIOUS
<1>3. PICK y \in T : SumFunctionOnSet(f, T) # f[y] + SumFunctionOnSet(f, T \ {y})
  BY <1>2
<1>4. \A U \in SUBSET T : IsFiniteSet(U) /\ \A z \in U : f[z] \in Int
  BY <1>2, FS_Subset
<1>5. \A U \in SUBSET T : SumFunctionOnSet(f, U) \in Int
  BY <1>4, SumFirst
<1>6. PICK c \in T : SumFunctionOnSet(f, T) = f[c] + SumFunctionOnSet(f, T \ {c})
  BY <1>3, <1>4, SumFirst
<1>7. c # y
  BY <1>3, <1>6
<1>8. Good(T \ {c}) /\ Good(T \ {y})
  <2>1. T \ {c} \notin Bad /\ T \ {y} \notin Bad
    <3> HIDE DEF Bad
    <3> QED
      BY <1>1, <1>3, <1>6
  <2> QED
    BY <2>1, <1>2
<1> DEFINE R == (T \ {c}) \ {y}
<1>9. (T \ {y}) \ {c} = R /\ y \in T \ {c} /\ c \in T \ {y}
  BY <1>7
<1>10. /\ SumFunctionOnSet(f, T \ {c}) = f[y] + SumFunctionOnSet(f, R)
       /\ SumFunctionOnSet(f, T \ {y}) = f[c] + SumFunctionOnSet(f, R)
  BY <1>8, <1>9
<1>11. SumFunctionOnSet(f, R) \in Int /\ f[c] \in Int /\ f[y] \in Int
  BY <1>4, <1>5
<1> HIDE DEF R
<1> QED
  BY <1>3, <1>6, <1>10, <1>11

\* Term by term no more is no more in sum.
LEMMA SumMonotone ==
    ASSUME NEW S, IsFiniteSet(S), NEW f, NEW g,
           \A x \in S : f[x] \in Int /\ g[x] \in Int /\ f[x] <= g[x]
    PROVE  SumFunctionOnSet(f, S) <= SumFunctionOnSet(g, S)
<1> DEFINE Bad == {T \in SUBSET S : ~(SumFunctionOnSet(f, T) <= SumFunctionOnSet(g, T))}
<1> SUFFICES ASSUME Bad # {} PROVE FALSE
  OBVIOUS
<1>1. PICK T \in Bad : \A U \in Bad : U \subseteq T => U = T
  <2>1. Bad \subseteq SUBSET S
    OBVIOUS
  <2> HIDE DEF Bad
  <2> QED
    BY <2>1, HasSmallest
<1>2. T \in SUBSET S /\ ~(SumFunctionOnSet(f, T) <= SumFunctionOnSet(g, T))
  OBVIOUS
<1>3. \A U \in SUBSET T : IsFiniteSet(U) /\ \A z \in U : f[z] \in Int /\ g[z] \in Int
  BY <1>2, FS_Subset
<1>4. \A U \in SUBSET T : SumFunctionOnSet(f, U) \in Int /\ SumFunctionOnSet(g, U) \in Int
  BY <1>3, SumFirst
<1>5. T # {}
  <2>1. T = {} => SumFunctionOnSet(f, T) = 0 /\ SumFunctionOnSet(g, T) = 0
    BY <1>3, SumFirst
  <2> QED
    BY <1>2, <2>1
<1>6. PICK x \in T : TRUE
  BY <1>5
<1> DEFINE R == T \ {x}
<1>7. /\ SumFunctionOnSet(f, T) = f[x] + SumFunctionOnSet(f, R)
      /\ SumFunctionOnSet(g, T) = g[x] + SumFunctionOnSet(g, R)
  BY <1>3, SumRemove
<1>8. SumFunctionOnSet(f, R) <= SumFunctionOnSet(g, R)
  <2>1. R \notin Bad
    <3> HIDE DEF Bad
    <3> QED
      BY <1>1
  <2> QED
    BY <2>1, <1>2
<1>9. /\ f[x] \in Int /\ g[x] \in Int /\ f[x] <= g[x]
      /\ SumFunctionOnSet(f, R) \in Int /\ SumFunctionOnSet(g, R) \in Int
  BY <1>2, <1>4
<1> HIDE DEF R
<1> QED
  BY <1>2, <1>7, <1>8, <1>9

\* So sums of the same terms are equal.
LEMMA SumSame ==
    ASSUME NEW S, IsFiniteSet(S), NEW f, NEW g,
           \A x \in S : f[x] \in Int /\ f[x] = g[x]
    PROVE  SumFunctionOnSet(f, S) = SumFunctionOnSet(g, S)
<1>1. /\ SumFunctionOnSet(f, S) \in Int /\ SumFunctionOnSet(g, S) \in Int
      /\ SumFunctionOnSet(f, S) <= SumFunctionOnSet(g, S)
      /\ SumFunctionOnSet(g, S) <= SumFunctionOnSet(f, S)
  BY SumFirst, SumMonotone
<1> QED
  BY <1>1

\* When one term changes, the sum changes by as much.
LEMMA SumChange ==
    ASSUME NEW S, IsFiniteSet(S), NEW f, NEW g, NEW x \in S,
           \A y \in S : f[y] \in Int /\ g[y] \in Int /\ (y # x => f[y] = g[y])
    PROVE  SumFunctionOnSet(g, S) = SumFunctionOnSet(f, S) + g[x] - f[x]
<1>1. IsFiniteSet(S \ {x})
  BY FS_Subset
<1>2. SumFunctionOnSet(f, S \ {x}) = SumFunctionOnSet(g, S \ {x})
  BY <1>1, SumSame
<1>3. /\ SumFunctionOnSet(f, S) = f[x] + SumFunctionOnSet(f, S \ {x})
      /\ SumFunctionOnSet(g, S) = g[x] + SumFunctionOnSet(g, S \ {x})
  BY SumRemove
<1>4. f[x] \in Int /\ g[x] \in Int /\ SumFunctionOnSet(f, S \ {x}) \in Int
  BY <1>1, SumFirst
<1> QED
  BY <1>2, <1>3, <1>4

\* The sum of term by term sums is the sum of the sums.
LEMMA SumAdds ==
    ASSUME NEW S, IsFiniteSet(S), NEW f, NEW g, NEW h,
           \A x \in S : f[x] \in Int /\ g[x] \in Int /\ h[x] = f[x] + g[x]
    PROVE  SumFunctionOnSet(h, S) = SumFunctionOnSet(f, S) + SumFunctionOnSet(g, S)
<1> DEFINE Bad == {T \in SUBSET S : ~(SumFunctionOnSet(h, T) = SumFunctionOnSet(f, T) + SumFunctionOnSet(g, T))}
<1> SUFFICES ASSUME Bad # {} PROVE FALSE
  OBVIOUS
<1>1. PICK T \in Bad : \A U \in Bad : U \subseteq T => U = T
  <2>1. Bad \subseteq SUBSET S
    OBVIOUS
  <2> HIDE DEF Bad
  <2> QED
    BY <2>1, HasSmallest
<1>2. T \in SUBSET S /\ ~(SumFunctionOnSet(h, T) = SumFunctionOnSet(f, T) + SumFunctionOnSet(g, T))
  OBVIOUS
<1>3. \A U \in SUBSET T : IsFiniteSet(U) /\ \A z \in U : f[z] \in Int /\ g[z] \in Int /\ h[z] \in Int
  BY <1>2, FS_Subset
<1>4. \A U \in SUBSET T : SumFunctionOnSet(f, U) \in Int /\ SumFunctionOnSet(g, U) \in Int
  BY <1>3, SumFirst
<1>5. T # {}
  <2>1. T = {} => /\ SumFunctionOnSet(h, T) = 0
                  /\ SumFunctionOnSet(f, T) = 0 /\ SumFunctionOnSet(g, T) = 0
    BY <1>3, SumFirst
  <2> HIDE DEF Bad
  <2> QED
    BY <1>2, <2>1
<1>6. PICK x \in T : TRUE
  BY <1>5
<1> DEFINE R == T \ {x}
<1>7. /\ SumFunctionOnSet(f, T) = f[x] + SumFunctionOnSet(f, R)
      /\ SumFunctionOnSet(g, T) = g[x] + SumFunctionOnSet(g, R)
      /\ SumFunctionOnSet(h, T) = h[x] + SumFunctionOnSet(h, R)
  BY <1>3, SumRemove
<1>8. SumFunctionOnSet(h, R) = SumFunctionOnSet(f, R) + SumFunctionOnSet(g, R)
  <2>1. R \notin Bad
    <3> HIDE DEF Bad
    <3> QED
      BY <1>1
  <2> QED
    BY <2>1, <1>2
<1>9. /\ f[x] \in Int /\ g[x] \in Int /\ h[x] = f[x] + g[x]
      /\ SumFunctionOnSet(f, R) \in Int /\ SumFunctionOnSet(g, R) \in Int
  BY <1>2, <1>4
<1> HIDE DEF R
<1> QED
  BY <1>2, <1>7, <1>8, <1>9

\* The sum of the products by a number is the product of the sum by it.
LEMMA SumScales ==
    ASSUME NEW S, IsFiniteSet(S), NEW c \in Int, NEW f, NEW h,
           \A x \in S : f[x] \in Int /\ h[x] = c * f[x]
    PROVE  SumFunctionOnSet(h, S) = c * SumFunctionOnSet(f, S)
<1> DEFINE Bad == {T \in SUBSET S : ~(SumFunctionOnSet(h, T) = c * SumFunctionOnSet(f, T))}
<1> SUFFICES ASSUME Bad # {} PROVE FALSE
  OBVIOUS
<1>1. PICK T \in Bad : \A U \in Bad : U \subseteq T => U = T
  <2>1. Bad \subseteq SUBSET S
    OBVIOUS
  <2> HIDE DEF Bad
  <2> QED
    BY <2>1, HasSmallest
<1>2. T \in SUBSET S /\ ~(SumFunctionOnSet(h, T) = c * SumFunctionOnSet(f, T))
  OBVIOUS
<1>3. \A U \in SUBSET T : IsFiniteSet(U) /\ \A z \in U : f[z] \in Int /\ h[z] \in Int
  BY <1>2, FS_Subset
<1>4. \A U \in SUBSET T : SumFunctionOnSet(f, U) \in Int
  BY <1>3, SumFirst
<1>5. T # {}
  <2>1. T = {} => SumFunctionOnSet(h, T) = 0 /\ SumFunctionOnSet(f, T) = 0
    BY <1>3, SumFirst
  <2>2. c * 0 = 0
    BY SMT
  <2> HIDE DEF Bad
  <2> QED
    BY <1>2, <2>1, <2>2
<1>6. PICK x \in T : TRUE
  BY <1>5
<1> DEFINE R == T \ {x}
<1>7. /\ SumFunctionOnSet(f, T) = f[x] + SumFunctionOnSet(f, R)
      /\ SumFunctionOnSet(h, T) = h[x] + SumFunctionOnSet(h, R)
  BY <1>3, SumRemove
<1>8. SumFunctionOnSet(h, R) = c * SumFunctionOnSet(f, R)
  <2>1. R \notin Bad
    <3> HIDE DEF Bad
    <3> QED
      BY <1>1
  <2> QED
    BY <2>1, <1>2
<1>9. f[x] \in Int /\ h[x] = c * f[x] /\ SumFunctionOnSet(f, R) \in Int
  BY <1>2, <1>4
<1>10. \A a, b \in Int : c * (a + b) = c * a + c * b
  BY SMT
<1> HIDE DEF R
<1>11. SumFunctionOnSet(h, T) = c * SumFunctionOnSet(f, T)
  BY <1>7, <1>8, <1>9, <1>10
<1> QED
  BY <1>2, <1>11

\* The sum of equal terms is a product.
LEMMA SumConstant ==
    ASSUME NEW S, IsFiniteSet(S), NEW c \in Int, NEW f, \A x \in S : f[x] = c
    PROVE  SumFunctionOnSet(f, S) = Cardinality(S) * c
<1> DEFINE Bad == {T \in SUBSET S : SumFunctionOnSet(f, T) # Cardinality(T) * c}
<1> SUFFICES ASSUME Bad # {} PROVE FALSE
  OBVIOUS
<1>1. PICK T \in Bad : \A U \in Bad : U \subseteq T => U = T
  <2>1. Bad \subseteq SUBSET S
    OBVIOUS
  <2> HIDE DEF Bad
  <2> QED
    BY <2>1, HasSmallest
<1>2. T \in SUBSET S /\ SumFunctionOnSet(f, T) # Cardinality(T) * c
  OBVIOUS
<1>3. IsFiniteSet(T) /\ \A z \in T : f[z] \in Int
  BY <1>2, FS_Subset
<1>4. T # {}
  <2>1. T = {} => SumFunctionOnSet(f, T) = 0 /\ Cardinality(T) = 0
    BY <1>3, SumFirst, FS_EmptySet
  <2> QED
    BY <1>2, <2>1
<1>5. PICK x \in T : TRUE
  BY <1>4
<1> DEFINE R == T \ {x}
<1>6. SumFunctionOnSet(f, T) = f[x] + SumFunctionOnSet(f, R)
  BY <1>3, SumRemove
<1>7. SumFunctionOnSet(f, R) = Cardinality(R) * c
  <2>1. R \notin Bad
    <3> HIDE DEF Bad
    <3> QED
      BY <1>1
  <2> QED
    BY <2>1, <1>2
<1>8. Cardinality(R) = Cardinality(T) - 1 /\ Cardinality(T) \in Nat
  BY <1>3, FS_RemoveElement, FS_CardinalityType
<1>9. (Cardinality(T) - 1) * c = Cardinality(T) * c - c
  <2>1. \A n \in Int : (n - 1) * c = n * c - c
    OBVIOUS
  <2> QED
    BY <1>8, <2>1
<1>10. f[x] = c /\ Cardinality(T) * c \in Int
  BY <1>2, <1>8
<1> HIDE DEF R
<1> QED
  BY <1>2, <1>6, <1>7, <1>8, <1>9, <1>10

\* A sum of naturals is one.
LEMMA SumNat ==
    ASSUME NEW S, IsFiniteSet(S), NEW f, \A x \in S : f[x] \in Nat
    PROVE  SumFunctionOnSet(f, S) \in Nat
<1> DEFINE zero == [x \in S |-> 0]
<1>1. Cardinality(S) \in Nat /\ \A x \in S : zero[x] = 0
  BY FS_CardinalityType
<1> HIDE DEF zero
<1>2. SumFunctionOnSet(zero, S) = Cardinality(S) * 0
  BY <1>1, SumConstant
<1>3. SumFunctionOnSet(zero, S) <= SumFunctionOnSet(f, S)
  BY <1>1, SumMonotone
<1>4. SumFunctionOnSet(f, S) \in Int
  BY SumFirst
<1>5. Cardinality(S) * 0 = 0
  BY <1>1
<1> QED
  BY <1>2, <1>3, <1>4, <1>5

\* Terms taken from one function or from another sum to no more than both.
LEMMA SumUnion ==
    ASSUME NEW A, IsFiniteSet(A), NEW B, IsFiniteSet(B), NEW f, NEW g, NEW u,
           \A x \in A : f[x] \in Nat, \A x \in B : g[x] \in Nat,
           \A x \in A \cup B : u[x] = IF x \in A THEN f[x] ELSE g[x]
    PROVE  SumFunctionOnSet(u, A \cup B) <= SumFunctionOnSet(f, A) + SumFunctionOnSet(g, B)
<1> DEFINE Bad == {T \in SUBSET B : ~(SumFunctionOnSet(u, A \cup T)
                                      <= SumFunctionOnSet(f, A) + SumFunctionOnSet(g, T))}
<1> SUFFICES ASSUME Bad # {} PROVE FALSE
  OBVIOUS
<1>1. PICK T \in Bad : \A U \in Bad : U \subseteq T => U = T
  <2>1. Bad \subseteq SUBSET B
    OBVIOUS
  <2> HIDE DEF Bad
  <2> QED
    BY <2>1, HasSmallest
<1>2. T \in SUBSET B /\ ~(SumFunctionOnSet(u, A \cup T)
                          <= SumFunctionOnSet(f, A) + SumFunctionOnSet(g, T))
  OBVIOUS
<1>3. \A U \in SUBSET T : /\ IsFiniteSet(U) /\ IsFiniteSet(A \cup U)
                          /\ \A x \in U : g[x] \in Int
                          /\ \A x \in A \cup U : u[x] \in Int
  <2>1. \A U \in SUBSET T : IsFiniteSet(U) /\ IsFiniteSet(A \cup U)
    BY <1>2, FS_Subset, FS_Union
  <2> QED
    BY <1>2, <2>1
<1>4. \A U \in SUBSET T : /\ SumFunctionOnSet(u, A \cup U) \in Int
                          /\ SumFunctionOnSet(g, U) \in Int
  BY <1>3, SumFirst
<1>5. SumFunctionOnSet(f, A) \in Int /\ SumFunctionOnSet(u, A) = SumFunctionOnSet(f, A)
  BY SumFirst, SumSame
<1>6. T # {}
  <2> SUFFICES ASSUME T = {} PROVE FALSE
    OBVIOUS
  <2>1. SumFunctionOnSet(g, T) = 0
    BY <1>3, SumFirst
  <2>2. A \cup T = A
    OBVIOUS
  <2>3. SumFunctionOnSet(u, A \cup T) = SumFunctionOnSet(u, A)
    BY <2>2, Zenon
  <2> QED
    BY <1>2, <1>5, <2>1, <2>3
<1>7. PICK x \in T : TRUE
  BY <1>6
<1> DEFINE R == T \ {x}
<1>8. SumFunctionOnSet(g, T) = g[x] + SumFunctionOnSet(g, R)
  BY <1>3, SumRemove
<1>9. SumFunctionOnSet(u, A \cup R) <= SumFunctionOnSet(f, A) + SumFunctionOnSet(g, R)
  <2>1. R \notin Bad
    <3> HIDE DEF Bad
    <3> QED
      BY <1>1
  <2> QED
    BY <2>1, <1>2
<1>10. SumFunctionOnSet(u, A \cup T) <= g[x] + SumFunctionOnSet(u, A \cup R)
  <2>1. CASE x \in A
    <3>1. A \cup T = A \cup R
      BY <2>1
    <3>2. g[x] \in Nat /\ SumFunctionOnSet(u, A \cup R) \in Int
      BY <1>2, <1>4
    <3> HIDE DEF R
    <3>3. SumFunctionOnSet(u, A \cup T) = SumFunctionOnSet(u, A \cup R)
      BY <3>1, Zenon
    <3> QED
      BY <3>2, <3>3
  <2>2. CASE x \notin A
    <3>1. (A \cup T) \ {x} = A \cup R /\ u[x] = g[x] /\ x \in A \cup T
      BY <1>2, <2>2
    <3>2. SumFunctionOnSet(u, A \cup T) = u[x] + SumFunctionOnSet(u, (A \cup T) \ {x})
      BY <1>3, <3>1, SumRemove
    <3>3. u[x] \in Int /\ SumFunctionOnSet(u, A \cup R) \in Int
      BY <1>3, <1>4
    <3> HIDE DEF R
    <3>4. SumFunctionOnSet(u, (A \cup T) \ {x}) = SumFunctionOnSet(u, A \cup R)
      BY <3>1, Zenon
    <3> QED
      BY <3>1, <3>2, <3>3, <3>4
  <2> QED
    BY <2>1, <2>2
<1>11. /\ g[x] \in Int /\ SumFunctionOnSet(g, R) \in Int
       /\ SumFunctionOnSet(u, A \cup R) \in Int /\ SumFunctionOnSet(u, A \cup T) \in Int
  BY <1>3, <1>4
<1> HIDE DEF R
<1> QED
  BY <1>2, <1>5, <1>8, <1>9, <1>10, <1>11

--------------------------------------------------------------------------------
\* A finite set that is ordered has a last element.
LEMMA HasLast ==
    ASSUME NEW S, IsFiniteSet(S), S # {}, NEW R,
           \A x, y, z \in S : <<x, y>> \in R /\ <<y, z>> \in R => <<x, z>> \in R,
           \A x, y \in S : x # y => <<x, y>> \in R \/ <<y, x>> \in R
    PROVE  \E x \in S : \A y \in S \ {x} : <<y, x>> \in R
<1> DEFINE Last(T) == \E x \in T : \A y \in T \ {x} : <<y, x>> \in R
           Bad == {T \in SUBSET S : T # {} /\ ~Last(T)}
<1> SUFFICES ASSUME Bad # {} PROVE FALSE
  OBVIOUS
<1>1. PICK T \in Bad : \A U \in Bad : U \subseteq T => U = T
  <2>1. Bad \subseteq SUBSET S
    OBVIOUS
  <2> HIDE DEF Bad
  <2> QED
    BY <2>1, HasSmallest
<1>2. T \in SUBSET S /\ T # {} /\ ~Last(T)
  OBVIOUS
<1>3. PICK x \in T : TRUE
  BY <1>2
<1>4. CASE T \ {x} = {}
  BY <1>2, <1>3, <1>4
<1>5. CASE T \ {x} # {}
  <2>1. Last(T \ {x})
    <3>1. T \ {x} \notin Bad
      <4> HIDE DEF Bad
      <4> QED
        BY <1>1, <1>3
    <3> QED
      BY <3>1, <1>2, <1>5
  <2>2. PICK m \in T \ {x} : \A y \in (T \ {x}) \ {m} : <<y, m>> \in R
    BY <2>1
  <2>3. CASE <<x, m>> \in R
    BY <1>2, <2>2, <2>3
  <2>4. CASE <<m, x>> \in R
    <3>1. ASSUME NEW y \in T \ {x} PROVE <<y, x>> \in R
      BY <1>2, <2>2, <2>4
    <3> QED
      BY <1>2, <1>3, <3>1
  <2> QED
    BY <1>2, <1>3, <2>2, <2>3, <2>4
<1> QED
  BY <1>4, <1>5

\* A finite set of naturals has an element with any number of greater ones.
LEMMA HasRank ==
    ASSUME NEW S, IsFiniteSet(S), \A k \in S : k \in Nat, NEW n \in Nat, n < Cardinality(S)
    PROVE  \E k \in S : Cardinality({j \in S : j > k}) = n
<1> DEFINE Rank(T) == \E k \in T : Cardinality({j \in T : j > k}) = n
           Bad == {T \in SUBSET S : n < Cardinality(T) /\ ~Rank(T)}
<1> SUFFICES ASSUME Bad # {} PROVE FALSE
  OBVIOUS
<1>1. PICK T \in Bad : \A U \in Bad : U \subseteq T => U = T
  <2>1. Bad \subseteq SUBSET S
    OBVIOUS
  <2> HIDE DEF Bad
  <2> QED
    BY <2>1, HasSmallest
<1>2. T \in SUBSET S /\ n < Cardinality(T) /\ ~Rank(T) /\ T \subseteq Nat
  OBVIOUS
<1>3. IsFiniteSet(T) /\ Cardinality(T) \in Nat
  BY <1>2, FS_Subset, FS_CardinalityType
<1>4. T # {}
  BY <1>2, FS_EmptySet
<1>5. PICK m \in T : Least(T, m)
  BY <1>2, <1>4, HasLeast
<1> DEFINE U == T \ {m}
<1>6. IsFiniteSet(U) /\ Cardinality(U) = Cardinality(T) - 1
  BY <1>3, <1>5, FS_RemoveElement
<1>7. {j \in T : j > m} = U
  <2>1. \A j \in T : j \in Int /\ m \in Int /\ m <= j
    BY <1>2, <1>5 DEF Least
  <2>2. \A j \in T : j > m <=> j # m
    BY <2>1
  <2> QED
    BY <2>2
<1>8. n # Cardinality(T) - 1
  <2>1. Cardinality({j \in T : j > m}) = Cardinality(U)
    BY <1>7, Zenon
  <2> HIDE DEF U
  <2> QED
    BY <1>2, <1>5, <1>6, <2>1
<1>9. n < Cardinality(U)
  BY <1>2, <1>3, <1>6, <1>8
<1>10. PICK k \in U : Cardinality({j \in U : j > k}) = n
  <2>1. U \notin Bad
    <3> HIDE DEF Bad
    <3> QED
      BY <1>1, <1>5
  <2> QED
    BY <2>1, <1>2, <1>9
<1>11. {j \in U : j > k} = {j \in T : j > k}
  BY <1>2, <1>5, <1>10 DEF Least
<1>12. Cardinality({j \in T : j > k}) = n
  BY <1>10, <1>11, Zenon
<1> QED
  BY <1>2, <1>10, <1>12

--------------------------------------------------------------------------------
\* Products and quotients.
LEMMA MulGrows ==
    ASSUME NEW a \in Nat, NEW b \in Int, NEW c \in Int, b <= c
    PROVE  a * b <= a * c
<1>1. PICK d \in Nat : c = b + d
  BY c - b \in Nat, c = b + (c - b)
<1>2. a * c = a * b + a * d
  BY <1>1, SMT
<1>3. a * d \in Nat /\ a * b \in Int
  BY SMT
<1> QED
  BY <1>2, <1>3

LEMMA MulNat == ASSUME NEW a \in Nat, NEW b \in Nat PROVE a * b \in Nat
BY SMT

LEMMA MulPositive == ASSUME NEW a \in Nat \ {0}, NEW b \in Nat \ {0} PROVE a * b \in Nat \ {0}
<1>1. a * 1 <= a * b
  BY MulGrows
<1> QED
  BY <1>1, MulNat

LEMMA Quotient ==
    ASSUME NEW a \in Nat, NEW b \in Nat \ {0}
    PROVE  a \div b \in Nat /\ b * (a \div b) <= a
<1>1. a = b * (a \div b) + (a % b) /\ a % b \in 0..(b - 1) /\ a \div b \in Int
  BY SMT
<1>2. a \div b \in Nat
  BY SMT
<1>3. b * (a \div b) \in Nat
  BY <1>2, MulNat
<1> QED
  BY <1>1, <1>2, <1>3

LEMMA NoRemainder ==
    ASSUME NEW m \in Nat, NEW b \in Nat \ {0}
    PROVE  (m * b) % b = 0
<1> DEFINE q == (m * b) \div b
           r == (m * b) % b
<1>1. m * b = b * q + r /\ r \in 0..(b - 1) /\ q \in Int /\ m * b \in Nat
  BY SMT
<1> HIDE DEF q, r
<1>2. CASE q < m
  <2>1. b * (q + 1) <= b * m
    BY <1>1, <1>2, MulGrows
  <2>2. b * (q + 1) = b * q + b /\ b * m = m * b /\ b * q \in Int
    BY <1>1, SMT
  <2> QED
    BY <1>1, <2>1, <2>2
<1>3. CASE q > m
  <2>1. b * (m + 1) <= b * q
    BY <1>1, <1>3, MulGrows
  <2>2. b * (m + 1) = b * m + b /\ b * m = m * b /\ b * q \in Int
    BY <1>1, SMT
  <2> QED
    BY <1>1, <2>1, <2>2
<1>4. CASE q = m
  <2>1. b * q = m * b /\ b * q \in Int
    BY <1>1, <1>4, SMT
  <2>2. r = 0
    BY <1>1, <2>1
  <2> QED
    BY <2>2 DEF r
<1> QED
  BY <1>1, <1>2, <1>3, <1>4

LEMMA Cancel ==
    ASSUME NEW a \in Nat \ {0}, NEW b \in Int, NEW c \in Int, a * b <= a * c
    PROVE  b <= c
<1> SUFFICES ASSUME c + 1 <= b PROVE FALSE
  OBVIOUS
<1>1. a * (c + 1) <= a * b
  BY MulGrows
<1>2. a * (c + 1) = a * c + a /\ a * c \in Int /\ a * b \in Int
  BY SMT
<1> QED
  BY <1>1, <1>2

\* A multiple is a product, and so sums and differences of multiples are multiples.
LEMMA MultipleIsProduct ==
    ASSUME NEW a \in Nat, NEW b \in Nat \ {0}, a % b = 0
    PROVE  a \div b \in Nat /\ a = (a \div b) * b
<1>1. a = b * (a \div b) + (a % b) /\ a \div b \in Nat
  BY SMT
<1> DEFINE q == a \div b
<1>2. q \in Nat /\ a = b * q
  BY <1>1
<1> HIDE DEF q
<1>3. b * q = q * b
  BY <1>2
<1> QED
  BY <1>2, <1>3 DEF q

LEMMA SumOfMultiples ==
    ASSUME NEW a \in Nat, NEW c \in Nat, NEW b \in Nat \ {0}, a % b = 0, c % b = 0
    PROVE  (a + c) % b = 0
<1> DEFINE m == a \div b
           n == c \div b
<1>1. m \in Nat /\ n \in Nat /\ a = m * b /\ c = n * b
  BY MultipleIsProduct
<1> HIDE DEF m, n
<1>2. a + c = (m + n) * b
  BY <1>1
<1> QED
  BY <1>1, <1>2, NoRemainder

LEMMA DifferenceOfMultiples ==
    ASSUME NEW a \in Nat, NEW c \in Nat, NEW b \in Nat \ {0}, a % b = 0, c % b = 0, c <= a
    PROVE  (a - c) % b = 0
<1> DEFINE m == a \div b
           n == c \div b
<1>1. m \in Nat /\ n \in Nat /\ a = m * b /\ c = n * b
  BY MultipleIsProduct
<1> HIDE DEF m, n
<1>2. n <= m
  <2>1. b * n <= b * m
    BY <1>1
  <2> QED
    BY <1>1, <2>1, Cancel
<1>3. a - c = (m - n) * b
  BY <1>1
<1> QED
  BY <1>1, <1>2, <1>3, NoRemainder

================================================================================
