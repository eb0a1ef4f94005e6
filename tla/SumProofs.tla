------------------------------ MODULE SumProofs ------------------------------
(***************************************************************************)
(* Sums of integers over a finite set: the facts about SumFunctionOnSet    *)
(* and SumFunction that the proofs about balances, books and stocks need.  *)
(* The folds are recursive functions; induction over their finite domain   *)
(* is a descent to a smallest counterexample, a set.                       *)
(***************************************************************************)
EXTENDS Integers, FiniteSets, Functions, FiniteSetTheorems, WellFoundedInduction, TLAPS

\* The element a fold takes first.
FirstOf(s) == CHOOSE x \in s : TRUE

\* g sums f over every subset of T, taking one element at a time.
SumsUp(g, f, T) ==
    g = [s \in SUBSET T |-> IF s = {} THEN 0 ELSE f[FirstOf(s)] + g[s \ {FirstOf(s)}]]

\* f and e are the same on T.
SameOn(f, e, T) == \A x \in T : f[x] = e[x]

\* Among the subsets of a finite set that are wrong in some way, if any, one is
\* smallest: no subset of it is wrong.
LEMMA SmallestWrong ==
    ASSUME NEW S, IsFiniteSet(S), NEW Wrong, Wrong \subseteq SUBSET S, Wrong # {}
    PROVE  \E T \in Wrong : \A U \in Wrong : U \subseteq T => U = T
  <1>1. IsWellFoundedOn(StrictSubsetOrdering(S), SUBSET S)
    BY FS_StrictSubsetOrderingWellFounded, FS_FiniteSubsetsOfFinite
  <1>2. PICK T \in Wrong : \A U \in Wrong : <<U, T>> \notin StrictSubsetOrdering(S)
    BY <1>1, WFMin
  <1>3. ASSUME NEW U \in Wrong, U \subseteq T PROVE U = T
    <2>1. <<U, T>> \in (SUBSET S) \X (SUBSET S) /\ <<U, T>>[1] = U /\ <<U, T>>[2] = T
      OBVIOUS
    <2> QED BY <1>2, <1>3, <2>1 DEF StrictSubsetOrdering
  <1> QED BY <1>3

\* A finite set of integers has a greatest element.
LEMMA MaxExists ==
    ASSUME NEW S, IsFiniteSet(S)
    PROVE  S \subseteq Int /\ S # {} => \E x \in S : \A y \in S : x >= y
  <1> DEFINE Greatest(T) == \E x \in T : \A y \in T : x >= y
             Wrong == {T \in SUBSET S : T # {} /\ ~Greatest(T)}
  <1>1. ASSUME Wrong # {}
        PROVE  \E T \in Wrong : \A U \in Wrong : U \subseteq T => U = T
    <2> HIDE DEF Wrong
    <2>1. Wrong \subseteq SUBSET S
      BY DEF Wrong
    <2> QED BY <1>1, <2>1, SmallestWrong
  <1>2. ASSUME S \subseteq Int, NEW T \in Wrong, \A U \in Wrong : U \subseteq T => U = T
        PROVE  FALSE
    <2>1. PICK x \in T : x \in Int
      BY <1>2
    <2>2. CASE T \ {x} = {}
      <3>1. \A y \in T : x >= y
        BY <2>1, <2>2
      <3> QED BY <3>1
    <2>3. CASE T \ {x} # {}
      <3>1. T \ {x} \in SUBSET S /\ T \ {x} \notin Wrong
        BY <1>2
      <3>2. PICK m \in T \ {x} : \A y \in T \ {x} : m >= y
        BY <2>3, <3>1
      <3>3. T \subseteq Int
        BY <1>2
      <3>4. CASE x >= m
        <4>1. \A y \in T : x >= y
          BY <3>2, <3>3, <3>4
        <4> QED BY <4>1
      <3>5. CASE m >= x
        <4>1. \A y \in T : m >= y
          BY <3>2, <3>5
        <4> QED BY <4>1
      <3> QED BY <2>1, <3>2, <3>3, <3>4, <3>5
    <2> QED BY <2>2, <2>3
  <1>3. ASSUME S \subseteq Int, S # {}, ~Greatest(S) PROVE FALSE
    <2>1. S \in Wrong
      BY <1>3
    <2>2. PICK T \in Wrong : \A U \in Wrong : U \subseteq T => U = T
      BY <1>1, <2>1
    <2> QED BY <1>2, <1>3, <2>2
  <1> QED BY <1>3

LEMMA FirstOfIn == ASSUME NEW s, s # {} PROVE FirstOf(s) \in s
  BY DEF FirstOf

\* Two ways to sum agree where their functions and their domains do.
LEMMA SumsAgree ==
    ASSUME NEW T, NEW U, IsFiniteSet(T), NEW f, NEW e, NEW g, NEW h,
           SumsUp(g, f, T), SumsUp(h, e, U), SameOn(f, e, T \cap U)
    PROVE  \A s \in SUBSET (T \cap U) : g[s] = h[s]
  <1> DEFINE Wrong == {s \in SUBSET (T \cap U) : g[s] # h[s]}
  <1> SUFFICES ASSUME Wrong # {} PROVE FALSE
    OBVIOUS
  <1>1. IsFiniteSet(T \cap U)
    BY FS_Subset
  <1>2. PICK s \in Wrong : \A u \in Wrong : u \subseteq s => u = s
    <2> HIDE DEF Wrong
    <2>1. Wrong \subseteq SUBSET (T \cap U)
      BY DEF Wrong
    <2> QED BY <1>1, <2>1, SmallestWrong
  <1>3. g[s] = (IF s = {} THEN 0 ELSE f[FirstOf(s)] + g[s \ {FirstOf(s)}])
        /\ h[s] = (IF s = {} THEN 0 ELSE e[FirstOf(s)] + h[s \ {FirstOf(s)}])
    <2>1. s \in SUBSET T /\ s \in SUBSET U
      OBVIOUS
    <2> QED BY <2>1 DEF SumsUp
  <1>4. s # {}
    BY <1>3
  <1>5. FirstOf(s) \in T \cap U /\ s \ {FirstOf(s)} \notin Wrong
    BY <1>2, <1>4, FirstOfIn
  <1>6. g[s \ {FirstOf(s)}] = h[s \ {FirstOf(s)}] /\ f[FirstOf(s)] = e[FirstOf(s)]
    BY <1>5 DEF SameOn
  <1> QED BY <1>3, <1>4, <1>6

\* Every finite set has such a sum.
LEMMA SumsExist ==
    ASSUME NEW S, IsFiniteSet(S), NEW f
    PROVE  \E g : SumsUp(g, f, S)
  <1> DEFINE Wrong == {T \in SUBSET S : ~\E g : SumsUp(g, f, T)}
  <1> SUFFICES ASSUME Wrong # {} PROVE FALSE
    OBVIOUS
  <1>1. PICK T \in Wrong : \A U \in Wrong : U \subseteq T => U = T
    <2> HIDE DEF Wrong
    <2>1. Wrong \subseteq SUBSET S
      BY DEF Wrong
    <2> QED BY <2>1, SmallestWrong
  <1> DEFINE G(U) == CHOOSE g : SumsUp(g, f, U)
             Rest(s) == s \ {FirstOf(s)}
             h == [s \in SUBSET T |-> IF s = {} THEN 0 ELSE f[FirstOf(s)] + G(Rest(s))[Rest(s)]]
  <1>2. ASSUME NEW U \in SUBSET T, U # T PROVE SumsUp(G(U), f, U) /\ IsFiniteSet(U)
    <2>1. U \in SUBSET S /\ U \notin Wrong
      BY <1>1, <1>2
    <2>2. \E g : SumsUp(g, f, U)
      BY <2>1
    <2> QED BY <2>1, <2>2, FS_Subset
  <1>3. ASSUME NEW s \in SUBSET T, s # {} PROVE h[Rest(s)] = G(Rest(s))[Rest(s)]
    <2> DEFINE u == Rest(s)
    <2>1. u \in SUBSET T /\ u # T /\ FirstOf(s) \in s
      BY <1>3, FirstOfIn
    <2>2. SumsUp(G(u), f, u)
      BY <1>2, <2>1
    <2>3. G(u)[u] = (IF u = {} THEN 0 ELSE f[FirstOf(u)] + G(u)[Rest(u)])
      BY <2>2 DEF SumsUp
    <2>4. h[u] = (IF u = {} THEN 0 ELSE f[FirstOf(u)] + G(Rest(u))[Rest(u)])
      BY <2>1
    <2>5. CASE u = {}
      BY <2>3, <2>4, <2>5
    <2>6. CASE u # {}
      <3>1. Rest(u) \in SUBSET T /\ Rest(u) # T /\ Rest(u) \subseteq u
        BY <2>1
      <3>2. SumsUp(G(Rest(u)), f, Rest(u)) /\ IsFiniteSet(Rest(u))
        BY <1>2, <3>1
      <3> DEFINE v == Rest(u)
                 g1 == G(u)
                 g2 == G(v)
      <3>3. SumsUp(g1, f, u) /\ SumsUp(g2, f, v) /\ IsFiniteSet(v) /\ v \subseteq u
        BY <2>2, <3>1, <3>2
      <3>4. g2[v] = g1[v]
        <4> HIDE DEF g1, g2, v, u
        <4>1. \A s1 \in SUBSET (v \cap u) : g2[s1] = g1[s1]
          BY <3>3, SumsAgree DEF SameOn
        <4>2. v \in SUBSET (v \cap u)
          BY <3>3
        <4> QED BY <4>1, <4>2
      <3> QED BY <2>3, <2>4, <2>6, <3>4
    <2> QED BY <2>5, <2>6
  <1>4. h = [s \in SUBSET T |-> IF s = {} THEN 0 ELSE f[FirstOf(s)] + h[s \ {FirstOf(s)}]]
    <2>1. ASSUME NEW s \in SUBSET T
          PROVE  h[s] = IF s = {} THEN 0 ELSE f[FirstOf(s)] + h[s \ {FirstOf(s)}]
      <3>1. h[s] = IF s = {} THEN 0 ELSE f[FirstOf(s)] + G(Rest(s))[Rest(s)]
        OBVIOUS
      <3>2. s # {} => h[s \ {FirstOf(s)}] = G(Rest(s))[Rest(s)]
        BY <1>3
      <3> HIDE DEF G, h
      <3> QED BY <3>1, <3>2
    <2> HIDE DEF G, Rest
    <2> DEFINE k == [s \in SUBSET T |-> IF s = {} THEN 0 ELSE f[FirstOf(s)] + h[s \ {FirstOf(s)}]]
    <2>2. \A s \in SUBSET T : h[s] = k[s]
      BY <2>1
    <2>3. h = [s \in SUBSET T |-> h[s]] /\ k = [s \in SUBSET T |-> k[s]]
      OBVIOUS
    <2> HIDE DEF h
    <2> QED BY <2>2, <2>3
  <1>5. SumsUp(h, f, T)
    <2> HIDE DEF h
    <2> QED BY <1>4 DEF SumsUp
  <1> QED BY <1>1, <1>5
-----------------------------------------------------------------------------
(* The recursion that the fold computes, freed of the order it takes. *)

\* The sum of f over a finite set, and over its parts.
LEMMA SumUnfolds ==
    ASSUME NEW T, IsFiniteSet(T), NEW f, T # {}
    PROVE  SumFunctionOnSet(f, T)
             = f[FirstOf(T)] + SumFunctionOnSet(f, T \ {FirstOf(T)})
  <1> DEFINE G(U) == CHOOSE g : SumsUp(g, f, U)
             R == T \ {FirstOf(T)}
  <1>1. SumFunctionOnSet(f, T) = G(T)[T] /\ SumFunctionOnSet(f, R) = G(R)[R]
    <2>1. ASSUME NEW U PROVE SumFunctionOnSet(f, U) = G(U)[U]
      BY Zenon DEF SumFunctionOnSet, FoldFunctionOnSet, MapThenFoldSet, SumsUp, FirstOf
    <2> QED BY <2>1
  <1>2. SumsUp(G(T), f, T) /\ SumsUp(G(R), f, R)
    <2>1. IsFiniteSet(R)
      BY FS_Subset
    <2> QED BY <2>1, SumsExist
  <1>3. G(T)[T] = f[FirstOf(T)] + G(T)[R]
    BY <1>2 DEF SumsUp
  <1>4. G(T)[R] = G(R)[R]
    <2> DEFINE g == G(T)
               h == G(R)
    <2>1. SumsUp(g, f, T) /\ SumsUp(h, f, R) /\ R \in SUBSET (T \cap R)
      BY <1>2
    <2> HIDE DEF g, h, R
    <2>2. \A s \in SUBSET (T \cap R) : g[s] = h[s]
      BY <2>1, SumsAgree DEF SameOn
    <2> QED BY <2>1, <2>2 DEF g, h
  <1> HIDE DEF G
  <1> QED BY <1>1, <1>3, <1>4

LEMMA SumOfNone == ASSUME NEW f PROVE SumFunctionOnSet(f, {}) = 0
  <1> DEFINE G == CHOOSE g : SumsUp(g, f, {})
  <1>1. SumFunctionOnSet(f, {}) = G[{}]
    BY Zenon DEF SumFunctionOnSet, FoldFunctionOnSet, MapThenFoldSet, SumsUp, FirstOf
  <1>2. SumsUp(G, f, {})
    BY SumsExist, FS_EmptySet
  <1> HIDE DEF G
  <1>3. G[{}] = 0
    BY <1>2 DEF SumsUp
  <1> QED BY <1>1, <1>3

\* Functions that agree on a finite set have the same sum over it.
LEMMA SumSame ==
    ASSUME NEW T, IsFiniteSet(T), NEW f, NEW e, SameOn(f, e, T)
    PROVE  SumFunctionOnSet(f, T) = SumFunctionOnSet(e, T)
  <1> DEFINE g == CHOOSE k : SumsUp(k, f, T)
             h == CHOOSE k : SumsUp(k, e, T)
  <1>1. SumFunctionOnSet(f, T) = g[T] /\ SumFunctionOnSet(e, T) = h[T]
    BY Zenon DEF SumFunctionOnSet, FoldFunctionOnSet, MapThenFoldSet, SumsUp, FirstOf
  <1>2. SumsUp(g, f, T) /\ SumsUp(h, e, T)
    BY SumsExist
  <1> HIDE DEF g, h
  <1>3. PICK U : U = T
    OBVIOUS
  <1>5. \A s \in SUBSET (T \cap U) : g[s] = h[s]
    <2>1. SumsUp(h, e, U) /\ SameOn(f, e, T \cap U)
      BY <1>2, <1>3 DEF SameOn
    <2> QED BY <1>2, <2>1, SumsAgree
  <1>4. T \in SUBSET (T \cap U)
    BY <1>3
  <1> QED BY <1>1, <1>4, <1>5

\* A sum of integers is an integer.
LEMMA SumInt ==
    ASSUME NEW S, IsFiniteSet(S), NEW f, \A x \in S : f[x] \in Int
    PROVE  SumFunctionOnSet(f, S) \in Int
  <1> DEFINE Wrong == {T \in SUBSET S : SumFunctionOnSet(f, T) \notin Int}
  <1> SUFFICES ASSUME Wrong # {} PROVE FALSE
    OBVIOUS
  <1>1. PICK T \in Wrong : \A U \in Wrong : U \subseteq T => U = T
    <2> HIDE DEF Wrong
    <2>1. Wrong \subseteq SUBSET S
      BY DEF Wrong
    <2> QED BY <2>1, SmallestWrong
  <1>2. T # {} /\ IsFiniteSet(T)
    <2>1. IsFiniteSet(T)
      BY FS_Subset
    <2>2. CASE T = {}
      BY SumOfNone, <2>2
    <2> QED BY <2>1, <2>2
  <1>3. FirstOf(T) \in T /\ T \ {FirstOf(T)} \notin Wrong
    BY <1>1, <1>2, FirstOfIn
  <1>4. SumFunctionOnSet(f, T \ {FirstOf(T)}) \in Int /\ f[FirstOf(T)] \in Int
    BY <1>3
  <1>5. SumFunctionOnSet(f, T) \notin Int
    BY <1>1
  <1>6. SumFunctionOnSet(f, T) = f[FirstOf(T)] + SumFunctionOnSet(f, T \ {FirstOf(T)})
    BY <1>2, SumUnfolds
  <1> HIDE DEF Wrong
  <1> QED BY <1>4, <1>5, <1>6

\* Any element may be taken first.
LEMMA SumTake ==
    ASSUME NEW S, IsFiniteSet(S), NEW f, \A x \in S : f[x] \in Int, NEW x \in S
    PROVE  SumFunctionOnSet(f, S) = f[x] + SumFunctionOnSet(f, S \ {x})
  <1> DEFINE Wrong == {T \in SUBSET S : \E y \in T :
                         SumFunctionOnSet(f, T) # f[y] + SumFunctionOnSet(f, T \ {y})}
  <1> SUFFICES ASSUME Wrong # {} PROVE FALSE
    OBVIOUS
  <1>1. PICK T \in Wrong : \A U \in Wrong : U \subseteq T => U = T
    <2> HIDE DEF Wrong
    <2>1. Wrong \subseteq SUBSET S
      BY DEF Wrong
    <2> QED BY <2>1, SmallestWrong
  <1>2. PICK y \in T : SumFunctionOnSet(f, T) # f[y] + SumFunctionOnSet(f, T \ {y})
    BY <1>1
  <1> DEFINE z == FirstOf(T)
  <1>3. z \in T /\ IsFiniteSet(T)
    BY <1>2, FirstOfIn, FS_Subset
  <1>4. SumFunctionOnSet(f, T) = f[z] + SumFunctionOnSet(f, T \ {z})
    BY <1>3, SumUnfolds
  <1> HIDE DEF z
  <1>5. y # z
    BY <1>2, <1>4
  <1>6. T \ {z} \notin Wrong /\ T \ {y} \notin Wrong
    BY <1>1, <1>3
  <1>7. /\ SumFunctionOnSet(f, T \ {z}) = f[y] + SumFunctionOnSet(f, (T \ {z}) \ {y})
        /\ SumFunctionOnSet(f, T \ {y}) = f[z] + SumFunctionOnSet(f, (T \ {y}) \ {z})
    BY <1>3, <1>5, <1>6
  <1>8. (T \ {z}) \ {y} = (T \ {y}) \ {z}
    OBVIOUS
  <1>9. SumFunctionOnSet(f, (T \ {z}) \ {y}) \in Int /\ f[y] \in Int /\ f[z] \in Int
    <2>1. IsFiniteSet((T \ {z}) \ {y}) /\ (T \ {z}) \ {y} \subseteq S
      BY <1>3, FS_Subset
    <2> QED BY <1>3, <2>1, SumInt
  <1> DEFINE a == SumFunctionOnSet(f, T)
             b == SumFunctionOnSet(f, T \ {y})
             c == SumFunctionOnSet(f, T \ {z})
             d == SumFunctionOnSet(f, (T \ {z}) \ {y})
  <1>10. a # f[y] + b /\ a = f[z] + c /\ c = f[y] + d /\ b = f[z] + d /\ d \in Int
    BY <1>2, <1>4, <1>7, <1>8, <1>9
  <1> HIDE DEF Wrong, a, b, c, d
  <1> QED BY <1>9, <1>10

-----------------------------------------------------------------------------
(* What the balances and totals of a system need. *)

\* A sum of naturals is a natural.
LEMMA SumNat ==
    ASSUME NEW S, IsFiniteSet(S), NEW f, \A x \in S : f[x] \in Nat
    PROVE  SumFunctionOnSet(f, S) \in Nat
  <1> DEFINE Wrong == {T \in SUBSET S : SumFunctionOnSet(f, T) \notin Nat}
  <1> SUFFICES ASSUME Wrong # {} PROVE FALSE
    OBVIOUS
  <1>1. PICK T \in Wrong : \A U \in Wrong : U \subseteq T => U = T
    <2> HIDE DEF Wrong
    <2>1. Wrong \subseteq SUBSET S
      BY DEF Wrong
    <2> QED BY <2>1, SmallestWrong
  <1>2. T # {} /\ IsFiniteSet(T)
    <2>1. IsFiniteSet(T)
      BY FS_Subset
    <2>2. CASE T = {}
      BY SumOfNone, <2>2
    <2> QED BY <2>1, <2>2
  <1>3. FirstOf(T) \in T /\ T \ {FirstOf(T)} \notin Wrong
    BY <1>1, <1>2, FirstOfIn
  <1>4. SumFunctionOnSet(f, T \ {FirstOf(T)}) \in Nat /\ f[FirstOf(T)] \in Nat
    BY <1>3
  <1>5. SumFunctionOnSet(f, T) = f[FirstOf(T)] + SumFunctionOnSet(f, T \ {FirstOf(T)})
    BY <1>2, SumUnfolds
  <1>6. SumFunctionOnSet(f, T) \in Nat
    <2> HIDE DEF Wrong
    <2> QED BY <1>4, <1>5
  <1> QED BY <1>1, <1>6

\* A sum of zeros is zero.
LEMMA SumZero ==
    ASSUME NEW S, IsFiniteSet(S), NEW f, \A x \in S : f[x] = 0
    PROVE  SumFunctionOnSet(f, S) = 0
  <1> DEFINE Wrong == {T \in SUBSET S : SumFunctionOnSet(f, T) # 0}
  <1> SUFFICES ASSUME Wrong # {} PROVE FALSE
    OBVIOUS
  <1>1. PICK T \in Wrong : \A U \in Wrong : U \subseteq T => U = T
    <2> HIDE DEF Wrong
    <2>1. Wrong \subseteq SUBSET S
      BY DEF Wrong
    <2> QED BY <2>1, SmallestWrong
  <1>2. T # {} /\ IsFiniteSet(T)
    <2>1. IsFiniteSet(T)
      BY FS_Subset
    <2>2. CASE T = {}
      BY SumOfNone, <2>2
    <2> QED BY <2>1, <2>2
  <1>3. FirstOf(T) \in T /\ T \ {FirstOf(T)} \notin Wrong
    BY <1>1, <1>2, FirstOfIn
  <1>4. SumFunctionOnSet(f, T \ {FirstOf(T)}) = 0 /\ f[FirstOf(T)] = 0
    BY <1>3
  <1>5. SumFunctionOnSet(f, T) = f[FirstOf(T)] + SumFunctionOnSet(f, T \ {FirstOf(T)})
    BY <1>2, SumUnfolds
  <1>6. SumFunctionOnSet(f, T) = 0
    <2> HIDE DEF Wrong
    <2> QED BY <1>4, <1>5
  <1> QED BY <1>1, <1>6

\* Writing one entry moves the sum by as much as it moves the entry.
LEMMA SumWrite ==
    ASSUME NEW S, IsFiniteSet(S), NEW f \in [S -> Int], NEW k \in S, NEW v \in Int
    PROVE  /\ SumFunction([f EXCEPT ![k] = v]) = SumFunction(f) - f[k] + v
           /\ SumFunction(f) \in Int
  <1> DEFINE e == [f EXCEPT ![k] = v]
  <1>1. DOMAIN f = S /\ DOMAIN e = S /\ e[k] = v /\ (\A x \in S : e[x] \in Int /\ f[x] \in Int)
        /\ \A x \in S \ {k} : e[x] = f[x]
    OBVIOUS
  <1> HIDE DEF e
  <1>2. SumFunctionOnSet(e, S) = v + SumFunctionOnSet(e, S \ {k})
    BY <1>1, SumTake
  <1>3. SumFunctionOnSet(f, S) = f[k] + SumFunctionOnSet(f, S \ {k})
    BY <1>1, SumTake
  <1>4. IsFiniteSet(S \ {k})
    BY FS_Subset
  <1>5. SumFunctionOnSet(e, S \ {k}) = SumFunctionOnSet(f, S \ {k})
    BY <1>1, <1>4, SumSame DEF SameOn
  <1>6. SumFunctionOnSet(f, S \ {k}) \in Int /\ SumFunctionOnSet(f, S) \in Int
    BY <1>1, <1>4, SumInt
  <1>7. SumFunctionOnSet(e, S) = SumFunctionOnSet(f, S) - f[k] + v
    BY <1>1, <1>2, <1>3, <1>5, <1>6
  <1> QED BY <1>1, <1>6, <1>7 DEF SumFunction, e

\* The sum of the entrywise sum.
LEMMA SumPlus ==
    ASSUME NEW S, IsFiniteSet(S), NEW f, NEW g, NEW h,
           \A x \in S : f[x] \in Int /\ g[x] \in Int /\ h[x] = f[x] + g[x]
    PROVE  SumFunctionOnSet(h, S) = SumFunctionOnSet(f, S) + SumFunctionOnSet(g, S)
  <1> DEFINE Wrong == {T \in SUBSET S :
                SumFunctionOnSet(h, T) # SumFunctionOnSet(f, T) + SumFunctionOnSet(g, T)}
  <1> SUFFICES ASSUME Wrong # {} PROVE FALSE
    OBVIOUS
  <1>1. PICK T \in Wrong : \A U \in Wrong : U \subseteq T => U = T
    <2> HIDE DEF Wrong
    <2>1. Wrong \subseteq SUBSET S
      BY DEF Wrong
    <2> QED BY <2>1, SmallestWrong
  <1>2. T # {} /\ IsFiniteSet(T)
    <2>1. IsFiniteSet(T)
      BY FS_Subset
    <2>2. CASE T = {}
      BY SumOfNone, <2>2
    <2> QED BY <2>1, <2>2
  <1> DEFINE z == FirstOf(T)
             R == T \ {z}
  <1>3. z \in T /\ R \notin Wrong /\ R \in SUBSET S /\ IsFiniteSet(R)
    BY <1>1, <1>2, FirstOfIn, FS_Subset
  <1>4. /\ SumFunctionOnSet(f, T) = f[z] + SumFunctionOnSet(f, R)
        /\ SumFunctionOnSet(g, T) = g[z] + SumFunctionOnSet(g, R)
        /\ SumFunctionOnSet(h, T) = h[z] + SumFunctionOnSet(h, R)
    BY <1>2, SumUnfolds
  <1>5. SumFunctionOnSet(h, R) = SumFunctionOnSet(f, R) + SumFunctionOnSet(g, R)
    BY <1>3
  <1>6. SumFunctionOnSet(f, R) \in Int /\ SumFunctionOnSet(g, R) \in Int
        /\ f[z] \in Int /\ g[z] \in Int /\ h[z] = f[z] + g[z]
    BY <1>3, SumInt
  <1>7. SumFunctionOnSet(h, T) # SumFunctionOnSet(f, T) + SumFunctionOnSet(g, T)
    BY <1>1
  <1> HIDE DEF z, R, Wrong
  <1> QED BY <1>4, <1>5, <1>6, <1>7

\* A function that is 0 everywhere else sums up to its one value.
LEMMA SumPoint ==
    ASSUME NEW S, IsFiniteSet(S), NEW f, NEW b \in S, NEW v \in Int,
           \A x \in S : f[x] = IF x = b THEN v ELSE 0
    PROVE  SumFunctionOnSet(f, S) = v
  <1>1. (\A x \in S : f[x] \in Int) /\ f[b] = v /\ \A x \in S \ {b} : f[x] = 0
    OBVIOUS
  <1>2. SumFunctionOnSet(f, S) = f[b] + SumFunctionOnSet(f, S \ {b})
    BY <1>1, SumTake
  <1>3. SumFunctionOnSet(f, S \ {b}) = 0
    <2>1. IsFiniteSet(S \ {b})
      BY FS_Subset
    <2> QED BY <1>1, <2>1, SumZero
  <1> QED BY <1>1, <1>2, <1>3

\* Rows first or columns first, a table has one sum.
RowSums(m, A, K) == [k \in K |-> SumFunctionOnSet([a \in A |-> m[<<a, k>>]], A)]
ColumnSums(m, A, K) == [a \in A |-> SumFunctionOnSet([k \in K |-> m[<<a, k>>]], K)]

LEMMA SumSwap ==
    ASSUME NEW A, IsFiniteSet(A), NEW K, IsFiniteSet(K), NEW m,
           \A a \in A, k \in K : m[<<a, k>>] \in Int
    PROVE  SumFunctionOnSet(ColumnSums(m, A, K), A) = SumFunctionOnSet(RowSums(m, A, K), K)
  <1> DEFINE Wrong == {T \in SUBSET K : SumFunctionOnSet(ColumnSums(m, A, T), A)
                                          # SumFunctionOnSet(RowSums(m, A, T), T)}
  <1> SUFFICES ASSUME Wrong # {} PROVE FALSE
    OBVIOUS
  <1>1. PICK T \in Wrong : \A U \in Wrong : U \subseteq T => U = T
    <2> HIDE DEF Wrong
    <2>1. Wrong \subseteq SUBSET K
      BY DEF Wrong
    <2> QED BY <2>1, SmallestWrong
  <1>2. IsFiniteSet(T) /\ T \subseteq K
    BY FS_Subset
  <1>3. T # {}
    <2> SUFFICES ASSUME T = {} PROVE FALSE
      OBVIOUS
    <2> DEFINE f == ColumnSums(m, A, T)
    <2>1. SumFunctionOnSet(RowSums(m, A, T), T) = 0
      BY SumOfNone
    <2>2. \A a \in A : f[a] = 0
      BY SumOfNone DEF ColumnSums
    <2>3. SumFunctionOnSet(f, A) = 0
      <3> HIDE DEF f
      <3> QED BY <2>2, SumZero
    <2> QED BY <2>1, <2>3
  <1>4. PICK x \in T : TRUE
    BY <1>3
  <1>5. PICK U : U = T \ {x} /\ U \subseteq K /\ x \in K /\ IsFiniteSet(U)
    BY <1>2, FS_Subset
  <1>6. SumFunctionOnSet(ColumnSums(m, A, U), A) = SumFunctionOnSet(RowSums(m, A, U), U)
    BY <1>1, <1>5
  <1> DEFINE row == [a \in A |-> m[<<a, x>>]]
             f == ColumnSums(m, A, U)
             h == ColumnSums(m, A, T)
  <1>7. ASSUME NEW a \in A PROVE f[a] \in Int /\ row[a] \in Int /\ h[a] = f[a] + row[a]
    <2> DEFINE c == [k \in T |-> m[<<a, k>>]]
               d == [k \in U |-> m[<<a, k>>]]
    <2>1. (\A k \in T : c[k] \in Int) /\ (\A k \in U : d[k] \in Int /\ c[k] = d[k]) /\ c[x] = row[a]
      BY <1>2, <1>5
    <2>2. f[a] = SumFunctionOnSet(d, U) /\ h[a] = SumFunctionOnSet(c, T)
      BY DEF ColumnSums
    <2> HIDE DEF c, d
    <2>3. SumFunctionOnSet(c, T) = c[x] + SumFunctionOnSet(c, U)
      BY <1>2, <1>5, <2>1, SumTake
    <2>4. SumFunctionOnSet(c, U) = SumFunctionOnSet(d, U)
      BY <1>5, <2>1, SumSame DEF SameOn
    <2>5. SumFunctionOnSet(d, U) \in Int
      BY <1>5, <2>1, SumInt
    <2>6. row[a] \in Int
      BY <1>5
    <2> HIDE DEF f, h, row
    <2> QED BY <2>1, <2>2, <2>3, <2>4, <2>5, <2>6
  <1>8. SumFunctionOnSet(h, A) = SumFunctionOnSet(f, A) + SumFunctionOnSet(row, A)
    <2> HIDE DEF f, h, row
    <2> QED BY <1>7, SumPlus
  <1>9. SumFunctionOnSet(RowSums(m, A, T), T)
          = SumFunctionOnSet(row, A) + SumFunctionOnSet(RowSums(m, A, U), U)
    <2> DEFINE r == RowSums(m, A, T)
               q == RowSums(m, A, U)
    <2>1. \A k \in T : r[k] \in Int
      <3>1. ASSUME NEW k \in T PROVE r[k] \in Int
        <4> DEFINE w == [a \in A |-> m[<<a, k>>]]
        <4>1. (\A a \in A : w[a] \in Int) /\ r[k] = SumFunctionOnSet(w, A)
          BY <1>2 DEF RowSums
        <4> HIDE DEF w
        <4> QED BY <4>1, SumInt
      <3> QED BY <3>1
    <2>2. r[x] = SumFunctionOnSet(row, A) /\ \A k \in U : r[k] = q[k]
      BY <1>5 DEF RowSums
    <2>3. SumFunctionOnSet(r, T) = r[x] + SumFunctionOnSet(r, U)
      <3> HIDE DEF r
      <3> QED BY <1>2, <1>5, <2>1, SumTake
    <2>4. SumFunctionOnSet(r, U) = SumFunctionOnSet(q, U)
      <3> HIDE DEF r, q
      <3> QED BY <1>5, <2>2, SumSame DEF SameOn
    <2> QED BY <2>2, <2>3, <2>4
  <1>a. SumFunctionOnSet(f, A) \in Int /\ SumFunctionOnSet(row, A) \in Int
    <2> HIDE DEF f, row
    <2> QED BY <1>7, SumInt
  <1> QED BY <1>1, <1>6, <1>8, <1>9, <1>a

\* The sums over two sets apart make up the sum over both.
LEMMA SumUnion ==
    ASSUME NEW A, IsFiniteSet(A), NEW B, IsFiniteSet(B), A \cap B = {}, NEW f,
           \A x \in A \cup B : f[x] \in Int
    PROVE  SumFunctionOnSet(f, A \cup B) = SumFunctionOnSet(f, A) + SumFunctionOnSet(f, B)
  <1> DEFINE Wrong == {T \in SUBSET B : SumFunctionOnSet(f, A \cup T)
                                          # SumFunctionOnSet(f, A) + SumFunctionOnSet(f, T)}
  <1> SUFFICES ASSUME Wrong # {} PROVE FALSE
    OBVIOUS
  <1>1. PICK T \in Wrong : \A U \in Wrong : U \subseteq T => U = T
    <2> HIDE DEF Wrong
    <2>1. Wrong \subseteq SUBSET B
      BY DEF Wrong
    <2> QED BY <2>1, SmallestWrong
  <1>2. IsFiniteSet(T) /\ SumFunctionOnSet(f, A) \in Int
    BY FS_Subset, SumInt
  <1>3. T # {}
    <2> SUFFICES ASSUME T = {} PROVE FALSE
      OBVIOUS
    <2>1. A \cup T = A /\ SumFunctionOnSet(f, T) = 0
      BY SumOfNone
    <2> QED BY <1>1, <1>2, <2>1
  <1> DEFINE z == FirstOf(T)
             R == T \ {z}
  <1>4. z \in T /\ R \notin Wrong /\ R \in SUBSET B /\ IsFiniteSet(R)
    BY <1>1, <1>2, <1>3, FirstOfIn, FS_Subset
  <1>5. SumFunctionOnSet(f, A \cup R) = SumFunctionOnSet(f, A) + SumFunctionOnSet(f, R)
    BY <1>4
  <1>6. SumFunctionOnSet(f, T) = f[z] + SumFunctionOnSet(f, R)
    BY <1>2, <1>3, SumUnfolds
  <1>7. SumFunctionOnSet(f, A \cup T) = f[z] + SumFunctionOnSet(f, A \cup R)
    <2> DEFINE W == A \cup T
    <2>1. IsFiniteSet(W) /\ z \in W /\ W \ {z} = A \cup R /\ \A x \in W : f[x] \in Int
      BY <1>2, <1>4, FS_Union
    <2> HIDE DEF W, z, R, Wrong
    <2>2. SumFunctionOnSet(f, W) = f[z] + SumFunctionOnSet(f, W \ {z})
      BY <2>1, SumTake
    <2> QED BY <2>1, <2>2 DEF W
  <1>8. f[z] \in Int /\ SumFunctionOnSet(f, R) \in Int
    BY <1>4, SumInt
  <1>9. SumFunctionOnSet(f, A \cup T) # SumFunctionOnSet(f, A) + SumFunctionOnSet(f, T)
    BY <1>1
  <1> HIDE DEF z, R, Wrong
  <1> QED BY <1>2, <1>5, <1>6, <1>7, <1>8, <1>9

\* A sum over a part is the sum over the whole of what is 0 elsewhere.
LEMMA SumWithin ==
    ASSUME NEW S, IsFiniteSet(S), NEW R \in SUBSET S, NEW f, NEW g,
           \A x \in R : f[x] \in Int /\ g[x] = f[x],
           \A x \in S \ R : g[x] = 0
    PROVE  SumFunctionOnSet(f, R) = SumFunctionOnSet(g, S)
  <1>1. IsFiniteSet(R) /\ IsFiniteSet(S \ R) /\ R \cap (S \ R) = {} /\ R \cup (S \ R) = S
    BY FS_Subset
  <1>2. \A x \in S : g[x] \in Int
    OBVIOUS
  <1>3. SumFunctionOnSet(g, R \cup (S \ R))
          = SumFunctionOnSet(g, R) + SumFunctionOnSet(g, S \ R)
    <2>1. \A x \in R \cup (S \ R) : g[x] \in Int
      BY <1>1, <1>2
    <2> QED BY <1>1, <2>1, SumUnion
  <1>4. SumFunctionOnSet(g, S \ R) = 0
    BY <1>1, SumZero
  <1>5. SumFunctionOnSet(f, R) = SumFunctionOnSet(g, R)
    BY <1>1, SumSame DEF SameOn
  <1>6. SumFunctionOnSet(g, R) \in Int
    BY <1>1, <1>2, SumInt
  <1> QED BY <1>1, <1>3, <1>4, <1>5, <1>6

\* A function that is the same everywhere sums up to a multiple of the number
\* of elements; for 1 and -1, to that number and its opposite.
LEMMA SumCount ==
    ASSUME NEW S, IsFiniteSet(S), NEW v \in {1, -1}, NEW f, \A x \in S : f[x] = v
    PROVE  SumFunctionOnSet(f, S) = v * Cardinality(S)
  <1> DEFINE Wrong == {T \in SUBSET S : SumFunctionOnSet(f, T) # v * Cardinality(T)}
  <1> SUFFICES ASSUME Wrong # {} PROVE FALSE
    OBVIOUS
  <1>1. PICK T \in Wrong : \A U \in Wrong : U \subseteq T => U = T
    <2> HIDE DEF Wrong
    <2>1. Wrong \subseteq SUBSET S
      BY DEF Wrong
    <2> QED BY <2>1, SmallestWrong
  <1>2. T # {} /\ IsFiniteSet(T)
    <2>1. IsFiniteSet(T)
      BY FS_Subset
    <2>2. CASE T = {}
      <3>1. Cardinality(T) = 0 /\ SumFunctionOnSet(f, T) = 0
        BY <2>2, SumOfNone, FS_EmptySet
      <3> QED BY <3>1
    <2> QED BY <2>1, <2>2
  <1> DEFINE z == FirstOf(T)
             R == T \ {z}
  <1>3. z \in T /\ R \notin Wrong /\ R \in SUBSET S /\ IsFiniteSet(R)
    BY <1>1, <1>2, FirstOfIn, FS_Subset
  <1>4. SumFunctionOnSet(f, R) = v * Cardinality(R) /\ f[z] = v
    BY <1>3
  <1>5. SumFunctionOnSet(f, T) = f[z] + SumFunctionOnSet(f, R)
    BY <1>2, SumUnfolds
  <1>6. /\ Cardinality(R) = Cardinality(T) - 1
        /\ Cardinality(T) \in Nat /\ Cardinality(R) \in Nat
    BY <1>2, <1>3, FS_RemoveElement, FS_CardinalityType
  <1>7. SumFunctionOnSet(f, T) # v * Cardinality(T)
    BY <1>1
  <1> HIDE DEF z, R, Wrong
  <1>8. CASE v = 1
    BY <1>4, <1>5, <1>6, <1>7, <1>8
  <1>9. CASE v = -1
    BY <1>4, <1>5, <1>6, <1>7, <1>9
  <1> QED BY <1>8, <1>9

\* A sum grows with its terms.
LEMMA SumAtMost ==
    ASSUME NEW S, IsFiniteSet(S), NEW f, NEW g,
           \A x \in S : f[x] \in Int /\ g[x] \in Int /\ f[x] <= g[x]
    PROVE  SumFunctionOnSet(f, S) <= SumFunctionOnSet(g, S)
  <1> DEFINE h == [x \in S |-> g[x] - f[x]]
  <1>1. \A x \in S : h[x] \in Nat /\ h[x] \in Int /\ g[x] = f[x] + h[x]
    OBVIOUS
  <1> HIDE DEF h
  <1>2. SumFunctionOnSet(h, S) \in Nat
    BY <1>1, SumNat
  <1>3. SumFunctionOnSet(g, S) = SumFunctionOnSet(f, S) + SumFunctionOnSet(h, S)
    BY <1>1, SumPlus
  <1>4. SumFunctionOnSet(f, S) \in Int
    BY SumInt
  <1> QED BY <1>2, <1>3, <1>4

\* Two functions that differ in one entry differ in their sums by that much.
LEMMA SumMoved ==
    ASSUME NEW S, IsFiniteSet(S), NEW f \in [S -> Int], NEW g \in [S -> Int], NEW k \in S,
           \A x \in S \ {k} : g[x] = f[x]
    PROVE  /\ SumFunction(g) = SumFunction(f) - f[k] + g[k]
           /\ SumFunction(f) \in Int /\ SumFunction(g) \in Int
  <1>1. PICK v \in Int : v = g[k]
    OBVIOUS
  <1>2. g = [f EXCEPT ![k] = v]
    BY <1>1
  <1>3. SumFunction([f EXCEPT ![k] = v]) = SumFunction(f) - f[k] + v /\ SumFunction(f) \in Int
    BY SumWrite
  <1>4. f[k] \in Int
    OBVIOUS
  <1>5. SumFunction(g) = SumFunction(f) - f[k] + v
    BY <1>2, <1>3
  <1> QED BY <1>1, <1>3, <1>4, <1>5
=============================================================================
