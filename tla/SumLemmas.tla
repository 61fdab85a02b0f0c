----------------------------- MODULE SumLemmas -----------------------------
(***************************************************************************)
(* What a sum over a finite set is, for the proofs about counted budgets   *)
(* and collected money.  FoldSet is defined by recursion over subsets;     *)
(* that the recursion has a solution and what it computes is shown by      *)
(* descent to a smallest set where it would fail (Smallest), since the     *)
(* induction theorems of the library are schemes over an operator.         *)
(***************************************************************************)
EXTENDS Integers, FiniteSets, FiniteSetsExt, FiniteSetTheorems, WellFoundedInduction, TLAPS

\* The sum of the values of v over S, as the modules fold it.
Total(S, v) == FoldSet(LAMBDA x, n : v[x] + n, 0, S)

TakeOne(s) == CHOOSE x \in s : TRUE

\* g is the function FoldSet defines over the subsets of S.
IsFolding(g, S, v) == g = [s \in SUBSET S |-> IF s = {} THEN 0 ELSE v[TakeOne(s)] + g[s \ {TakeOne(s)}]]

-----------------------------------------------------------------------------
(* The recursion.                                                           *)

\* A set of subsets of a finite set has a member none of the others is part of.
LEMMA Smallest ==
    ASSUME NEW S, IsFiniteSet(S), NEW C, C \subseteq SUBSET S, C # {}
    PROVE  \E T \in C : \A U \in C : U \subseteq T => U = T
<1>1. C \subseteq FiniteSubsetsOf(S)
  BY FS_Subset DEF FiniteSubsetsOf
<1>2. \E T \in C : \A U \in C : ~ (<<U, T>> \in StrictSubsetOrdering(S))
  BY <1>1, FS_StrictSubsetOrderingWellFounded, WFMin
<1> QED  BY <1>1, <1>2 DEF StrictSubsetOrdering, FiniteSubsetsOf

\* If the recursion has a solution, FoldSet takes one.
LEMMA TotalIsAFolding ==
    ASSUME NEW S, NEW v, \E g : IsFolding(g, S, v)
    PROVE  \E g : IsFolding(g, S, v) /\ Total(S, v) = g[S]
<1> DEFINE h == CHOOSE g : g = [s \in SUBSET S |-> IF s = {} THEN 0 ELSE v[TakeOne(s)] + g[s \ {TakeOne(s)}]]
<1>1. IsFolding(h, S, v)  BY DEF IsFolding
<1>2. Total(S, v) = h[S]  BY Zenon DEF Total, FoldSet, MapThenFoldSet, TakeOne
<1> QED  BY <1>1, <1>2

\* Two foldings agree where both are defined.
LEMMA FoldingsAgree ==
    ASSUME NEW S, NEW T, NEW v, NEW g, NEW h, IsFiniteSet(S), IsFolding(g, S, v), IsFolding(h, T, v)
    PROVE  \A s \in SUBSET (S \cap T) : g[s] = h[s]
<1> DEFINE C == {s \in SUBSET (S \cap T) : g[s] # h[s]}
<1> SUFFICES ASSUME C # {} PROVE FALSE  OBVIOUS
<1>1. PICK s \in C : \A u \in C : u \subseteq s => u = s
  <2>1. C \subseteq SUBSET S  OBVIOUS
  <2> HIDE DEF C
  <2> QED  BY <2>1, Smallest
<1>2. s \in SUBSET S /\ s \in SUBSET T /\ g[s] # h[s]  OBVIOUS
<1>3. CASE s = {}  BY <1>2, <1>3 DEF IsFolding
<1>4. CASE s # {}
  <2> DEFINE r == s \ {TakeOne(s)}
  <2>1. TakeOne(s) \in s  BY <1>4 DEF TakeOne
  <2>2. r # s /\ r \subseteq s /\ r \in SUBSET (S \cap T)  BY <1>2, <2>1
  <2>3. g[r] = h[r]  BY <1>1, <2>2
  <2>4. g[s] = v[TakeOne(s)] + g[r] /\ h[s] = v[TakeOne(s)] + h[r]  BY <1>2, <1>4 DEF IsFolding
  <2> QED  BY <1>2, <2>3, <2>4
<1> QED  BY <1>3, <1>4

\* The recursion has a solution.
LEMMA FoldingExists ==
    ASSUME NEW S, IsFiniteSet(S), NEW v
    PROVE  \E g : IsFolding(g, S, v)
<1> DEFINE C == {T \in SUBSET S : ~ \E g : IsFolding(g, T, v)}
<1> SUFFICES ASSUME C # {} PROVE FALSE  OBVIOUS
<1>1. PICK T \in C : \A U \in C : U \subseteq T => U = T
  <2>1. C \subseteq SUBSET S  OBVIOUS
  <2> HIDE DEF C
  <2> QED  BY <2>1, Smallest
<1>2. T \in SUBSET S /\ ~ \E g : IsFolding(g, T, v)  OBVIOUS
<1>3. \A U \in SUBSET T : U # T => \E g : IsFolding(g, U, v)  BY <1>1, <1>2
<1> DEFINE below(U) == CHOOSE g : IsFolding(g, U, v)
           rest(s) == s \ {TakeOne(s)}
           f == [s \in SUBSET T |-> IF s = {} THEN 0 ELSE v[TakeOne(s)] + below(rest(s))[rest(s)]]
<1>4. ASSUME NEW s \in SUBSET T, s # {} PROVE rest(s) \in SUBSET T /\ rest(s) # T /\ rest(s) # s
  BY <1>4 DEF TakeOne
<1>5. \A s \in SUBSET T : s # T => f[s] = below(s)[s]
  <2> SUFFICES ASSUME NEW s \in SUBSET T, s # T PROVE f[s] = below(s)[s]  OBVIOUS
  <2>1. IsFolding(below(s), s, v)  BY <1>3
  <2>2. CASE s = {}
    <3>1. f[s] = 0  BY <2>2
    <3>2. below(s)[s] = 0
      <4> HIDE DEF below
      <4> QED  BY <2>1, <2>2 DEF IsFolding
    <3> QED  BY <3>1, <3>2
  <2>3. CASE s # {}
    <3>1. rest(s) \in SUBSET T /\ rest(s) # T /\ rest(s) # s /\ rest(s) \subseteq s  BY <1>4, <2>3
    <3>2. IsFolding(below(rest(s)), rest(s), v)  BY <1>3, <3>1
    <3>3. IsFiniteSet(s)  BY <1>2, FS_Subset
    <3>4. below(s)[rest(s)] = below(rest(s))[rest(s)]
      <4> HIDE DEF below, rest
      <4>1. rest(s) \in SUBSET (s \cap rest(s))  BY <3>1
      <4> QED  BY <2>1, <3>2, <3>3, <4>1, FoldingsAgree
    <3>5. f[s] = v[TakeOne(s)] + below(rest(s))[rest(s)]  BY <2>3
    <3>6. below(s)[s] = v[TakeOne(s)] + below(s)[rest(s)]
      <4> HIDE DEF below
      <4> QED  BY <2>1, <2>3 DEF IsFolding
    <3> QED  BY <3>4, <3>5, <3>6
  <2> QED  BY <2>2, <2>3
<1>6. \A s \in SUBSET T : s # {} => f[s] = v[TakeOne(s)] + f[rest(s)]
  <2> SUFFICES ASSUME NEW s \in SUBSET T, s # {} PROVE f[s] = v[TakeOne(s)] + f[rest(s)]  OBVIOUS
  <2>1. f[rest(s)] = below(rest(s))[rest(s)]
    <3> HIDE DEF below, f, rest
    <3> QED  BY <1>4, <1>5
  <2>2. f[s] = v[TakeOne(s)] + below(rest(s))[rest(s)]  OBVIOUS
  <2> QED  BY <2>1, <2>2
<1>7. IsFolding(f, T, v)
  <2>1. f = [s \in SUBSET T |-> f[s]]  OBVIOUS
  <2>2. f[{}] = 0  OBVIOUS
  <2> HIDE DEF f, below
  <2> QED  BY <1>6, <2>1, <2>2 DEF IsFolding
<1> QED  BY <1>2, <1>7

-----------------------------------------------------------------------------
(* The sum.                                                                 *)

LEMMA TotalFolds ==
    ASSUME NEW S, IsFiniteSet(S), NEW v
    PROVE  \E g : IsFolding(g, S, v) /\ Total(S, v) = g[S]
  BY FoldingExists, TotalIsAFolding

LEMMA TotalOfNone == ASSUME NEW v PROVE Total({}, v) = 0
<1>1. PICK g : IsFolding(g, {}, v) /\ Total({}, v) = g[{}]  BY TotalFolds, FS_EmptySet
<1> QED  BY <1>1 DEF IsFolding

LEMMA TotalTakesOne ==
    ASSUME NEW S, IsFiniteSet(S), NEW v, S # {}
    PROVE  TakeOne(S) \in S /\ Total(S, v) = v[TakeOne(S)] + Total(S \ {TakeOne(S)}, v)
<1> DEFINE R == S \ {TakeOne(S)}
<1>1. TakeOne(S) \in S  BY DEF TakeOne
<1>2. IsFiniteSet(R)  BY FS_RemoveElement
<1>3. PICK g : IsFolding(g, S, v) /\ Total(S, v) = g[S]  BY TotalFolds
<1>4. PICK h : IsFolding(h, R, v) /\ Total(R, v) = h[R]  BY <1>2, TotalFolds
<1>5. g[R] = h[R]
  <2>1. R \in SUBSET (S \cap R)  OBVIOUS
  <2> HIDE DEF R
  <2> QED  BY <1>3, <1>4, <2>1, FoldingsAgree
<1>6. g[S] = v[TakeOne(S)] + g[R]  BY <1>3 DEF IsFolding
<1> QED  BY <1>1, <1>3, <1>4, <1>5, <1>6

LEMMA TotalIsInt ==
    ASSUME NEW S, IsFiniteSet(S), NEW v, \A x \in S : v[x] \in Int
    PROVE  Total(S, v) \in Int
<1> DEFINE C == {T \in SUBSET S : Total(T, v) \notin Int}
<1> SUFFICES ASSUME C # {} PROVE FALSE  OBVIOUS
<1>1. PICK T \in C : \A U \in C : U \subseteq T => U = T
  <2>1. C \subseteq SUBSET S  OBVIOUS
  <2> HIDE DEF C
  <2> QED  BY <2>1, Smallest
<1>2. T # {}  BY TotalOfNone
<1>3. IsFiniteSet(T)  BY FS_Subset
<1>4. TakeOne(T) \in T /\ Total(T, v) = v[TakeOne(T)] + Total(T \ {TakeOne(T)}, v)  BY <1>2, <1>3, TotalTakesOne
<1>5. Total(T \ {TakeOne(T)}, v) \in Int  BY <1>1, <1>4
<1> QED  BY <1>4, <1>5

\* Any element may be taken first.
LEMMA TotalTakesAny ==
    ASSUME NEW S, IsFiniteSet(S), NEW v, \A x \in S : v[x] \in Int, NEW y \in S
    PROVE  Total(S, v) = v[y] + Total(S \ {y}, v)
<1> DEFINE C == {T \in SUBSET S : \E x \in T : Total(T, v) # v[x] + Total(T \ {x}, v)}
<1> SUFFICES ASSUME C # {} PROVE FALSE  OBVIOUS
<1>1. PICK T \in C : \A U \in C : U \subseteq T => U = T
  <2>1. C \subseteq SUBSET S  OBVIOUS
  <2> HIDE DEF C
  <2> QED  BY <2>1, Smallest
<1>2. PICK x \in T : Total(T, v) # v[x] + Total(T \ {x}, v)  OBVIOUS
<1> DEFINE p == TakeOne(T)
           A == T \ {p}
           B == T \ {x}
           R == (T \ {p}) \ {x}
<1>3. IsFiniteSet(T) /\ IsFiniteSet(A) /\ IsFiniteSet(B) /\ IsFiniteSet(R)  BY FS_Subset, FS_RemoveElement
<1>4. p \in T /\ Total(T, v) = v[p] + Total(A, v)  BY <1>2, <1>3, TotalTakesOne
<1>5. p # x  BY <1>2, <1>4
<1>6. A \in SUBSET S /\ B \in SUBSET S /\ A # T /\ B # T /\ x \in A /\ p \in B /\ x \in S /\ p \in S
  BY <1>4, <1>5
<1>7. Total(A, v) = v[x] + Total(R, v)
  <2>1. A \notin C  BY <1>1, <1>6
  <2> QED  BY <1>6, <2>1
<1>8. Total(B, v) = v[p] + Total(R, v)
  <2>1. B \notin C  BY <1>1, <1>6
  <2>2. Total(B, v) = v[p] + Total(B \ {p}, v)  BY <1>6, <2>1
  <2>3. B \ {p} = R  OBVIOUS
  <2> QED  BY <2>2, <2>3
<1>9. Total(A, v) \in Int /\ Total(B, v) \in Int /\ Total(R, v) \in Int /\ v[x] \in Int /\ v[p] \in Int
  <2>1. R \in SUBSET S  OBVIOUS
  <2> HIDE DEF A, B, R, p
  <2> QED  BY <1>3, <1>6, <2>1, TotalIsInt
<1>10. Total(B, v) = Total(T \ {x}, v)  OBVIOUS
<1> HIDE DEF A, B, R, p, C
<1> QED  BY <1>2, <1>4, <1>7, <1>8, <1>9, <1>10

\* The sum depends on the values alone.
LEMMA TotalAgrees ==
    ASSUME NEW S, IsFiniteSet(S), NEW v, NEW w, \A x \in S : v[x] = w[x]
    PROVE  Total(S, v) = Total(S, w)
<1> DEFINE C == {T \in SUBSET S : Total(T, v) # Total(T, w)}
<1> SUFFICES ASSUME C # {} PROVE FALSE  OBVIOUS
<1>1. PICK T \in C : \A U \in C : U \subseteq T => U = T
  <2>1. C \subseteq SUBSET S  OBVIOUS
  <2> HIDE DEF C
  <2> QED  BY <2>1, Smallest
<1>2. T # {}  BY TotalOfNone
<1>3. IsFiniteSet(T)  BY FS_Subset
<1>4. /\ TakeOne(T) \in T
      /\ Total(T, v) = v[TakeOne(T)] + Total(T \ {TakeOne(T)}, v)
      /\ Total(T, w) = w[TakeOne(T)] + Total(T \ {TakeOne(T)}, w)
  BY <1>2, <1>3, TotalTakesOne
<1>5. Total(T \ {TakeOne(T)}, v) = Total(T \ {TakeOne(T)}, w)  BY <1>1, <1>4
<1> QED  BY <1>4, <1>5

\* One value changes.
LEMMA TotalChanges ==
    ASSUME NEW S, IsFiniteSet(S), NEW v, NEW w, NEW y \in S,
           \A x \in S : v[x] \in Int /\ w[x] \in Int, \A x \in S \ {y} : w[x] = v[x]
    PROVE  Total(S, w) = Total(S, v) - v[y] + w[y]
<1> DEFINE R == S \ {y}
<1>1. IsFiniteSet(R)  BY FS_RemoveElement
<1>2. Total(S, v) = v[y] + Total(R, v) /\ Total(S, w) = w[y] + Total(R, w)  BY TotalTakesAny
<1>3. Total(R, v) = Total(R, w)  BY <1>1, TotalAgrees
<1>4. Total(R, v) \in Int  BY <1>1, TotalIsInt
<1> HIDE DEF R
<1> QED  BY <1>2, <1>3, <1>4

\* One more is counted.
LEMMA TotalWith ==
    ASSUME NEW S, IsFiniteSet(S), NEW v, NEW y, y \notin S, \A x \in S \cup {y} : v[x] \in Int
    PROVE  IsFiniteSet(S \cup {y}) /\ Total(S \cup {y}, v) = Total(S, v) + v[y]
<1>1. IsFiniteSet(S \cup {y})  BY FS_AddElement
<1>2. Total(S \cup {y}, v) = v[y] + Total((S \cup {y}) \ {y}, v)  BY <1>1, TotalTakesAny
<1>3. (S \cup {y}) \ {y} = S  OBVIOUS
<1>4. Total(S, v) \in Int  BY TotalIsInt
<1>5. v[y] \in Int  OBVIOUS
<1>6. Total(S \cup {y}, v) = v[y] + Total(S, v)  BY <1>2, <1>3
<1>7. v[y] + Total(S, v) = Total(S, v) + v[y]  BY <1>4, <1>5
<1> QED  BY <1>1, <1>6, <1>7

\* No value is greater, so neither is the sum.
LEMMA TotalGrows ==
    ASSUME NEW S, IsFiniteSet(S), NEW v, NEW w, \A x \in S : v[x] \in Int /\ w[x] \in Int /\ v[x] <= w[x]
    PROVE  Total(S, v) <= Total(S, w)
<1> DEFINE C == {T \in SUBSET S : ~(Total(T, v) <= Total(T, w))}
<1> SUFFICES ASSUME C # {} PROVE FALSE  OBVIOUS
<1>1. PICK T \in C : \A U \in C : U \subseteq T => U = T
  <2>1. C \subseteq SUBSET S  OBVIOUS
  <2> HIDE DEF C
  <2> QED  BY <2>1, Smallest
<1>2. T # {}  BY TotalOfNone
<1> DEFINE p == TakeOne(T)
           R == T \ {p}
<1>3. IsFiniteSet(T) /\ IsFiniteSet(R)  BY FS_Subset, FS_RemoveElement
<1>4. p \in T /\ Total(T, v) = v[p] + Total(R, v) /\ Total(T, w) = w[p] + Total(R, w)
  BY <1>2, <1>3, TotalTakesOne
<1>5. Total(R, v) <= Total(R, w)  BY <1>1, <1>4
<1>6. Total(R, v) \in Int /\ Total(R, w) \in Int  BY <1>3, TotalIsInt
<1>7. v[p] \in Int /\ w[p] \in Int /\ v[p] <= w[p]  BY <1>4
<1>8. ~(Total(T, v) <= Total(T, w))  OBVIOUS
<1> HIDE DEF p, R, C
<1> QED  BY <1>4, <1>5, <1>6, <1>7, <1>8

\* Nothing is added.
LEMMA TotalOfZeros ==
    ASSUME NEW S, IsFiniteSet(S), NEW v, \A x \in S : v[x] = 0
    PROVE  Total(S, v) = 0
<1> DEFINE C == {T \in SUBSET S : Total(T, v) # 0}
<1> SUFFICES ASSUME C # {} PROVE FALSE  OBVIOUS
<1>1. PICK T \in C : \A U \in C : U \subseteq T => U = T
  <2>1. C \subseteq SUBSET S  OBVIOUS
  <2> HIDE DEF C
  <2> QED  BY <2>1, Smallest
<1>2. T # {}  BY TotalOfNone
<1>3. IsFiniteSet(T)  BY FS_Subset
<1>4. TakeOne(T) \in T /\ Total(T, v) = v[TakeOne(T)] + Total(T \ {TakeOne(T)}, v)  BY <1>2, <1>3, TotalTakesOne
<1>5. Total(T \ {TakeOne(T)}, v) = 0  BY <1>1, <1>4
<1> QED  BY <1>4, <1>5

\* Natural numbers add up to one, and none is more than the sum.
LEMMA TotalIsNat ==
    ASSUME NEW S, IsFiniteSet(S), NEW v, \A x \in S : v[x] \in Nat
    PROVE  Total(S, v) \in Nat /\ \A x \in S : v[x] <= Total(S, v)
<1> DEFINE z == [x \in S |-> 0]
<1>1. ASSUME NEW R \in SUBSET S PROVE Total(R, v) \in Nat
  <2>1. IsFiniteSet(R)  BY FS_Subset
  <2>2. Total(R, z) = 0  BY <2>1, TotalOfZeros
  <2>3. \A x \in R : z[x] \in Int /\ v[x] \in Int /\ z[x] <= v[x]  OBVIOUS
  <2> HIDE DEF z
  <2>4. Total(R, z) <= Total(R, v)  BY <2>1, <2>3, TotalGrows
  <2>5. Total(R, v) \in Int  BY <2>1, TotalIsInt
  <2> QED  BY <2>2, <2>4, <2>5
<1>2. ASSUME NEW x \in S PROVE v[x] <= Total(S, v)
  <2>1. Total(S, v) = v[x] + Total(S \ {x}, v)  BY TotalTakesAny
  <2>2. Total(S \ {x}, v) \in Nat  BY <1>1
  <2> QED  BY <2>1, <2>2
<1> QED  BY <1>1, <1>2

\* The sum of sums.
LEMMA TotalAdds ==
    ASSUME NEW S, IsFiniteSet(S), NEW v, NEW w, NEW u,
           \A x \in S : v[x] \in Int /\ w[x] \in Int /\ u[x] = v[x] + w[x]
    PROVE  Total(S, u) = Total(S, v) + Total(S, w)
<1> DEFINE C == {T \in SUBSET S : Total(T, u) # Total(T, v) + Total(T, w)}
<1> SUFFICES ASSUME C # {} PROVE FALSE  OBVIOUS
<1>1. PICK T \in C : \A U \in C : U \subseteq T => U = T
  <2>1. C \subseteq SUBSET S  OBVIOUS
  <2> HIDE DEF C
  <2> QED  BY <2>1, Smallest
<1>2. T # {}
  <2>1. Total({}, u) = 0 /\ Total({}, v) = 0 /\ Total({}, w) = 0  BY TotalOfNone
  <2>2. Total(T, u) # Total(T, v) + Total(T, w)  OBVIOUS
  <2> HIDE DEF C
  <2> QED  BY <2>1, <2>2
<1> DEFINE p == TakeOne(T)
           R == T \ {p}
<1>3. IsFiniteSet(T) /\ IsFiniteSet(R)  BY FS_Subset, FS_RemoveElement
<1>4. /\ p \in T /\ Total(T, u) = u[p] + Total(R, u)
      /\ Total(T, v) = v[p] + Total(R, v) /\ Total(T, w) = w[p] + Total(R, w)
  BY <1>2, <1>3, TotalTakesOne
<1>5. Total(R, u) = Total(R, v) + Total(R, w)  BY <1>1, <1>4
<1>6. Total(R, v) \in Int /\ Total(R, w) \in Int  BY <1>3, TotalIsInt
<1>7. v[p] \in Int /\ w[p] \in Int /\ u[p] = v[p] + w[p]  BY <1>4
<1>8. Total(T, u) # Total(T, v) + Total(T, w)  OBVIOUS
<1> HIDE DEF p, R, C
<1> QED  BY <1>4, <1>5, <1>6, <1>7, <1>8

\* What is zero may be left out.
LEMMA TotalOfPart ==
    ASSUME NEW S, IsFiniteSet(S), NEW v, \A x \in S : v[x] \in Int,
           NEW P \in SUBSET S, \A x \in S \ P : v[x] = 0
    PROVE  Total(S, v) = Total(P, v)
<1> DEFINE C == {T \in SUBSET S : P \subseteq T /\ Total(T, v) # Total(P, v)}
<1> SUFFICES ASSUME C # {} PROVE FALSE  OBVIOUS
<1>1. PICK T \in C : \A U \in C : U \subseteq T => U = T
  <2>1. C \subseteq SUBSET S  OBVIOUS
  <2> HIDE DEF C
  <2> QED  BY <2>1, Smallest
<1>2. PICK x \in T : x \notin P  OBVIOUS
<1>3. IsFiniteSet(T)  BY FS_Subset
<1>4. Total(T, v) = v[x] + Total(T \ {x}, v)  BY <1>3, TotalTakesAny
<1>5. Total(T \ {x}, v) = Total(P, v)  BY <1>1, <1>2
<1>6. v[x] = 0  BY <1>2
<1>7. Total(P, v) \in Int
  <2>1. IsFiniteSet(P)  BY FS_Subset
  <2> QED  BY <2>1, TotalIsInt
<1>8. Total(T, v) # Total(P, v)  OBVIOUS
<1> HIDE DEF C
<1> QED  BY <1>4, <1>5, <1>6, <1>7, <1>8

\* As many times the greatest value.
LEMMA TotalAtMost ==
    ASSUME NEW S, IsFiniteSet(S), NEW v, NEW c \in Nat, \A x \in S : v[x] \in Int /\ v[x] <= c
    PROVE  Total(S, v) <= c * Cardinality(S)
<1> DEFINE C == {T \in SUBSET S : ~(Total(T, v) <= c * Cardinality(T))}
<1> SUFFICES ASSUME C # {} PROVE FALSE  OBVIOUS
<1>1. PICK T \in C : \A U \in C : U \subseteq T => U = T
  <2>1. C \subseteq SUBSET S  OBVIOUS
  <2> HIDE DEF C
  <2> QED  BY <2>1, Smallest
<1>2. T # {}
  <2>1. Total({}, v) = 0  BY TotalOfNone
  <2>2. Cardinality({}) = 0  BY FS_EmptySet
  <2> QED  BY <2>1, <2>2
<1> DEFINE p == TakeOne(T)
           R == T \ {p}
<1>3. IsFiniteSet(T) /\ IsFiniteSet(R)  BY FS_Subset, FS_RemoveElement
<1>4. p \in T /\ Total(T, v) = v[p] + Total(R, v)  BY <1>2, <1>3, TotalTakesOne
<1>5. Total(R, v) <= c * Cardinality(R)  BY <1>1, <1>4
<1>6. Cardinality(R) = Cardinality(T) - 1 /\ Cardinality(T) \in Nat /\ Cardinality(R) \in Nat
  BY <1>3, <1>4, FS_RemoveElement, FS_CardinalityType
<1>7. Total(R, v) \in Int  BY <1>3, TotalIsInt
<1>8. v[p] \in Int /\ v[p] <= c  BY <1>4
<1>9. ~(Total(T, v) <= c * Cardinality(T))  OBVIOUS
<1>10. c * Cardinality(T) = c * Cardinality(R) + c /\ c * Cardinality(R) \in Int
  <2>1. \A m, n \in Nat : m = n - 1 => c * n = c * m + c /\ c * m \in Int  OBVIOUS
  <2> HIDE DEF R
  <2> QED  BY <1>6, <2>1
<1> HIDE DEF p, R, C
<1>11. v[p] + Total(R, v) <= c * Cardinality(R) + c  BY <1>5, <1>7, <1>8, <1>10
<1> QED  BY <1>4, <1>9, <1>10, <1>11

=============================================================================
