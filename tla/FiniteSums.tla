----------------------------- MODULE FiniteSums -----------------------------
(***************************************************************************)
(* The sum of the amounts of a finite set of rows, by the definition of    *)
(* MapThenSumSet: a fold, whose recursive function is a CHOOSE.  What such *)
(* a function computes follows by induction, and the induction from the    *)
(* fact that a set of finite sets has a minimal member: the least          *)
(* counterexample would have a smaller one.                                *)
(***************************************************************************)
EXTENDS Integers, FiniteSets, FiniteSetTheorems, FiniteSetsExt, TLAPS

\* A non-empty set of finite sets has a member minimal for inclusion.
LEMMA MinimalSubset ==
  ASSUME NEW S, NEW F, F \subseteq FiniteSubsetsOf(S), F # {}
  PROVE  \E T \in F : \A U \in F : U \subseteq T => U = T
<1>1. IsWellFoundedOn(StrictSubsetOrdering(S), FiniteSubsetsOf(S))
  BY FS_StrictSubsetOrderingWellFounded
<1>2. PICK T \in F : \A U \in F : <<U, T>> \notin StrictSubsetOrdering(S)
  BY <1>1, WFMin
<1>. QED
  BY <1>2 DEF StrictSubsetOrdering, FiniteSubsetsOf

\* A non-empty set of naturals has a least member.
LEMMA Least ==
  ASSUME NEW T, T \subseteq Nat, T # {}
  PROVE  \E m \in T : \A k \in T : m <= k
<1>. DEFINE F == {{j \in T : j <= k} : k \in T}
<1>1. F \subseteq FiniteSubsetsOf(Nat)
  <2>. SUFFICES ASSUME NEW k \in T PROVE {j \in T : j <= k} \in FiniteSubsetsOf(Nat)
    OBVIOUS
  <2>1. IsFiniteSet({j \in T : j <= k})
    BY FS_BoundedSetOfNaturals
  <2>. QED BY <2>1 DEF FiniteSubsetsOf
<1>2. PICK G \in F : \A U \in F : U \subseteq G => U = G
  <2>. F # {} OBVIOUS
  <2>. HIDE DEF F
  <2>. QED BY <1>1, MinimalSubset
<1>3. PICK m \in T : G = {j \in T : j <= m}
  OBVIOUS
<1>4. \A k \in T : m <= k
  <2>. SUFFICES ASSUME NEW k \in T, k < m PROVE FALSE
    OBVIOUS
  <2>0. {j \in T : j <= k} \in F
    OBVIOUS
  <2>1. {j \in T : j <= k} \subseteq G
    <3>. SUFFICES ASSUME NEW j \in T, j <= k PROVE j \in G
      OBVIOUS
    <3>1. j \in Nat /\ k \in Nat /\ m \in Nat
      OBVIOUS
    <3>2. j <= m
      BY <3>1
    <3>. QED BY <3>2, <1>3
  <2>2. m \in {j \in T : j <= k}
    <3>. HIDE DEF F
    <3>1. m \in G
      BY <1>3
    <3>. QED BY <3>1, <1>2, <2>0, <2>1
  <2>. QED BY <2>2
<1>. QED BY <1>4

\* Induction over the naturals.
LEMMA NaturalInduction ==
  ASSUME NEW P, 0 \in P, \A n \in Nat : n \in P => n + 1 \in P
  PROVE  Nat \subseteq P
<1>. DEFINE Bad == Nat \ P
<1>. SUFFICES ASSUME Bad # {} PROVE FALSE
  OBVIOUS
<1>1. PICK m \in Bad : \A k \in Bad : m <= k
  <2>. HIDE DEF Bad
  <2>1. Bad \subseteq Nat
     BY DEF Bad
  <2>. QED BY <2>1, Least
<1>2. m # 0 /\ m - 1 \in Nat /\ m - 1 \notin Bad
  BY <1>1
<1>. QED BY <1>1, <1>2
-----------------------------------------------------------------------------
(* The sum, and the recursive function that MapThenSumSet chooses for it.  *)

Pick(s) == CHOOSE x \in s : TRUE

Total(H, S) == MapThenSumSet(LAMBDA h : H[h].amount, S)

Adds(H, S, f) ==
  f = [s \in SUBSET S |-> IF s = {} THEN 0 ELSE H[Pick(s)].amount + f[s \ {Pick(s)}]]

LEMMA TotalIs ==
  ASSUME NEW H, NEW S
  PROVE  Total(H, S) = (CHOOSE f : Adds(H, S, f))[S]
BY DEF Total, MapThenSumSet, MapThenFoldSet, Adds, Pick

\* The stages of the induction that builds the recursive function.
Low(S, n) == {s \in SUBSET S : Cardinality(s) <= n}

LEMMA LowSets ==
  ASSUME NEW S, IsFiniteSet(S)
  PROVE  /\ \A s \in Low(S, 0) : s = {}
         /\ \A n \in Nat : /\ Low(S, n) \subseteq Low(S, n + 1)
                           /\ \A s \in Low(S, n + 1) : s # {} => s \ {Pick(s)} \in Low(S, n)
         /\ Cardinality(S) \in Nat
         /\ Low(S, Cardinality(S)) = SUBSET S
<1>1. ASSUME NEW s \in SUBSET S
      PROVE  /\ Cardinality(s) \in Nat
             /\ Cardinality(s) <= Cardinality(S)
             /\ Cardinality(s) = 0 => s = {}
             /\ s # {} => Cardinality(s \ {Pick(s)}) = Cardinality(s) - 1
  <2>1. IsFiniteSet(s) /\ Cardinality(s) <= Cardinality(S)
    BY FS_Subset
  <2>2. s # {} => Pick(s) \in s
    BY DEF Pick
  <2>. QED
    BY <2>1, <2>2, FS_CardinalityType, FS_EmptySet, FS_RemoveElement
<1>2. Cardinality(S) \in Nat
  BY FS_CardinalityType
<1>3. ASSUME NEW s \in Low(S, 0) PROVE s = {}
  <2>1. s \in SUBSET S /\ Cardinality(s) <= 0
    BY DEF Low
  <2>2. Cardinality(s) \in Nat
    BY <2>1, <1>1
  <2>3. Cardinality(s) = 0
    BY <2>1, <2>2
  <2>. QED BY <2>1, <2>3, <1>1
<1>4. ASSUME NEW n \in Nat, NEW s \in Low(S, n) PROVE s \in Low(S, n + 1)
  <2>1. s \in SUBSET S /\ Cardinality(s) <= n
    BY DEF Low
  <2>2. Cardinality(s) \in Nat
    BY <2>1, <1>1
  <2>3. Cardinality(s) <= n + 1
    BY <2>1, <2>2
  <2>. QED BY <2>1, <2>3 DEF Low
<1>5. ASSUME NEW n \in Nat, NEW s \in Low(S, n + 1), s # {} PROVE s \ {Pick(s)} \in Low(S, n)
  <2>1. s \in SUBSET S /\ Cardinality(s) <= n + 1
    BY DEF Low
  <2>2. Cardinality(s \ {Pick(s)}) <= n
    BY <2>1, <1>1, <1>5
  <2>. QED BY <2>1, <2>2 DEF Low
<1>6. Low(S, Cardinality(S)) = SUBSET S
  BY <1>1 DEF Low
<1>. QED
  BY <1>2, <1>3, <1>4, <1>5, <1>6

\* There is such a function for every finite set.
LEMMA SumFunctionExists ==
  ASSUME NEW H, NEW S, IsFiniteSet(S)
  PROVE  \E f : Adds(H, S, f)
<1>. DEFINE Added(f, s) == IF s = {} THEN 0 ELSE H[Pick(s)].amount + f[s \ {Pick(s)}]
            P == {n \in Nat : \E f : f = [s \in Low(S, n) |-> Added(f, s)]}
<1>2. 0 \in P
  <2>. DEFINE g == [s \in Low(S, 0) |-> 0]
  <2>1. \A s \in Low(S, 0) : Added(g, s) = 0
    BY LowSets
  <2>2. g = [s \in Low(S, 0) |-> Added(g, s)]
    <3>. HIDE DEF Added
    <3>. QED BY <2>1
  <2>. QED BY <2>2
<1>3. ASSUME NEW n \in Nat, n \in P PROVE n + 1 \in P
  <2>1. PICK f : f = [s \in Low(S, n) |-> Added(f, s)]
    BY <1>3
  <2>. DEFINE g == [s \in Low(S, n + 1) |-> Added(f, s)]
  <2>2. \A s \in Low(S, n) : g[s] = f[s]
    <3>. HIDE DEF Added
    <3>1. \A s \in Low(S, n) : f[s] = Added(f, s)
      BY <2>1
    <3>2. \A s \in Low(S, n + 1) : g[s] = Added(f, s)
      OBVIOUS
    <3>. QED BY <3>1, <3>2, LowSets
  <2>3. \A s \in Low(S, n + 1) : Added(g, s) = Added(f, s)
    <3>. HIDE DEF g
    <3>. QED BY <2>2, LowSets
  <2>4. g = [s \in Low(S, n + 1) |-> Added(g, s)]
    <3>. HIDE DEF Added
    <3>. QED BY <2>3
  <2>5. \E f2 : f2 = [s \in Low(S, n + 1) |-> Added(f2, s)]
    <3>. HIDE DEF g, Added
    <3>. QED BY <2>4
  <2>. HIDE DEF g, Added
  <2>. QED BY <2>5
<1>4. Cardinality(S) \in P
  <2>. HIDE DEF P
  <2>1. Nat \subseteq P
    BY <1>2, <1>3, NaturalInduction
  <2>. QED BY <2>1, LowSets
<1>5. PICK f : f = [s \in Low(S, Cardinality(S)) |-> Added(f, s)]
  BY <1>4
<1>6. f = [s \in SUBSET S |-> Added(f, s)]
  BY <1>5, LowSets
<1>. QED
  BY <1>6 DEF Adds

\* Two of them agree where both are defined.
LEMMA SumFunctionsAgree ==
  ASSUME NEW H, NEW S, IsFiniteSet(S), NEW T \in SUBSET S, NEW f, NEW g,
         Adds(H, S, f), Adds(H, T, g)
  PROVE  f[T] = g[T]
<1>. DEFINE F == {s \in SUBSET T : f[s] # g[s]}
<1>. SUFFICES ASSUME F # {} PROVE FALSE
  OBVIOUS
<1>1. F \subseteq FiniteSubsetsOf(S)
  BY FS_Subset DEF FiniteSubsetsOf
<1>2. PICK s \in F : \A u \in F : u \subseteq s => u = s
  <2>. HIDE DEF F
  <2>. QED BY <1>1, MinimalSubset
<1>3. CASE s = {}
  BY <1>3 DEF Adds
<1>4. CASE s # {}
  <2>. DEFINE u == s \ {Pick(s)}
  <2>1. Pick(s) \in s
    BY <1>4 DEF Pick
  <2>2. u \notin F /\ u \in SUBSET T
    BY <1>2, <2>1
  <2>3. f[u] = g[u]
    BY <2>2
  <2>4. s \in SUBSET S /\ s \in SUBSET T /\ u \in SUBSET S
    OBVIOUS
  <2>5. f[s] = H[Pick(s)].amount + f[u] /\ g[s] = H[Pick(s)].amount + g[u]
    BY <1>4, <2>4 DEF Adds
  <2>. QED BY <2>3, <2>5
<1>. QED BY <1>3, <1>4

-----------------------------------------------------------------------------
(* What the sum is.                                                        *)

LEMMA TotalUnfolds ==
  ASSUME NEW H, NEW S, IsFiniteSet(S)
  PROVE  /\ Total(H, {}) = 0
         /\ S # {} => Total(H, S) = H[Pick(S)].amount + Total(H, S \ {Pick(S)})
<1>1. ASSUME NEW T, IsFiniteSet(T)
      PROVE  \E f : Adds(H, T, f) /\ Total(H, T) = f[T]
  <2>. DEFINE f == CHOOSE f : Adds(H, T, f)
  <2>1. Adds(H, T, f)
    BY <1>1, SumFunctionExists
  <2>. QED BY <2>1, TotalIs
<1>2. Total(H, {}) = 0
  <2>1. IsFiniteSet({})
    BY FS_EmptySet
  <2>2. PICK f : Adds(H, {}, f) /\ Total(H, {}) = f[{}]
    BY <1>1, <2>1
  <2>3. f[{}] = 0
    BY <2>2 DEF Adds
  <2>. QED BY <2>2, <2>3
<1>3. ASSUME S # {} PROVE Total(H, S) = H[Pick(S)].amount + Total(H, S \ {Pick(S)})
  <2>. DEFINE T == S \ {Pick(S)}
  <2>1. PICK f : Adds(H, S, f) /\ Total(H, S) = f[S]
    BY <1>1
  <2>2. IsFiniteSet(T)
    BY FS_RemoveElement
  <2>3. PICK g : Adds(H, T, g) /\ Total(H, T) = g[T]
    BY <1>1, <2>2
  <2>4. f[T] = g[T]
    BY <2>1, <2>3, SumFunctionsAgree
  <2>5. f[S] = H[Pick(S)].amount + f[T]
    BY <2>1, <1>3 DEF Adds
  <2>. QED BY <2>1, <2>3, <2>4, <2>5
<1>. QED BY <1>2, <1>3

LEMMA TotalNat ==
  ASSUME NEW H, NEW S, IsFiniteSet(S), \A x \in S : H[x].amount \in Nat
  PROVE  Total(H, S) \in Nat
<1>. DEFINE F == {s \in SUBSET S : Total(H, s) \notin Nat}
<1>. SUFFICES ASSUME F # {} PROVE FALSE
  OBVIOUS
<1>1. F \subseteq FiniteSubsetsOf(S)
  BY FS_Subset DEF FiniteSubsetsOf
<1>2. PICK s \in F : \A u \in F : u \subseteq s => u = s
  <2>. HIDE DEF F
  <2>. QED BY <1>1, MinimalSubset
<1>3. IsFiniteSet(s)
  BY FS_Subset
<1>4. s # {}
  <2>1. Total(H, s) \notin Nat
    OBVIOUS
  <2>2. Total(H, {}) = 0
    BY <1>3, TotalUnfolds
  <2>. QED BY <2>1, <2>2
<1>5. Pick(s) \in s
  BY <1>4 DEF Pick
<1>6. Total(H, s \ {Pick(s)}) \in Nat
  BY <1>2, <1>5
<1>7. Total(H, s) = H[Pick(s)].amount + Total(H, s \ {Pick(s)})
  BY <1>3, <1>4, TotalUnfolds
<1>. QED
  BY <1>5, <1>6, <1>7

\* The sum depends on the amounts alone.
LEMMA TotalSame ==
  ASSUME NEW H, NEW G, NEW S, IsFiniteSet(S), \A x \in S : H[x].amount = G[x].amount
  PROVE  Total(H, S) = Total(G, S)
<1>. DEFINE F == {s \in SUBSET S : Total(H, s) # Total(G, s)}
<1>. SUFFICES ASSUME F # {} PROVE FALSE
  OBVIOUS
<1>1. F \subseteq FiniteSubsetsOf(S)
  BY FS_Subset DEF FiniteSubsetsOf
<1>2. PICK s \in F : \A u \in F : u \subseteq s => u = s
  <2>. HIDE DEF F
  <2>. QED BY <1>1, MinimalSubset
<1>3. IsFiniteSet(s)
  BY FS_Subset
<1>4. s # {}
  BY <1>3, TotalUnfolds
<1>5. Pick(s) \in s
  BY <1>4 DEF Pick
<1>6. Total(H, s \ {Pick(s)}) = Total(G, s \ {Pick(s)})
  BY <1>2, <1>5
<1>7. /\ Total(H, s) = H[Pick(s)].amount + Total(H, s \ {Pick(s)})
      /\ Total(G, s) = G[Pick(s)].amount + Total(G, s \ {Pick(s)})
  BY <1>3, <1>4, TotalUnfolds
<1>. QED
  BY <1>5, <1>6, <1>7

\* Any row may be taken out of the sum, whichever the fold takes first.
LEMMA TotalWithout ==
  ASSUME NEW H, NEW S, IsFiniteSet(S), \A x \in S : H[x].amount \in Nat, NEW y \in S
  PROVE  Total(H, S) = H[y].amount + Total(H, S \ {y})
<1>. DEFINE F == {s \in SUBSET S : \E x \in s : Total(H, s) # H[x].amount + Total(H, s \ {x})}
<1>. SUFFICES ASSUME F # {} PROVE FALSE
  OBVIOUS
<1>1. F \subseteq FiniteSubsetsOf(S)
  BY FS_Subset DEF FiniteSubsetsOf
<1>2. PICK s \in F : \A u \in F : u \subseteq s => u = s
  <2>. HIDE DEF F
  <2>. QED BY <1>1, MinimalSubset
<1>3. PICK x \in s : Total(H, s) # H[x].amount + Total(H, s \ {x})
  OBVIOUS
<1>. DEFINE p == Pick(s)
<1>4. p \in s /\ IsFiniteSet(s)
  BY FS_Subset DEF Pick
<1>5. Total(H, s) = H[p].amount + Total(H, s \ {p})
  BY <1>3, <1>4, TotalUnfolds
<1>6. p # x
  BY <1>3, <1>5
<1>7. Total(H, s \ {p}) = H[x].amount + Total(H, (s \ {p}) \ {x})
  <2>1. s \ {p} \notin F
    BY <1>2, <1>4
  <2>. QED BY <2>1, <1>6
<1>8. Total(H, s \ {x}) = H[p].amount + Total(H, (s \ {x}) \ {p})
  <2>1. s \ {x} \notin F
    BY <1>2
  <2>. QED BY <2>1, <1>6, <1>4
<1>9. (s \ {p}) \ {x} = (s \ {x}) \ {p}
  OBVIOUS
<1>10. Total(H, (s \ {x}) \ {p}) \in Nat
  <2>1. IsFiniteSet((s \ {x}) \ {p})
    BY <1>4, FS_Subset
  <2>2. \A z \in (s \ {x}) \ {p} : H[z].amount \in Nat
    OBVIOUS
  <2>. QED BY <2>1, <2>2, TotalNat
<1>. QED
  <2>. HIDE DEF p
  <2>1. H[p].amount \in Nat /\ H[x].amount \in Nat
    BY <1>4
  <2>. DEFINE rest == Total(H, (s \ {x}) \ {p})
  <2>2. /\ Total(H, s) = H[p].amount + (H[x].amount + rest)
        /\ Total(H, s \ {x}) = H[p].amount + rest
    BY <1>5, <1>7, <1>8, <1>9
  <2>3. \A a, b, c \in Nat : a + (b + c) = b + (a + c)
    OBVIOUS
  <2>4. rest \in Nat
    BY <1>10
  <2>5. H[p].amount + (H[x].amount + rest) = H[x].amount + (H[p].amount + rest)
    <3>. HIDE DEF rest
    <3>. QED BY <2>1, <2>3, <2>4
  <2>. QED BY <1>3, <2>2, <2>5

\* A row more adds its amount.
LEMMA TotalWith ==
  ASSUME NEW H, NEW S, IsFiniteSet(S), NEW y, y \notin S,
         \A x \in S \cup {y} : H[x].amount \in Nat
  PROVE  Total(H, S \cup {y}) = H[y].amount + Total(H, S)
<1>1. IsFiniteSet(S \cup {y})
  BY FS_AddElement
<1>2. (S \cup {y}) \ {y} = S
  OBVIOUS
<1>. QED
  BY <1>1, <1>2, TotalWithout

\* A part of the rows holds no more than the whole.
LEMMA TotalPart ==
  ASSUME NEW H, NEW S, IsFiniteSet(S), \A x \in S : H[x].amount \in Nat,
         NEW T \in SUBSET S
  PROVE  Total(H, T) <= Total(H, S)
<1>. DEFINE F == {s \in SUBSET S : T \subseteq s /\ ~(Total(H, T) <= Total(H, s))}
<1>. SUFFICES ASSUME F # {} PROVE FALSE
  OBVIOUS
<1>1. F \subseteq FiniteSubsetsOf(S)
  BY FS_Subset DEF FiniteSubsetsOf
<1>2. PICK s \in F : \A u \in F : u \subseteq s => u = s
  <2>. HIDE DEF F
  <2>. QED BY <1>1, MinimalSubset
<1>3. IsFiniteSet(s) /\ IsFiniteSet(T)
  BY FS_Subset
<1>4. Total(H, T) \in Nat /\ \A x \in s : H[x].amount \in Nat
  BY <1>3, TotalNat
<1>5. PICK y \in s : y \notin T
  <2>1. s # T
    BY <1>4
  <2>. QED BY <2>1
<1>6. Total(H, T) <= Total(H, s \ {y})
  BY <1>2, <1>5
<1>7. Total(H, s) = H[y].amount + Total(H, s \ {y})
  BY <1>3, <1>4, <1>5, TotalWithout
<1>8. Total(H, s \ {y}) \in Nat
  <2>1. IsFiniteSet(s \ {y}) /\ \A x \in s \ {y} : H[x].amount \in Nat
    BY <1>3, <1>4, FS_RemoveElement
  <2>. QED BY <2>1, TotalNat
<1>9. Total(H, T) <= Total(H, s)
  BY <1>4, <1>5, <1>6, <1>7, <1>8
<1>. QED
  BY <1>2, <1>9
=============================================================================
