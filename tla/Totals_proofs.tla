---------------------------- MODULE Totals_proofs ----------------------------
(***************************************************************************)
(* What MapThenSumSet computes, whatever order it takes the elements in.    *)
(* The library's induction theorems take an operator; these proofs go by a  *)
(* minimal counterexample among finite sets instead (WFMin).                *)
(***************************************************************************)
EXTENDS Integers, FiniteSetsExt, FiniteSetTheorems, TLAPS

Total(S, F) == MapThenSumSet(LAMBDA x : F[x], S)

(* g is the function by which MapThenSumSet computes its result for S. *)
Taken(s) == CHOOSE x \in s : TRUE
Computes(g, S, F) ==
  g = [s \in SUBSET S |-> IF s = {} THEN 0 ELSE F[Taken(s)] + g[s \ {Taken(s)}]]

LEMMA TakenIsElement == ASSUME NEW s, s # {} PROVE Taken(s) \in s
BY DEF Taken

LEMMA TotalComputed ==
  ASSUME NEW S, NEW F, NEW h, Computes(h, S, F)
  PROVE  \E g : Computes(g, S, F) /\ Total(S, F) = g[S]
<1> DEFINE g == CHOOSE g : Computes(g, S, F)
<1>1. Computes(g, S, F)
  BY Zenon
<1>2. Total(S, F) = g[S]
  BY Zenon DEF Total, MapThenSumSet, MapThenFoldSet, Computes, Taken
<1>3. QED  BY <1>1, <1>2

(* A set of finite sets has a minimal member. *)
LEMMA MinimalSet ==
  ASSUME NEW S, IsFiniteSet(S), NEW C, C \subseteq SUBSET S, C # {}
  PROVE  \E T \in C : \A U \in C : U \subseteq T => U = T
<1>1. \A T \in SUBSET S : IsFiniteSet(T)
  BY FS_Subset
<1>2. C \subseteq FiniteSubsetsOf(S)
  BY <1>1 DEF FiniteSubsetsOf
<1>3. \E T \in C : \A U \in C : ~(<<U, T>> \in StrictSubsetOrdering(S))
  BY <1>2, FS_StrictSubsetOrderingWellFounded, WFMin, Zenon
<1>4. QED  BY <1>3 DEF StrictSubsetOrdering

(* Two computations agree where both are defined. *)
LEMMA ComputationsAgree ==
  ASSUME NEW A, NEW B, NEW F, NEW g, NEW h, Computes(g, A, F), Computes(h, B, F),
         NEW S, IsFiniteSet(S), S \subseteq A, S \subseteq B
  PROVE  g[S] = h[S]
<1> DEFINE C == {T \in SUBSET S : g[T] # h[T]}
<1>1. SUFFICES ASSUME S \in C PROVE FALSE
  BY DEF C
<1>2. PICK T \in C : \A U \in C : U \subseteq T => U = T
  <2>1. C # {} /\ C \subseteq SUBSET S
    BY <1>1
  <2> HIDE DEF C
  <2>2. QED  BY <2>1, MinimalSet
<1>3. T # {}
  BY DEF Computes
<1>4. Taken(T) \in T
  BY <1>3, TakenIsElement
<1>5. g[T \ {Taken(T)}] = h[T \ {Taken(T)}]
  BY <1>2, <1>4
<1>6. g[T] = F[Taken(T)] + g[T \ {Taken(T)}] /\ h[T] = F[Taken(T)] + h[T \ {Taken(T)}]
  BY <1>3 DEF Computes
<1>7. QED  BY <1>5, <1>6

LEMMA ComputationExists ==
  ASSUME NEW S, IsFiniteSet(S), NEW F
  PROVE  \E g : Computes(g, S, F)
<1> DEFINE C == {T \in SUBSET S : ~\E g : Computes(g, T, F)}
<1>1. SUFFICES ASSUME S \in C PROVE FALSE
  BY DEF C
<1>2. PICK T \in C : \A U \in C : U \subseteq T => U = T
  <2>1. C # {} /\ C \subseteq SUBSET S
    BY <1>1
  <2> HIDE DEF C
  <2>2. QED  BY <2>1, MinimalSet
<1>3. \A U \in SUBSET T : U # T => \E g : Computes(g, U, F) /\ Total(U, F) = g[U]
  <2> TAKE U \in SUBSET T
  <2> HAVE U # T
  <2>1. \E g : Computes(g, U, F)
    BY <1>2
  <2>2. QED  BY <2>1, TotalComputed
<1> DEFINE h == [s \in SUBSET T |->
                   IF s = {} THEN 0 ELSE F[Taken(s)] + Total(s \ {Taken(s)}, F)]
<1>4. \A U \in SUBSET T : U # T => h[U] = Total(U, F)
  <2> TAKE U \in SUBSET T
  <2> HAVE U # T
  <2>1. PICK g : Computes(g, U, F) /\ Total(U, F) = g[U]
    BY <1>3
  <2>2. CASE U = {}
    BY <2>1, <2>2 DEF Computes
  <2>3. CASE U # {}
    <3> DEFINE V == U \ {Taken(U)}
    <3>1. V \in SUBSET T /\ V # T /\ V \subseteq U
      BY <2>3, TakenIsElement
    <3>2. PICK k : Computes(k, V, F) /\ Total(V, F) = k[V]
      BY <1>3, <3>1
    <3>3. IsFiniteSet(V)
      BY <1>2, <3>1, FS_Subset
    <3>4. k[V] = g[V]
      <4> HIDE DEF V
      <4>1. QED  BY <2>1, <3>1, <3>2, <3>3, ComputationsAgree
    <3>5. g[U] = F[Taken(U)] + g[V]
      BY <2>1, <2>3 DEF Computes
    <3>6. QED  BY <2>1, <2>3, <3>2, <3>4, <3>5
  <2>4. QED  BY <2>2, <2>3
<1>5. \A s \in SUBSET T : s # {} => Total(s \ {Taken(s)}, F) = h[s \ {Taken(s)}]
  <2> TAKE s \in SUBSET T
  <2> HAVE s # {}
  <2>1. s \ {Taken(s)} \in SUBSET T /\ s \ {Taken(s)} # T
    BY TakenIsElement
  <2> HIDE DEF h
  <2>2. QED  BY <1>4, <2>1
<1>6. h = [s \in SUBSET T |-> IF s = {} THEN 0 ELSE F[Taken(s)] + h[s \ {Taken(s)}]]
  <2> DEFINE k == [s \in SUBSET T |-> IF s = {} THEN 0 ELSE F[Taken(s)] + h[s \ {Taken(s)}]]
  <2>1. \A s \in SUBSET T : h[s] = k[s]
    <3> TAKE s \in SUBSET T
    <3>1. h[s] = IF s = {} THEN 0 ELSE F[Taken(s)] + Total(s \ {Taken(s)}, F)
      OBVIOUS
    <3>2. k[s] = IF s = {} THEN 0 ELSE F[Taken(s)] + h[s \ {Taken(s)}]
      BY Zenon
    <3> HIDE DEF h, k
    <3>3. QED  BY <1>5, <3>1, <3>2
  <2>2. /\ h = [s \in DOMAIN h |-> h[s]] /\ DOMAIN h = SUBSET T
        /\ k = [s \in DOMAIN k |-> k[s]] /\ DOMAIN k = SUBSET T
    BY Zenon
  <2> HIDE DEF h, k
  <2>3. h = k
    BY <2>1, <2>2
  <2>4. QED  BY <2>3 DEF k
<1>7. Computes(h, T, F)
  <2> HIDE DEF h
  <2>1. QED  BY <1>6, Zenon DEF Computes
<1>8. QED  BY <1>2, <1>7

LEMMA TotalTaken ==
  ASSUME NEW S, IsFiniteSet(S), NEW F
  PROVE  /\ S = {} => Total(S, F) = 0
         /\ S # {} => Total(S, F) = F[Taken(S)] + Total(S \ {Taken(S)}, F)
<1>1. PICK g : Computes(g, S, F) /\ Total(S, F) = g[S]
  BY ComputationExists, TotalComputed
<1> DEFINE V == S \ {Taken(S)}
<1>2. IsFiniteSet(V) /\ V \subseteq S
  BY FS_Subset
<1>3. PICK k : Computes(k, V, F) /\ Total(V, F) = k[V]
  <2> HIDE DEF V
  <2>1. QED  BY <1>2, ComputationExists, TotalComputed
<1>4. k[V] = g[V]
  <2> HIDE DEF V
  <2>1. QED  BY <1>1, <1>2, <1>3, ComputationsAgree
<1>5. /\ S = {} => g[S] = 0
      /\ S # {} => g[S] = F[Taken(S)] + g[V]
  BY <1>1 DEF Computes
<1>6. QED  BY <1>1, <1>3, <1>4, <1>5
-----------------------------------------------------------------------------
(* A total of naturals is a natural. *)
LEMMA TotalType ==
  ASSUME NEW S, IsFiniteSet(S), NEW F, \A x \in S : F[x] \in Nat
  PROVE  Total(S, F) \in Nat
<1> DEFINE C == {T \in SUBSET S : Total(T, F) \notin Nat}
<1>1. SUFFICES ASSUME S \in C PROVE FALSE
  BY DEF C
<1>2. PICK T \in C : \A U \in C : U \subseteq T => U = T
  <2>1. C # {} /\ C \subseteq SUBSET S
    BY <1>1
  <2> HIDE DEF C
  <2>2. QED  BY <2>1, MinimalSet
<1>3. IsFiniteSet(T)
  BY FS_Subset
<1>4. T # {}
  BY <1>3, TotalTaken
<1>5. Taken(T) \in T
  BY <1>4, TakenIsElement
<1>6. Total(T \ {Taken(T)}, F) \in Nat
  BY <1>2, <1>5
<1>7. Total(T, F) = F[Taken(T)] + Total(T \ {Taken(T)}, F)
  BY <1>3, <1>4, TotalTaken
<1>8. QED  BY <1>5, <1>6, <1>7

(* Any element may be taken first. *)
LEMMA TotalWithout ==
  ASSUME NEW S, IsFiniteSet(S), NEW F, \A x \in S : F[x] \in Nat, NEW x \in S
  PROVE  Total(S, F) = F[x] + Total(S \ {x}, F)
<1> DEFINE C == {T \in SUBSET S : \E y \in T : Total(T, F) # F[y] + Total(T \ {y}, F)}
<1>1. SUFFICES ASSUME S \in C PROVE FALSE
  BY DEF C
<1>2. PICK T \in C : \A U \in C : U \subseteq T => U = T
  <2>1. C # {} /\ C \subseteq SUBSET S
    BY <1>1
  <2> HIDE DEF C
  <2>2. QED  BY <2>1, MinimalSet
<1>3. PICK y \in T : Total(T, F) # F[y] + Total(T \ {y}, F)
  BY <1>2
<1> DEFINE z == Taken(T)
<1>4. z \in T /\ IsFiniteSet(T)
  BY TakenIsElement, FS_Subset
<1>5. Total(T, F) = F[z] + Total(T \ {z}, F)
  BY <1>3, <1>4, TotalTaken
<1> HIDE DEF z
<1>6. y # z
  BY <1>3, <1>5
<1>7. Total(T \ {z}, F) = F[y] + Total(T \ {z, y}, F)
  <2>1. T \ {z} \notin C /\ T \ {z} \in SUBSET S
    BY <1>2, <1>4
  <2>2. (T \ {z}) \ {y} = T \ {z, y}
    OBVIOUS
  <2>3. QED  BY <1>6, <2>1, <2>2
<1>8. Total(T \ {y}, F) = F[z] + Total(T \ {z, y}, F)
  <2>1. T \ {y} \notin C /\ T \ {y} \in SUBSET S
    BY <1>2
  <2>2. (T \ {y}) \ {z} = T \ {z, y}
    OBVIOUS
  <2>3. QED  BY <1>4, <1>6, <2>1, <2>2
<1>9. Total(T \ {z, y}, F) \in Nat
  <2>1. IsFiniteSet(T \ {z, y}) /\ \A w \in T \ {z, y} : F[w] \in Nat
    BY <1>4, FS_Subset
  <2>2. QED  BY <2>1, TotalType
<1>10. F[y] \in Nat /\ F[z] \in Nat
  BY <1>4
<1>11. QED  BY <1>3, <1>5, <1>7, <1>8, <1>9, <1>10

(* Fewer and smaller numbers do not total to more. *)
LEMMA TotalMonotone ==
  ASSUME NEW S, IsFiniteSet(S), NEW F, NEW G, \A x \in S : G[x] \in Nat,
         NEW R, R \subseteq S, \A x \in R : F[x] \in Nat /\ F[x] <= G[x]
  PROVE  Total(R, F) <= Total(S, G)
<1> DEFINE C == {T \in SUBSET S : ~(Total(T \cap R, F) <= Total(T, G))}
<1>1. SUFFICES ASSUME S \in C PROVE FALSE
  <2>1. S \notin C
    BY <1>1
  <2>2. S \cap R = R
    OBVIOUS
  <2>3. QED  BY <2>1, <2>2 DEF C
<1>2. PICK T \in C : \A U \in C : U \subseteq T => U = T
  <2>1. C # {} /\ C \subseteq SUBSET S
    BY <1>1
  <2> HIDE DEF C
  <2>2. QED  BY <2>1, MinimalSet
<1>3. IsFiniteSet(T) /\ IsFiniteSet(T \cap R)
  BY FS_Subset
<1>4. T # {}
  <2>1. SUFFICES ASSUME T = {} PROVE FALSE
    OBVIOUS
  <2>2. Total(T \cap R, F) = 0 /\ Total(T, G) = 0
    BY <1>3, <2>1, TotalTaken
  <2>3. QED  BY <1>2, <2>2
<1>5. PICK x \in T : TRUE
  BY <1>4
<1> DEFINE U == T \ {x}
<1>6. Total(U \cap R, F) <= Total(U, G)
  BY <1>2, <1>5
<1>7. Total(T, G) = G[x] + Total(U, G) /\ Total(U, G) \in Nat /\ G[x] \in Nat
  <2>1. \A y \in T : G[y] \in Nat
    OBVIOUS
  <2>2. IsFiniteSet(U) /\ \A y \in U : G[y] \in Nat
    BY <1>3, FS_Subset
  <2>3. Total(U, G) \in Nat
    BY <2>2, TotalType DEF U
  <2>4. QED  BY <1>3, <1>5, <2>1, <2>3, TotalWithout
<1>8. Total(T \cap R, F) = (IF x \in R THEN F[x] ELSE 0) + Total(U \cap R, F)
      /\ Total(U \cap R, F) \in Nat
  <2>1. IsFiniteSet(U \cap R) /\ \A y \in U \cap R : F[y] \in Nat
    BY <1>3, FS_Subset
  <2>2. Total(U \cap R, F) \in Nat
    BY <2>1, TotalType
  <2>3. CASE x \in R
    <3>1. (T \cap R) \ {x} = U \cap R /\ x \in T \cap R /\ \A y \in T \cap R : F[y] \in Nat
      BY <1>5, <2>3
    <3> HIDE DEF U
    <3>2. QED  BY <1>3, <2>2, <2>3, <3>1, TotalWithout
  <2>4. CASE x \notin R
    <3>1. T \cap R = U \cap R
      BY <2>4
    <3>2. Total(T \cap R, F) = Total(U \cap R, F)
      BY <3>1
    <3> HIDE DEF U, C
    <3>3. QED  BY <2>2, <2>4, <3>2
  <2>5. QED  BY <2>3, <2>4
<1> HIDE DEF U
<1>9. QED  BY <1>2, <1>6, <1>7, <1>8

(* Only the numbers of the elements count. *)
LEMMA TotalSame ==
  ASSUME NEW S, IsFiniteSet(S), NEW F, NEW G,
         \A x \in S : F[x] \in Nat /\ F[x] = G[x]
  PROVE  Total(S, F) = Total(S, G)
<1>1. Total(S, F) <= Total(S, G) /\ Total(S, G) <= Total(S, F)
  BY TotalMonotone
<1>2. Total(S, F) \in Nat /\ Total(S, G) \in Nat
  BY TotalType
<1>3. QED  BY <1>1, <1>2

(* One more number. *)
LEMMA TotalWith ==
  ASSUME NEW S, IsFiniteSet(S), NEW F, \A x \in S : F[x] \in Nat,
         NEW y, y \notin S, F[y] \in Nat
  PROVE  Total(S \cup {y}, F) = Total(S, F) + F[y]
<1>1. IsFiniteSet(S \cup {y}) /\ \A x \in S \cup {y} : F[x] \in Nat
  BY FS_AddElement
<1>2. (S \cup {y}) \ {y} = S
  OBVIOUS
<1>3. Total(S \cup {y}, F) = F[y] + Total(S, F)
  BY <1>1, <1>2, TotalWithout
<1>4. QED  BY <1>3, TotalType
-----------------------------------------------------------------------------
(* Of finitely many numbers one is the largest. *)
LEMMA LargestExists ==
  ASSUME NEW S, IsFiniteSet(S), S # {}, NEW F, \A x \in S : F[x] \in Int
  PROVE  \E x \in S : \A y \in S : F[y] <= F[x]
<1> DEFINE C == {T \in SUBSET S : T # {} /\ ~\E x \in T : \A y \in T : F[y] <= F[x]}
<1>1. SUFFICES ASSUME S \in C PROVE FALSE
  BY DEF C
<1>2. PICK T \in C : \A U \in C : U \subseteq T => U = T
  <2>1. C # {} /\ C \subseteq SUBSET S
    BY <1>1
  <2> HIDE DEF C
  <2>2. QED  BY <2>1, MinimalSet
<1>3. PICK z \in T : TRUE
  OBVIOUS
<1>4. T \ {z} # {}
  <2>1. SUFFICES ASSUME T = {z} PROVE FALSE
    BY <1>3
  <2>2. F[z] \in Int
    BY <1>3
  <2>3. QED  BY <1>2, <2>1, <2>2
<1>5. PICK x \in T \ {z} : \A y \in T \ {z} : F[y] <= F[x]
  <2>1. T \ {z} \notin C /\ T \ {z} \in SUBSET S
    BY <1>2, <1>3
  <2>2. QED  BY <1>4, <2>1
<1>6. F[x] \in Int /\ F[z] \in Int /\ \A y \in T : F[y] \in Int
  BY <1>3, <1>5
<1>7. \E v \in {x, z} : \A y \in T : F[y] <= F[v]
  <2>1. CASE F[z] <= F[x]
    BY <1>5, <2>1
  <2>2. CASE ~(F[z] <= F[x])
    <3>1. \A y \in T : F[y] <= F[z]
      BY <1>5, <1>6, <2>2
    <3>2. QED  BY <3>1
  <2>3. QED  BY <2>1, <2>2
<1>8. QED  BY <1>2, <1>3, <1>5, <1>7

(* Max and Min of FiniteSetsExt find them. *)
LEMMA MaxOf ==
  ASSUME NEW S, IsFiniteSet(S), S # {}, S \subseteq Int
  PROVE  Max(S) \in S /\ \A y \in S : y <= Max(S)
<1> DEFINE F == [x \in S |-> x]
<1>1. PICK x \in S : \A y \in S : F[y] <= F[x]
  <2>1. \A x \in S : F[x] \in Int
    OBVIOUS
  <2> HIDE DEF F
  <2>2. QED  BY <2>1, LargestExists
<1>2. \E v \in S : \A y \in S : v >= y
  BY <1>1
<1>3. QED  BY <1>2 DEF Max

LEMMA MinOf ==
  ASSUME NEW S, IsFiniteSet(S), S # {}, S \subseteq Int
  PROVE  Min(S) \in S /\ \A y \in S : Min(S) <= y
<1> DEFINE F == [x \in S |-> 0 - x]
<1>1. PICK x \in S : \A y \in S : F[y] <= F[x]
  <2>1. \A x \in S : F[x] \in Int
    OBVIOUS
  <2> HIDE DEF F
  <2>2. QED  BY <2>1, LargestExists
<1>2. \E v \in S : \A y \in S : v <= y
  BY <1>1
<1>3. QED  BY <1>2 DEF Min

LEMMA LesserOfTwo ==
  ASSUME NEW a \in Int, NEW b \in Int
  PROVE  Min({a, b}) \in {a, b} /\ Min({a, b}) <= a /\ Min({a, b}) <= b
<1>1. IsFiniteSet({a} \cup {b})
  BY FS_Singleton, FS_AddElement
<1>2. {a} \cup {b} = {a, b}
  OBVIOUS
<1>3. QED  BY <1>1, <1>2, MinOf
=============================================================================
