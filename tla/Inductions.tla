----------------------------- MODULE Inductions -----------------------------
(***************************************************************************)
(* Induction in the form the proofs of this project use it: a set, not a   *)
(* predicate, says for which numbers or which subsets a fact holds.  From  *)
(* it, what the two recursive definitions of the models compute: a sum     *)
(* over a finite set, and the n-fold application of a step.                *)
(***************************************************************************)
EXTENDS Integers, FiniteSetTheorems, TLAPS

(* Among the subsets of a finite set one has no proper subset beside it.   *)
LEMMA MinimalSubset ==
  ASSUME NEW S, IsFiniteSet(S), NEW T \in SUBSET SUBSET S, T # {}
  PROVE  \E x \in T : \A y \in T : y \subseteq x => y = x
<1>1. T \subseteq FiniteSubsetsOf(S)
  BY FS_FiniteSubsetsOfFinite
<1>2. PICK x \in T : \A y \in T : <<y, x>> \notin StrictSubsetOrdering(S)
  BY <1>1, FS_StrictSubsetOrderingWellFounded, WFMin
<1>3. \A y \in T : y \subseteq x => y = x
  BY <1>2 DEF StrictSubsetOrdering
<1> QED
  BY <1>3

(* A set that holds 0 and with each number the next holds them all.        *)
LEMMA NatSetInduction ==
  ASSUME NEW S, 0 \in S, \A n \in Nat : n \in S => n + 1 \in S
  PROVE  Nat \subseteq S
<1> SUFFICES ASSUME NEW k \in Nat, k \notin S PROVE FALSE
  OBVIOUS
<1> DEFINE I == 0 .. k
           T == {s \in SUBSET I : \E n \in 0 .. k : s = 0 .. n /\ n \notin S}
<1>1. IsFiniteSet(I)
  BY FS_Interval
<1>2. 0 .. k \in T
  OBVIOUS
<1>3. T \in SUBSET SUBSET I /\ T # {}
  BY <1>2
<1>4. PICK x \in T : \A y \in T : y \subseteq x => y = x
  <2> HIDE DEF T, I
  <2> QED
    BY <1>1, <1>3, MinimalSubset
<1>5. PICK n \in 0 .. k : x = 0 .. n /\ n \notin S
  BY <1>4
<1>6. n \in Nat /\ n # 0
  BY <1>5
<1>7. n - 1 \in Nat /\ n - 1 \in 0 .. k /\ n - 1 \notin S
  BY <1>5, <1>6
<1>8. 0 .. (n - 1) \in T
  BY <1>7
<1>9. 0 .. (n - 1) \subseteq x /\ 0 .. (n - 1) # x
  <2>1. n \in 0 .. n /\ n \notin 0 .. (n - 1) /\ 0 .. (n - 1) \subseteq 0 .. n
    BY <1>6
  <2> QED
    BY <2>1, <1>5
<1> QED
  BY <1>4, <1>8, <1>9

-----------------------------------------------------------------------------
(* Sums.  A sum is taken over every subset of S at once, one element       *)
(* picked from each.                                                       *)
Pick(s) == CHOOSE x \in s : TRUE

SumsTo(g, f, S) ==
  g = [s \in SUBSET S |-> IF s = {} THEN 0 ELSE f[Pick(s)] + g[s \ {Pick(s)}]]

SumOver(f, S) ==
  (CHOOSE g : g = [s \in SUBSET S |->
                     IF s = {} THEN 0 ELSE f[Pick(s)] + g[s \ {Pick(s)}]])[S]

LEMMA PickIn == \A s : s # {} => Pick(s) \in s
  BY DEF Pick

LEMMA SumsAt ==
  ASSUME NEW S, NEW f, NEW g, SumsTo(g, f, S), NEW s \in SUBSET S
  PROVE  g[s] = IF s = {} THEN 0 ELSE f[Pick(s)] + g[s \ {Pick(s)}]
  BY DEF SumsTo

(* Sums of equal numbers are equal.                                        *)
LEMMA SumsAgree ==
  ASSUME NEW S, IsFiniteSet(S), NEW f, NEW h, \A x \in S : f[x] = h[x],
         NEW A, NEW B, S \subseteq A, S \subseteq B,
         NEW g, SumsTo(g, f, A), NEW k, SumsTo(k, h, B)
  PROVE  \A s \in SUBSET S : g[s] = k[s]
<1> DEFINE T == {s \in SUBSET S : g[s] # k[s]}
<1> SUFFICES ASSUME T # {} PROVE FALSE
  OBVIOUS
<1>1. PICK s \in T : \A t \in T : t \subseteq s => t = s
  <2>1. T \in SUBSET SUBSET S
    OBVIOUS
  <2> HIDE DEF T
  <2> QED
    BY <2>1, MinimalSubset
<1>2. s \in SUBSET S /\ s \in SUBSET A /\ s \in SUBSET B /\ g[s] # k[s]
  BY <1>1
<1>3. s # {}
  BY ZenonT(40), <1>2, SumsAt
<1>4. Pick(s) \in s /\ s \ {Pick(s)} \in SUBSET S /\ s \ {Pick(s)} # s
  BY <1>2, <1>3, PickIn
<1>5. g[s \ {Pick(s)}] = k[s \ {Pick(s)}]
  BY <1>1, <1>4
<1>6. f[Pick(s)] = h[Pick(s)]
  BY <1>2, <1>4
<1>7. /\ g[s] = f[Pick(s)] + g[s \ {Pick(s)}]
      /\ k[s] = h[Pick(s)] + k[s \ {Pick(s)}]
  BY SMTT(30), <1>2, <1>3, SumsAt
<1> QED
  BY <1>2, <1>5, <1>6, <1>7

LEMMA SumsExist ==
  ASSUME NEW S, IsFiniteSet(S), NEW f
  PROVE  \E g : SumsTo(g, f, S)
<1> DEFINE Of(s) == CHOOSE g : SumsTo(g, f, s)
           T == {s \in SUBSET S : ~ \E g : SumsTo(g, f, s)}
<1>1. ASSUME NEW s \in SUBSET S, \E g : SumsTo(g, f, s), NEW t \in SUBSET s
      PROVE  SumsTo(Of(s), f, s) /\ Of(t)[t] = Of(s)[t] /\ SumsTo(Of(t), f, t)
  <2>1. SumsTo(Of(s), f, s)
    BY <1>1
  <2> DEFINE h == [u \in SUBSET t |-> Of(s)[u]]
  <2> HIDE DEF Of
  <2>2. SumsTo(h, f, t)
    <3>1. ASSUME NEW u \in SUBSET t
          PROVE  h[u] = IF u = {} THEN 0 ELSE f[Pick(u)] + h[u \ {Pick(u)}]
      <4>1. u \in SUBSET s /\ u \ {Pick(u)} \in SUBSET t
        OBVIOUS
      <4>2. h[u] = Of(s)[u] /\ h[u \ {Pick(u)}] = Of(s)[u \ {Pick(u)}]
        BY <4>1
      <4> QED
        BY <2>1, <4>1, <4>2, SumsAt
    <3>2. h = [u \in SUBSET t |-> h[u]]
      OBVIOUS
    <3> HIDE DEF h
    <3> QED
      BY <3>1, <3>2 DEF SumsTo
  <2>3. SumsTo(Of(t), f, t)
    <3> HIDE DEF h
    <3> QED BY <2>2 DEF Of
  <2>4. IsFiniteSet(t)
    BY FS_Subset
  <2>5. Of(t)[t] = Of(s)[t]
    BY <2>1, <2>3, <2>4, SumsAgree
  <2> QED
    BY <2>1, <2>3, <2>5
<1>2. T = {}
  <2> SUFFICES ASSUME T # {} PROVE FALSE
    OBVIOUS
  <2>1. PICK s \in T : \A t \in T : t \subseteq s => t = s
    <3>1. T \in SUBSET SUBSET S
      OBVIOUS
    <3> HIDE DEF T
    <3> QED
      BY <3>1, MinimalSubset
  <2>2. s \in SUBSET S /\ ~ \E g : SumsTo(g, f, s)
    BY <2>1
  <2>3. \A t \in SUBSET s : t # s => \E g : SumsTo(g, f, t)
    BY <2>1
  <2> DEFINE r == s \ {Pick(s)}
             top == IF s = {} THEN 0 ELSE f[Pick(s)] + Of(r)[r]
             h == [t \in SUBSET s |-> IF t = s THEN top ELSE Of(t)[t]]
  <2>4. ASSUME NEW t \in SUBSET s
        PROVE  h[t] = IF t = {} THEN 0 ELSE f[Pick(t)] + h[t \ {Pick(t)}]
    <3> DEFINE u == t \ {Pick(t)}
    <3>1. u \in SUBSET t /\ u \in SUBSET s /\ (t # {} => u # t /\ u # s)
      BY PickIn
    <3>2. t # {} => h[u] = Of(u)[u]
      BY <3>1
    <3>3. CASE t = s
      BY <3>2, <3>3
    <3>4. CASE t # s
      <4>1. t \in SUBSET S /\ h[t] = Of(t)[t]
        BY <2>2, <3>4
      <4>2. SumsTo(Of(t), f, t) /\ Of(u)[u] = Of(t)[u]
        BY <1>1, <2>3, <3>1, <3>4, <4>1
      <4>3. t \in SUBSET t
        OBVIOUS
      <4> HIDE DEF Of, h
      <4>4. Of(t)[t] = IF t = {} THEN 0 ELSE f[Pick(t)] + Of(t)[u]
        BY <4>2, <4>3, SumsAt
      <4> QED
        BY <3>2, <4>1, <4>2, <4>4
    <3> QED
      BY <3>3, <3>4
  <2>5. h = [t \in SUBSET s |-> h[t]]
    OBVIOUS
  <2> HIDE DEF h
  <2>6. SumsTo(h, f, s)
    BY <2>4, <2>5 DEF SumsTo
  <2> QED
    BY <2>2, <2>6
<1> QED
  BY <1>2

LEMMA SumOfAny ==
  ASSUME NEW S, IsFiniteSet(S), NEW f, NEW g, SumsTo(g, f, S)
  PROVE  SumOver(f, S) = g[S]
<1> DEFINE c == CHOOSE h : SumsTo(h, f, S)
<1>1. SumsTo(c, f, S)
  BY SumsExist
<1>2. SumOver(f, S) = c[S]
  BY DEF SumOver, SumsTo
<1> HIDE DEF c
<1>3. c[S] = g[S]
  BY <1>1, SumsAgree
<1> QED
  BY <1>2, <1>3

LEMMA SumSame ==
  ASSUME NEW S, IsFiniteSet(S), NEW f, NEW h, \A x \in S : f[x] = h[x]
  PROVE  SumOver(f, S) = SumOver(h, S)
<1>1. PICK g : SumsTo(g, f, S)
  BY SumsExist
<1>2. PICK k : SumsTo(k, h, S)
  BY SumsExist
<1>3. g[S] = k[S]
  BY <1>1, <1>2, SumsAgree
<1> QED
  BY <1>1, <1>2, <1>3, SumOfAny

LEMMA SumEmpty == \A f : SumOver(f, {}) = 0
<1> SUFFICES ASSUME NEW f PROVE SumOver(f, {}) = 0
  OBVIOUS
<1>1. IsFiniteSet({})
  BY FS_EmptySet
<1>2. PICK g : SumsTo(g, f, {})
  BY <1>1, SumsExist
<1>3. g[{}] = 0
  BY <1>2, SumsAt
<1> QED
  BY <1>1, <1>2, <1>3, SumOfAny

(* The sums of the subsets of S are the sums over them.                    *)
LEMMA SumOfSubset ==
  ASSUME NEW S, IsFiniteSet(S), NEW f, NEW g, SumsTo(g, f, S), NEW s \in SUBSET S
  PROVE  SumOver(f, s) = g[s]
<1>1. IsFiniteSet(s)
  BY FS_Subset
<1>2. PICK k : SumsTo(k, f, s)
  BY <1>1, SumsExist
<1>3. k[s] = g[s]
  BY <1>1, <1>2, SumsAgree
<1> QED
  BY <1>1, <1>2, <1>3, SumOfAny

LEMMA SumIsInt ==
  ASSUME NEW S, IsFiniteSet(S), NEW f, NEW N \in {Nat, Int}, \A x \in S : f[x] \in N
  PROVE  SumOver(f, S) \in N
<1>1. PICK g : SumsTo(g, f, S)
  BY SumsExist
<1> DEFINE T == {s \in SUBSET S : g[s] \notin N}
<1>2. CASE T # {}
  <2>1. PICK s \in T : \A t \in T : t \subseteq s => t = s
    <3>1. T \in SUBSET SUBSET S
      OBVIOUS
    <3> HIDE DEF T
    <3> QED
      BY <1>2, <3>1, MinimalSubset
  <2>2. s \in SUBSET S /\ g[s] \notin N
    BY <2>1
  <2>3. g[s] = IF s = {} THEN 0 ELSE f[Pick(s)] + g[s \ {Pick(s)}]
    BY <1>1, <2>2, SumsAt
  <2>4. s # {}
    BY <2>2, <2>3
  <2>5. Pick(s) \in s /\ f[Pick(s)] \in N
    BY <2>2, <2>4, PickIn
  <2>6. g[s \ {Pick(s)}] \in N
    BY <2>1, <2>5
  <2> QED
    BY <2>2, <2>3, <2>4, <2>5, <2>6
<1>3. CASE T = {}
  BY <1>1, <1>3, SumOfAny
<1> QED
  BY <1>2, <1>3

(* The order in which the elements are picked does not matter: a sum is    *)
(* any one of its terms and the sum of the others.                         *)
LEMMA SumRemove ==
  ASSUME NEW S, IsFiniteSet(S), NEW f, \A x \in S : f[x] \in Int, NEW y \in S
  PROVE  SumOver(f, S) = f[y] + SumOver(f, S \ {y})
<1>1. PICK g : SumsTo(g, f, S)
  BY SumsExist
<1>2. \A s \in SUBSET S : g[s] \in Int
  <2> SUFFICES ASSUME NEW s \in SUBSET S PROVE g[s] \in Int
    OBVIOUS
  <2>1. IsFiniteSet(s) /\ \A x \in s : f[x] \in Int
    BY FS_Subset
  <2>2. SumOver(f, s) \in Int
    BY <2>1, SumIsInt
  <2> QED
    BY <1>1, <2>2, SumOfSubset
<1> DEFINE T == {s \in SUBSET S : \E z \in s : g[s] # f[z] + g[s \ {z}]}
<1>3. CASE T # {}
  <2>1. PICK s \in T : \A t \in T : t \subseteq s => t = s
    <3>1. T \in SUBSET SUBSET S
      OBVIOUS
    <3> HIDE DEF T
    <3> QED
      BY <1>3, <3>1, MinimalSubset
  <2>2. PICK z \in s : g[s] # f[z] + g[s \ {z}]
    BY <2>1
  <2>3. s \in SUBSET S /\ \A t \in SUBSET s : t # s =>
                             \A x \in t : g[t] = f[x] + g[t \ {x}]
    BY <2>1
  <2> DEFINE x == Pick(s)
  <2>4. x \in s /\ g[s] = f[x] + g[s \ {x}]
    <3>1. s # {} /\ Pick(s) \in s
      BY <2>2, PickIn
    <3> HIDE DEF T
    <3> QED
      BY <1>1, <2>3, <3>1, SumsAt
  <2> HIDE DEF x
  <2>5. x # z
    BY <2>2, <2>4
  <2>6. g[s \ {x}] = f[z] + g[(s \ {x}) \ {z}]
    BY <2>2, <2>3, <2>4, <2>5
  <2>7. g[s \ {z}] = f[x] + g[(s \ {z}) \ {x}]
    BY <2>2, <2>3, <2>4, <2>5
  <2>8. (s \ {x}) \ {z} = (s \ {z}) \ {x}
    OBVIOUS
  <2>9. f[x] \in Int /\ f[z] \in Int /\ g[(s \ {x}) \ {z}] \in Int
    BY <1>2, <2>2, <2>3, <2>4
  <2> DEFINE u == g[(s \ {x}) \ {z}]
  <2>10. /\ g[s] = f[x] + (f[z] + u) /\ g[s \ {z}] = f[x] + u
         /\ g[s] # f[z] + g[s \ {z}] /\ u \in Int
    BY <2>2, <2>4, <2>6, <2>7, <2>8, <2>9
  <2> HIDE DEF u, T
  <2> QED
    BY <2>9, <2>10
<1>4. CASE T = {}
  <2>1. g[S] = f[y] + g[S \ {y}]
    BY <1>4
  <2> QED
    BY <1>1, <2>1, SumOfSubset
<1> QED
  BY <1>3, <1>4

LEMMA SumAdd ==
  ASSUME NEW S, IsFiniteSet(S), NEW f, NEW y, y \notin S,
         \A x \in S \cup {y} : f[x] \in Int
  PROVE  SumOver(f, S \cup {y}) = f[y] + SumOver(f, S)
<1> DEFINE A == S \cup {y}
<1>1. IsFiniteSet(A)
  BY FS_AddElement
<1>2. y \in A /\ A \ {y} = S /\ \A x \in A : f[x] \in Int
  OBVIOUS
<1> HIDE DEF A
<1>3. SumOver(f, A) = f[y] + SumOver(f, A \ {y})
  BY <1>1, <1>2, SumRemove
<1> QED
  BY <1>2, <1>3 DEF A

(* A sum of naturals is at least each of its terms.                        *)
LEMMA SumAbove ==
  ASSUME NEW S, IsFiniteSet(S), NEW f, \A x \in S : f[x] \in Nat, NEW y \in S
  PROVE  SumOver(f, S) >= f[y]
<1>1. SumOver(f, S) = f[y] + SumOver(f, S \ {y})
  BY SumRemove
<1>2. IsFiniteSet(S \ {y})
  BY FS_RemoveElement
<1>3. SumOver(f, S \ {y}) \in Nat
  BY <1>2, SumIsInt
<1> QED
  BY <1>1, <1>3

(* A sum of equal terms is a product.                                      *)
LEMMA SumOfEqual ==
  ASSUME NEW S, IsFiniteSet(S), NEW f, NEW k \in Int, \A x \in S : f[x] = k
  PROVE  SumOver(f, S) = Cardinality(S) * k
<1>1. PICK g : SumsTo(g, f, S)
  BY SumsExist
<1> DEFINE T == {s \in SUBSET S : g[s] # Cardinality(s) * k}
<1>2. CASE T # {}
  <2>1. PICK s \in T : \A t \in T : t \subseteq s => t = s
    <3>1. T \in SUBSET SUBSET S
      OBVIOUS
    <3> HIDE DEF T
    <3> QED
      BY <1>2, <3>1, MinimalSubset
  <2>2. s \in SUBSET S /\ g[s] # Cardinality(s) * k
    BY <2>1
  <2>3. g[s] = IF s = {} THEN 0 ELSE f[Pick(s)] + g[s \ {Pick(s)}]
    <3>1. s \in SUBSET S
      BY <2>2
    <3> HIDE DEF T
    <3> QED
      BY <1>1, <3>1, SumsAt
  <2>4. IsFiniteSet(s) /\ Cardinality(s) \in Nat /\ (s = {} => Cardinality(s) = 0)
    BY <2>2, FS_Subset, FS_CardinalityType, FS_EmptySet
  <2>5. s # {}
    BY <2>2, <2>3, <2>4
  <2> DEFINE r == s \ {Pick(s)}
  <2>6. Pick(s) \in s /\ f[Pick(s)] = k
    BY <2>2, <2>5, PickIn
  <2>7. Cardinality(r) = Cardinality(s) - 1
    BY <2>4, <2>6, FS_RemoveElement
  <2>8. g[r] = Cardinality(r) * k
    BY <2>1, <2>6
  <2>9. g[s] = k + (Cardinality(s) - 1) * k
    BY <2>3, <2>5, <2>6, <2>7, <2>8
  <2>10. \A n \in Nat : k + (n - 1) * k = n * k
    OBVIOUS
  <2> QED
    BY <2>2, <2>4, <2>9, <2>10
<1>3. CASE T = {}
  BY <1>1, <1>3, SumOfAny
<1> QED
  BY <1>2, <1>3

-----------------------------------------------------------------------------
(* Reachability: a set widened n times by the successors of its elements.  *)
Widen(edge, A) == A \cup UNION {edge[u] : u \in A}

WidensTo(R, edge, s) ==
  R = [n \in Nat |-> IF n = 0 THEN s ELSE Widen(edge, R[n - 1])]

LEMMA WidenedAt ==
  ASSUME NEW R, NEW edge, NEW s, WidensTo(R, edge, s)
  PROVE  R[0] = s /\ \A n \in Nat : R[n + 1] = Widen(edge, R[n])
<1>1. R[0] = s
  BY DEF WidensTo
<1>2. ASSUME NEW n \in Nat PROVE R[n + 1] = Widen(edge, R[n])
  <2>1. n + 1 \in Nat /\ n + 1 # 0 /\ (n + 1) - 1 = n
    OBVIOUS
  <2> QED
    BY <2>1 DEF WidensTo
<1> QED
  BY <1>1, <1>2

LEMMA WidenStays ==
  ASSUME NEW D, NEW edge, \A u \in D : edge[u] \subseteq D, NEW A, A \subseteq D
  PROVE  Widen(edge, A) \subseteq D
  BY DEF Widen

LEMMA WidenedStays ==
  ASSUME NEW D, NEW edge, \A u \in D : edge[u] \subseteq D, NEW s, s \subseteq D,
         NEW R, WidensTo(R, edge, s)
  PROVE  \A n \in Nat : R[n] \subseteq D
<1> DEFINE T == {n \in Nat : R[n] \subseteq D}
<1>1. 0 \in T
  BY WidenedAt
<1>2. ASSUME NEW n \in Nat, n \in T PROVE n + 1 \in T
  BY <1>2, WidenedAt, WidenStays
<1>3. Nat \subseteq T
  <2> HIDE DEF T
  <2> QED
    BY <1>1, <1>2, NatSetInduction
<1> QED
  BY <1>3

(* The definition by recursion has a solution: the finite tables of the    *)
(* first values agree with each other.                                     *)
LEMMA WidenExists ==
  ASSUME NEW D, NEW edge, \A u \in D : edge[u] \subseteq D, NEW s, s \subseteq D
  PROVE  \E R : WidensTo(R, edge, s)
<1> DEFINE Table(n, f) ==
             /\ f \in [0 .. n -> SUBSET D]
             /\ f[0] = s
             /\ \A i \in 0 .. n : i # n => f[i + 1] = Widen(edge, f[i])
           T == {n \in Nat : \E f : Table(n, f)}
<1>1. Nat \subseteq T
  <2>1. 0 \in T
    <3>1. [i \in 0 .. 0 |-> s] \in [0 .. 0 -> SUBSET D] /\ [i \in 0 .. 0 |-> s][0] = s
      OBVIOUS
    <3>2. Table(0, [i \in 0 .. 0 |-> s])
      BY <3>1
    <3> QED
      BY <3>2
  <2>2. ASSUME NEW n \in Nat, n \in T PROVE n + 1 \in T
    <3>1. PICK f : Table(n, f)
      BY <2>2
    <3> DEFINE g == [i \in 0 .. (n + 1) |-> IF i = n + 1 THEN Widen(edge, f[n]) ELSE f[i]]
    <3>2. \A i \in 0 .. (n + 1) : i # n + 1 => i \in 0 .. n /\ i + 1 \in 0 .. (n + 1)
      OBVIOUS
    <3>3. \A i \in 0 .. n : (i = n <=> i + 1 = n + 1) /\ i \in 0 .. (n + 1) /\ i # n + 1
      OBVIOUS
    <3>4. n \in 0 .. n /\ 0 \in 0 .. n /\ 0 \in 0 .. (n + 1)
      OBVIOUS
    <3>5. Widen(edge, f[n]) \subseteq D
      BY <3>1, <3>4, WidenStays
    <3>6. g \in [0 .. (n + 1) -> SUBSET D] /\ g[0] = s
      BY <3>1, <3>2, <3>3, <3>4, <3>5
    <3>7. ASSUME NEW i \in 0 .. (n + 1), i # n + 1
          PROVE  g[i + 1] = Widen(edge, g[i])
      <4>1. i \in 0 .. n /\ i + 1 \in 0 .. (n + 1) /\ g[i] = f[i]
        BY <3>2, <3>7
      <4>2. CASE i = n
        BY <4>1, <4>2
      <4>3. CASE i # n
        <5>1. g[i + 1] = f[i + 1]
          BY <3>3, <4>1, <4>3
        <5> QED
          BY <3>1, <4>1, <4>3, <5>1
      <4> QED
        BY <4>2, <4>3
    <3>8. Table(n + 1, g)
      BY <3>6, <3>7
    <3> QED
      BY SMTT(30), <3>8
  <2> HIDE DEF T
  <2> QED
    BY <2>1, <2>2, NatSetInduction
<1> DEFINE tab(n) == CHOOSE f : Table(n, f)
<1>2. \A n \in Nat : Table(n, tab(n))
  BY <1>1
<1>3. ASSUME NEW m \in Nat, NEW n \in Nat, m <= n PROVE tab(m)[m] = tab(n)[m]
  <2> DEFINE E == {i \in Nat : i <= m => tab(m)[i] = tab(n)[i]}
  <2> HIDE DEF tab
  <2>1. 0 \in E
    BY <1>2
  <2>2. ASSUME NEW i \in Nat, i \in E PROVE i + 1 \in E
    <3> SUFFICES ASSUME i + 1 <= m PROVE tab(m)[i + 1] = tab(n)[i + 1]
      OBVIOUS
    <3>1. /\ i <= m /\ i \in 0 .. m /\ i # m /\ i \in 0 .. n /\ i # n
      BY <1>3
    <3>2. tab(m)[i] = tab(n)[i]
      BY <2>2, <3>1
    <3>3. tab(m)[i + 1] = Widen(edge, tab(m)[i]) /\ tab(n)[i + 1] = Widen(edge, tab(n)[i])
      BY <1>2, <3>1
    <3> QED
      BY <3>2, <3>3
  <2>3. Nat \subseteq E
    <3> HIDE DEF E
    <3> QED
      BY <2>1, <2>2, NatSetInduction
  <2> QED
    BY <2>3
<1> HIDE DEF tab
<1> DEFINE R == [n \in Nat |-> tab(n)[n]]
<1>4. R[0] = s
  BY <1>2
<1>5. ASSUME NEW n \in Nat, n # 0 PROVE R[n] = Widen(edge, R[n - 1])
  <2>1. /\ n - 1 \in Nat /\ n - 1 <= n /\ n - 1 \in 0 .. n /\ n - 1 # n
        /\ (n - 1) + 1 = n
    BY <1>5
  <2>2. tab(n)[n] = Widen(edge, tab(n)[n - 1])
    BY <1>2, <2>1
  <2>3. tab(n - 1)[n - 1] = tab(n)[n - 1]
    BY <1>3, <2>1
  <2> QED
    BY <2>1, <2>2, <2>3
<1>6. R = [n \in Nat |-> IF n = 0 THEN s ELSE Widen(edge, R[n - 1])]
  BY <1>4, <1>5
<1> HIDE DEF R
<1>7. WidensTo(R, edge, s)
  BY <1>6 DEF WidensTo
<1> QED
  BY <1>7

(* As many steps as there are elements to add are enough: the result is    *)
(* closed, and it is the least closed set.                                 *)
LEMMA WidenCloses ==
  ASSUME NEW D, IsFiniteSet(D), NEW edge, \A u \in D : edge[u] \subseteq D,
         NEW s, s \subseteq D, NEW R, WidensTo(R, edge, s),
         NEW N \in Nat, Cardinality(D) <= N + Cardinality(s)
  PROVE  /\ s \subseteq R[N] /\ R[N] \subseteq D
         /\ \A u \in R[N] : edge[u] \subseteq R[N]
         /\ \A X : s \subseteq X /\ (\A u \in X : edge[u] \subseteq X) => R[N] \subseteq X
<1>1. R[0] = s /\ \A n \in Nat : R[n + 1] = Widen(edge, R[n])
  BY WidenedAt
<1>2. \A n \in Nat : R[n] \subseteq D
  BY WidenedStays
<1>3. \A n \in Nat : IsFiniteSet(R[n]) /\ Cardinality(R[n]) \in Nat
                     /\ Cardinality(R[n]) <= Cardinality(D)
  BY <1>2, FS_Subset, FS_CardinalityType
<1>4. \A n \in Nat : R[n] \subseteq R[n + 1]
  BY <1>1 DEF Widen
<1>5. \A n \in Nat : R[n] # R[n + 1] => Cardinality(R[n + 1]) >= Cardinality(R[n]) + 1
  <2> SUFFICES ASSUME NEW n \in Nat, R[n] # R[n + 1]
               PROVE  Cardinality(R[n + 1]) >= Cardinality(R[n]) + 1
    OBVIOUS
  <2> DEFINE A == R[n]
             B == R[n + 1]
  <2>1. n + 1 \in Nat
    OBVIOUS
  <2>2. IsFiniteSet(B) /\ A \in SUBSET B /\ A # B /\ Cardinality(A) \in Nat /\ Cardinality(B) \in Nat
    BY <1>3, <1>4, <2>1
  <2> HIDE DEF A, B
  <2>3. Cardinality(A) <= Cardinality(B) /\ Cardinality(A) # Cardinality(B)
    BY <2>2, FS_Subset
  <2>4. Cardinality(B) >= Cardinality(A) + 1
    BY <2>2, <2>3
  <2> QED
    BY <2>4 DEF A, B
<1>6. Nat \subseteq {n \in Nat : s \subseteq R[n]}
  <2> DEFINE T == {n \in Nat : s \subseteq R[n]}
  <2>1. 0 \in T /\ \A n \in Nat : n \in T => n + 1 \in T
    BY <1>1, <1>4
  <2> HIDE DEF T
  <2>2. Nat \subseteq T
    BY <2>1, NatSetInduction
  <2> QED
    BY <2>2 DEF T
<1>7. Cardinality(s) \in Nat /\ Cardinality(D) \in Nat
  BY FS_Subset, FS_CardinalityType
<1>8. R[N] = R[N + 1]
  <2> DEFINE c == Cardinality(s)
             T == {n \in Nat : R[n] = R[n + 1] \/ Cardinality(R[n + 1]) >= n + 1 + c}
  <2>1. 0 \in T
    <3>1. 0 \in Nat /\ 0 + 1 = 1
      OBVIOUS
    <3>2. R[0] # R[0 + 1] => Cardinality(R[0 + 1]) >= c + 1
      BY <1>1, <1>5, <3>1
    <3> QED
      BY <1>7, <3>1, <3>2
  <2>2. ASSUME NEW n \in Nat, n \in T PROVE n + 1 \in T
    <3>1. n + 1 \in Nat /\ (n + 1) + 1 \in Nat
      OBVIOUS
    <3>2. CASE R[n] = R[n + 1]
      <4>1. R[n + 1] = R[(n + 1) + 1]
        BY <1>1, <3>1, <3>2
      <4> QED
        BY <3>1, <4>1
    <3>3. CASE Cardinality(R[n + 1]) >= n + 1 + c
      <4>1. R[n + 1] # R[(n + 1) + 1] =>
              Cardinality(R[(n + 1) + 1]) >= Cardinality(R[n + 1]) + 1
        BY <1>5, <3>1
      <4>2. Cardinality(R[n + 1]) \in Nat /\ Cardinality(R[(n + 1) + 1]) \in Nat
        BY <1>3, <3>1
      <4>3. R[n + 1] # R[(n + 1) + 1] => Cardinality(R[(n + 1) + 1]) >= (n + 1) + 1 + c
        BY <1>7, <3>3, <4>1, <4>2
      <4> QED
        BY <3>1, <4>3
    <3> QED
      BY <2>2, <3>2, <3>3
  <2>3. N \in T
    <3> HIDE DEF T
    <3> QED
      BY <2>1, <2>2, NatSetInduction
  <2>4. N + 1 \in Nat
    OBVIOUS
  <2>5. Cardinality(R[N + 1]) <= Cardinality(D) /\ Cardinality(R[N + 1]) \in Nat
    BY <1>3, <2>4
  <2>6. ~(Cardinality(R[N + 1]) >= N + 1 + c)
    BY <1>7, <2>5
  <2> QED
    BY <2>3, <2>6
<1>9. ASSUME NEW X, s \subseteq X, \A u \in X : edge[u] \subseteq X
      PROVE  R[N] \subseteq X
  <2> DEFINE T == {n \in Nat : R[n] \subseteq X}
  <2>1. 0 \in T
    BY <1>1, <1>9
  <2>2. \A n \in Nat : n \in T => n + 1 \in T
    BY <1>1, <1>9, WidenStays
  <2>3. N \in T
    <3> HIDE DEF T
    <3> QED
      BY <2>1, <2>2, NatSetInduction
  <2> QED
    BY <2>3
<1>10. \A u \in R[N] : edge[u] \subseteq R[N]
  BY <1>1, <1>8 DEF Widen
<1> QED
  BY <1>2, <1>6, <1>9, <1>10

=============================================================================
