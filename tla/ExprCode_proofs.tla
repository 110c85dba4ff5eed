--------------------------- MODULE ExprCode_proofs ---------------------------
(***************************************************************************)
(* The code of a plain statement, however deep, leaves the stack as it     *)
(* found it, frees every temporary string, and neither the compiler nor    *)
(* the machine comes to grief over it.                                     *)
(*                                                                         *)
(* Each piece of text is a path of shapes: which words the code has put on *)
(* the stack since the piece began, and which of them are temporaries.     *)
(* Each task of the parser has an effect on the shapes of the pieces that  *)
(* does not depend on how the operands look inside (Step), and the tasks   *)
(* that are left lead to one piece that ends with no word (Typed).         *)
(*                                                                         *)
(* In this order: sequences, shapes and pieces; configurations, which are  *)
(* what the parser knows of package code; what each task does to them; the *)
(* end of a statement; the invariant Sound; that each action of the parser *)
(* and each instruction of the machine preserves it; the theorems.         *)
(***************************************************************************)
EXTENDS ExprCode, Inductions, SequenceTheorems

-----------------------------------------------------------------------------
(* Sequences of anything.                                                  *)

IsSeq(s) == \E S : s \in Seq(S)

LEMMA SeqLen ==
  ASSUME NEW s, IsSeq(s)
  PROVE  Len(s) \in Nat /\ DOMAIN s = 1 .. Len(s) /\ s = [i \in 1 .. Len(s) |-> s[i]]
  BY DEF IsSeq

LEMMA SeqSame ==
  ASSUME NEW s, NEW t, IsSeq(s), IsSeq(t), Len(s) = Len(t),
         \A i \in 1 .. Len(s) : s[i] = t[i]
  PROVE  s = t
<1>1. s = [i \in 1 .. Len(s) |-> s[i]] /\ t = [i \in 1 .. Len(t) |-> t[i]]
  BY SeqLen
<1> QED
  BY <1>1

LEMMA SeqOfNone == IsSeq(<< >>) /\ Len(<< >>) = 0
<1>1. << >> \in Seq({}) /\ Len(<< >>) = 0
  BY EmptySeq
<1> QED
  BY <1>1 DEF IsSeq

LEMMA SeqEmpty ==
  ASSUME NEW s, IsSeq(s)
  PROVE  s = << >> <=> Len(s) = 0
<1>1. Len(s) = 0 => s = << >>
  BY SeqOfNone, SeqSame, SeqLen
<1> QED
  BY <1>1, SeqOfNone

LEMMA SeqOne == \A x : IsSeq(<<x>>) /\ Len(<<x>>) = 1 /\ <<x>>[1] = x
<1> SUFFICES ASSUME NEW x PROVE IsSeq(<<x>>) /\ Len(<<x>>) = 1 /\ <<x>>[1] = x
  OBVIOUS
<1>1. <<x>> \in Seq({x})
  OBVIOUS
<1> QED
  BY <1>1 DEF IsSeq

LEMMA SeqAppend ==
  ASSUME NEW s, IsSeq(s), NEW x
  PROVE  /\ IsSeq(Append(s, x)) /\ Len(Append(s, x)) = Len(s) + 1
         /\ \A i \in 1 .. Len(s) : Append(s, x)[i] = s[i]
         /\ Append(s, x)[Len(s) + 1] = x
<1>1. PICK S : s \in Seq(S)
  BY DEF IsSeq
<1>2. s \in Seq(S \cup {x})
  BY <1>1, SeqMonotonic
<1>3. Append(s, x) \in Seq(S \cup {x})
  BY <1>2
<1> QED
  BY <1>2, <1>3 DEF IsSeq

LEMMA SeqConcat ==
  \A s, t : IsSeq(s) /\ IsSeq(t) =>
         /\ IsSeq(s \o t) /\ Len(s \o t) = Len(s) + Len(t)
         /\ \A i \in 1 .. Len(s) : (s \o t)[i] = s[i]
         /\ \A i \in 1 .. Len(t) : (s \o t)[Len(s) + i] = t[i]
<1> SUFFICES ASSUME NEW s, IsSeq(s), NEW t, IsSeq(t)
             PROVE  /\ IsSeq(s \o t) /\ Len(s \o t) = Len(s) + Len(t)
                    /\ \A i \in 1 .. Len(s) : (s \o t)[i] = s[i]
                    /\ \A i \in 1 .. Len(t) : (s \o t)[Len(s) + i] = t[i]
  OBVIOUS
<1>1. PICK S : s \in Seq(S)
  BY DEF IsSeq
<1>2. PICK T : t \in Seq(T)
  BY DEF IsSeq
<1>3. s \in Seq(S \cup T) /\ t \in Seq(S \cup T)
  BY <1>1, <1>2, SeqMonotonic
<1>4. s \o t \in Seq(S \cup T)
  BY <1>3
<1> QED
  BY <1>3, <1>4 DEF IsSeq

LEMMA SeqSub ==
  ASSUME NEW s, IsSeq(s), NEW m \in Int, NEW n \in Int, 1 <= m, m <= n + 1, n <= Len(s)
  PROVE  /\ IsSeq(SubSeq(s, m, n)) /\ Len(SubSeq(s, m, n)) = n - m + 1
         /\ \A i \in 1 .. (n - m + 1) : SubSeq(s, m, n)[i] = s[m + i - 1]
<1>1. PICK S : s \in Seq(S)
  BY DEF IsSeq
<1>2. SubSeq(s, m, n) \in Seq(S)
  <2>1. CASE m = n + 1
    <3>1. m > n
      BY <2>1
    <3>2. SubSeq(s, m, n) = << >>
      BY <1>1, <3>1, SubSeqEmpty
    <3> QED
      BY <3>2
  <2>2. CASE m <= n
    <3>1. m \in 1 .. Len(s) + 1 /\ n \in m - 1 .. Len(s)
      BY <1>1, <2>2
    <3>2. \A i \in m .. n : s[i] \in S
      BY <1>1, <2>2
    <3> QED
      BY <1>1, <3>1, <3>2, SubSeqProperties
  <2> QED
    BY <2>1, <2>2
<1>3. m \in 1 .. Len(s) + 1 /\ n \in m - 1 .. Len(s)
  BY <1>1
<1>4. /\ Len(SubSeq(s, m, n)) = n - m + 1
      /\ \A i \in 1 .. (n - m + 1) : SubSeq(s, m, n)[i] = s[m + i - 1]
  BY <1>1, <1>3, SubSeqProperties
<1> QED
  BY <1>2, <1>4 DEF IsSeq

-----------------------------------------------------------------------------
(* Pieces put after each other.                                            *)

Joins(F, s) ==
  /\ F[1] = s[1]
  /\ \A i \in 1 .. Len(s) : i # 1 => F[i] = F[i - 1] \o s[i]

LEMMA FlattenJoins ==
  ASSUME NEW s, IsSeq(s), Len(s) >= 1
  PROVE  \E F : Joins(F, s) /\ FlattenSeq(s) = F[Len(s)]
<1>0. Len(s) \in Nat
  BY SeqLen
<1> DEFINE Table(F, n) ==
             F = [i \in 1 .. n |-> IF i = 1 THEN s[i] ELSE F[i - 1] \o s[i]]
           T == {n \in Nat : \E F : Table(F, n)}
<1>1. 0 \in T
  <2>1. Table([i \in 1 .. 0 |-> s[i]], 0)
    OBVIOUS
  <2> QED
    BY <2>1
<1>2. ASSUME NEW n \in Nat, n \in T PROVE n + 1 \in T
  <2>1. PICK F : Table(F, n)
    BY <1>2
  <2> DEFINE v == IF n = 0 THEN s[1] ELSE F[n] \o s[n + 1]
             G == [i \in 1 .. (n + 1) |-> IF i = n + 1 THEN v ELSE F[i]]
  <2>2. \A i \in 1 .. n : F[i] = IF i = 1 THEN s[i] ELSE F[i - 1] \o s[i]
    BY <2>1
  <2>3. ASSUME NEW i \in 1 .. (n + 1)
        PROVE  G[i] = IF i = 1 THEN s[i] ELSE G[i - 1] \o s[i]
    <3>1. CASE i # n + 1
      <4>1. i \in 1 .. n /\ G[i] = F[i] /\ (i # 1 => i - 1 \in 1 .. (n + 1) /\ i - 1 # n + 1)
        BY <3>1
      <4>2. i # 1 => G[i - 1] = F[i - 1]
        BY <4>1
      <4> HIDE DEF G, v
      <4> QED
        BY <2>2, <4>1, <4>2
    <3>2. CASE i = n + 1
      <4>1. G[i] = v /\ (i = 1 <=> n = 0)
        BY <3>2
      <4>2. i # 1 => n \in 1 .. (n + 1) /\ n # n + 1 /\ i - 1 = n
        BY <3>2
      <4>3. i # 1 => G[i - 1] = F[n]
        BY <4>2
      <4> HIDE DEF G
      <4> QED
        BY <3>2, <4>1, <4>3
    <3> QED
      BY <3>1, <3>2
  <2>4. Table(G, n + 1)
    <3>1. G = [i \in 1 .. (n + 1) |-> G[i]]
      OBVIOUS
    <3>2. [i \in 1 .. (n + 1) |-> G[i]] =
            [i \in 1 .. (n + 1) |-> IF i = 1 THEN s[i] ELSE G[i - 1] \o s[i]]
      <4> HIDE DEF G
      <4> QED
        BY <2>3
    <3> HIDE DEF G
    <3> QED
      BY <3>1, <3>2
  <2>5. n + 1 \in Nat
    OBVIOUS
  <2> HIDE DEF G
  <2> QED
    BY <2>4, <2>5
<1>3. Len(s) \in T
  <2> HIDE DEF T
  <2> QED
    BY <1>0, <1>1, <1>2, NatSetInduction
<1> DEFINE F == CHOOSE f : f = [i \in 1 .. Len(s) |-> IF i = 1 THEN s[i] ELSE f[i - 1] \o s[i]]
<1>4. F = [i \in 1 .. Len(s) |-> IF i = 1 THEN s[i] ELSE F[i - 1] \o s[i]]
  BY <1>3
<1>5. FlattenSeq(s) = F[Len(s)]
  BY <1>0 DEF FlattenSeq
<1> HIDE DEF F
<1>6. Joins(F, s)
  <2>1. 1 \in 1 .. Len(s)
    BY <1>0
  <2>2. \A i \in 1 .. Len(s) : F[i] = IF i = 1 THEN s[i] ELSE F[i - 1] \o s[i]
    BY <1>4
  <2> QED
    BY <2>1, <2>2 DEF Joins
<1> QED
  BY <1>5, <1>6

(* When all pieces but the first are empty, the first one is left.         *)
LEMMA FlattenFirst ==
  ASSUME NEW s, IsSeq(s), Len(s) >= 1, \A i \in 1 .. Len(s) : IsSeq(s[i]),
         \A i \in 1 .. Len(s) : i # 1 => s[i] = << >>
  PROVE  FlattenSeq(s) = s[1]
<1>0. Len(s) \in Nat
  BY SeqLen
<1>1. PICK F : Joins(F, s) /\ FlattenSeq(s) = F[Len(s)]
  BY FlattenJoins
<1> DEFINE T == {n \in Nat : n + 1 <= Len(s) => F[n + 1] = s[1]}
<1>2. 0 \in T
  BY <1>1 DEF Joins
<1>3. ASSUME NEW n \in Nat, n \in T PROVE n + 1 \in T
  <2> SUFFICES ASSUME (n + 1) + 1 <= Len(s) PROVE F[(n + 1) + 1] = s[1]
    OBVIOUS
  <2> DEFINE i == (n + 1) + 1
  <2>1. i \in 1 .. Len(s) /\ i # 1 /\ i - 1 = n + 1 /\ 1 \in 1 .. Len(s) /\ n + 1 <= Len(s)
    BY <1>0
  <2>2. F[i - 1] = s[1] /\ s[i] = << >>
    BY <1>3, <2>1
  <2> HIDE DEF i
  <2>3. F[i] = s[1] \o << >>
    BY <1>1, <2>1, <2>2 DEF Joins
  <2>4. s[1] \o << >> = s[1]
    BY <2>1, ConcatEmptySeq DEF IsSeq
  <2> QED
    BY <2>3, <2>4 DEF i
<1>4. Len(s) - 1 \in T
  <2>1. Nat \subseteq T
    <3> HIDE DEF T
    <3> QED
      BY <1>2, <1>3, NatSetInduction
  <2>2. Len(s) - 1 \in Nat
    BY <1>0
  <2> HIDE DEF T
  <2> QED
    BY <2>1, <2>2
<1>5. Len(s) - 1 + 1 = Len(s)
  BY <1>0
<1> QED
  BY <1>0, <1>1, <1>4, <1>5

-----------------------------------------------------------------------------
(* Shapes: the words that code has put on the stack, the last one on top.  *)

Words == {"num", "tmp"}
Shapes == Seq(Words)
s ++ t == s \o t
Nums(n) == [i \in 1 .. n |-> "num"]
WordOf(type) == IF type = "str" THEN "tmp" ELSE "num"

LEMMA NumsType ==
  ASSUME NEW n \in Nat
  PROVE  Nums(n) \in Shapes /\ Len(Nums(n)) = n /\ \A i \in 1 .. n : Nums(n)[i] = "num"
  BY DEF Nums, Shapes, Words

LEMMA NoNums == Nums(0) = << >>
<1>1. Nums(0) \in Shapes /\ Len(Nums(0)) = 0
  BY NumsType
<1> QED
  BY <1>1 DEF Shapes

LEMMA OneNum == Nums(1) = <<"num">>
<1>1. Nums(1) \in Shapes /\ Len(Nums(1)) = 1 /\ \A i \in 1 .. 1 : Nums(1)[i] = "num"
  BY NumsType
<1>2. IsSeq(Nums(1)) /\ IsSeq(<<"num">>) /\ Len(<<"num">>) = 1 /\ <<"num">>[1] = "num"
  BY <1>1, SeqOne DEF Shapes, IsSeq
<1>3. \A i \in 1 .. Len(Nums(1)) : Nums(1)[i] = <<"num">>[i]
  BY <1>1, <1>2
<1> DEFINE s == Nums(1)
           t == <<"num">>
<1>4. IsSeq(s) /\ IsSeq(t) /\ Len(s) = Len(t) /\ \A i \in 1 .. Len(s) : s[i] = t[i]
  BY <1>1, <1>2, <1>3
<1> HIDE DEF s, t
<1>5. s = t
  BY <1>4, SeqSame
<1> QED
  BY <1>5 DEF s, t

LEMMA ShapeIsSeq == \A s \in Shapes : IsSeq(s) /\ Len(s) \in Nat
  BY DEF Shapes, IsSeq

LEMMA ShapeConcat ==
  \A s, t \in Shapes : s ++ t \in Shapes /\ Len(s ++ t) = Len(s) + Len(t)
  BY DEF Shapes, ++

LEMMA ShapeAssoc ==
  \A s, t, u \in Shapes : (s ++ t) ++ u = s ++ (t ++ u)
  BY ConcatAssociative DEF Shapes, ++

LEMMA ShapeEmpty ==
  << >> \in Shapes /\ Len(<< >>) = 0 /\ \A s \in Shapes : s ++ << >> = s /\ << >> ++ s = s
  BY ConcatEmptySeq DEF Shapes, ++

LEMMA ShapeAt ==
  ASSUME NEW s \in Shapes, NEW t \in Shapes
  PROVE  /\ \A i \in 1 .. Len(s) : (s ++ t)[i] = s[i]
         /\ \A i \in 1 .. Len(t) : (s ++ t)[Len(s) + i] = t[i]
  BY SeqConcat, ShapeIsSeq DEF ++

LEMMA NumsAdd ==
  ASSUME NEW m \in Nat, NEW n \in Nat
  PROVE  Nums(m) ++ Nums(n) = Nums(m + n)
<1>1. /\ Nums(m) \in Shapes /\ Len(Nums(m)) = m /\ \A i \in 1 .. m : Nums(m)[i] = "num"
      /\ Nums(n) \in Shapes /\ Len(Nums(n)) = n /\ \A i \in 1 .. n : Nums(n)[i] = "num"
      /\ m + n \in Nat
  BY NumsType
<1>2. /\ Nums(m + n) \in Shapes /\ Len(Nums(m + n)) = m + n
      /\ \A i \in 1 .. (m + n) : Nums(m + n)[i] = "num"
  BY <1>1, NumsType
<1> DEFINE s == Nums(m)
           t == Nums(n)
           u == Nums(m + n)
<1>7. s \in Shapes /\ Len(s) = m /\ t \in Shapes /\ Len(t) = n
  BY <1>1
<1> HIDE DEF s, t, u
<1>3. /\ IsSeq(s ++ t) /\ Len(s ++ t) = m + n
      /\ \A i \in 1 .. m : (s ++ t)[i] = s[i]
      /\ \A i \in 1 .. n : (s ++ t)[m + i] = t[i]
  <2>1. /\ IsSeq(s ++ t) /\ Len(s ++ t) = Len(s) + Len(t)
        /\ \A i \in 1 .. Len(s) : (s ++ t)[i] = s[i]
        /\ \A i \in 1 .. Len(t) : (s ++ t)[Len(s) + i] = t[i]
    BY <1>7, ShapeConcat, ShapeAt, ShapeIsSeq
  <2> QED
    BY <1>7, <2>1
<1>4. ASSUME NEW i \in 1 .. (m + n) PROVE (s ++ t)[i] = "num"
  <2>1. i \in 1 .. m \/ (i - m \in 1 .. n /\ m + (i - m) = i)
    OBVIOUS
  <2>2. CASE i \in 1 .. m
    BY <1>1, <1>3, <2>2 DEF s
  <2>3. CASE i - m \in 1 .. n /\ m + (i - m) = i
    <3> DEFINE k == i - m
    <3>1. k \in 1 .. n /\ m + k = i
      BY <2>3
    <3> HIDE DEF k
    <3>2. (s ++ t)[m + k] = "num"
      BY <1>1, <1>3, <3>1 DEF t
    <3> QED
      BY <3>1, <3>2
  <2> QED
    BY <2>1, <2>2, <2>3
<1>5. IsSeq(u) /\ Len(u) = m + n /\ \A i \in 1 .. (m + n) : u[i] = "num"
  BY <1>2, ShapeIsSeq DEF u
<1>6. s ++ t = u
  BY <1>3, <1>4, <1>5, SeqSame
<1> QED
  BY <1>6 DEF s, t, u

(* What an instruction does to a shape.                                    *)
Flow(i, s, t) ==
  \/ i.op \in {"push", "reserve"} /\ i.n \in Nat /\ (i.op = "push" => i.n = 1)
     /\ t = s ++ Nums(i.n)
  \/ i.op \in {"pop", "drop", "operator"} /\ i.n \in Nat
     /\ (i.op \in {"pop", "operator"} => i.n = 1) /\ s = t ++ Nums(i.n)
  \/ i.op = "call" /\ i.n \in Nat /\ Funcs[i.s] = "none" /\ t = s /\ i.n <= Len(s)
  \/ i.op = "call" /\ i.n \in Nat /\ Funcs[i.s] # "none"
     /\ \E u, w \in Shapes : /\ Len(w) = i.n /\ s = (u ++ Nums(1)) ++ w
                             /\ t = (u ++ <<WordOf(Funcs[i.s])>>) ++ w
  \/ i.op = "free" /\ i.n \in 1 .. Len(s) /\ s[Len(s) - i.n + 1] = "tmp"
     /\ t = [s EXCEPT ![Len(s) - i.n + 1] = "num"]
  \/ i.op \in {"jz", "jnz", "label"} /\ i.n \in Nat /\ t = s
  \/ i.op \in {"load", "const", "unary", "operconst", "comment", "store", "storeconst",
               "result", "block"} /\ t = s

(* The words below do not matter.                                          *)
LEMMA FlowAbove ==
  ASSUME NEW i, NEW x \in Shapes, NEW s \in Shapes, NEW t \in Shapes, Flow(i, s, t)
  PROVE  Flow(i, x ++ s, x ++ t)
<1>1. CASE i.op \in {"push", "reserve"}
  <2>1. i.n \in Nat /\ (i.op = "push" => i.n = 1) /\ t = s ++ Nums(i.n) /\ Nums(i.n) \in Shapes
    BY <1>1, NumsType DEF Flow
  <2>2. x ++ t = (x ++ s) ++ Nums(i.n)
    BY <2>1, ShapeAssoc
  <2> QED
    BY <1>1, <2>1, <2>2 DEF Flow
<1>2. CASE i.op \in {"pop", "drop", "operator"}
  <2>1. /\ i.n \in Nat /\ (i.op \in {"pop", "operator"} => i.n = 1) /\ s = t ++ Nums(i.n)
        /\ Nums(i.n) \in Shapes
    BY <1>2, NumsType DEF Flow
  <2>2. x ++ s = (x ++ t) ++ Nums(i.n)
    BY <2>1, ShapeAssoc
  <2> QED
    BY <1>2, <2>1, <2>2 DEF Flow
<1>3. CASE i.op = "call" /\ Funcs[i.s] = "none"
  <2>1. i.n \in Nat /\ t = s /\ i.n <= Len(s)
    BY <1>3 DEF Flow
  <2>2. Len(x ++ s) = Len(x) + Len(s) /\ Len(x) \in Nat /\ Len(s) \in Nat
    BY ShapeConcat, ShapeIsSeq
  <2>3. i.n <= Len(x ++ s)
    BY <2>1, <2>2
  <2> QED
    BY <1>3, <2>1, <2>3 DEF Flow
<1>4. CASE i.op = "call" /\ Funcs[i.s] # "none"
  <2> DEFINE r == <<WordOf(Funcs[i.s])>>
  <2>1. r \in Shapes /\ Nums(1) \in Shapes
    BY NumsType DEF Shapes, Words, WordOf
  <2>2. PICK u, w \in Shapes : Len(w) = i.n /\ s = (u ++ Nums(1)) ++ w /\ t = (u ++ r) ++ w
    BY <1>4 DEF Flow
  <2> HIDE DEF r
  <2>3. u ++ Nums(1) \in Shapes /\ u ++ r \in Shapes /\ x ++ u \in Shapes
    BY <2>1, ShapeConcat
  <2>4. x ++ ((u ++ Nums(1)) ++ w) = ((x ++ u) ++ Nums(1)) ++ w
    BY <2>1, <2>2, <2>3, ShapeAssoc
  <2>5. x ++ ((u ++ r) ++ w) = ((x ++ u) ++ r) ++ w
    BY <2>1, <2>2, <2>3, ShapeAssoc
  <2>6. x ++ s = ((x ++ u) ++ Nums(1)) ++ w /\ x ++ t = ((x ++ u) ++ r) ++ w /\ Len(w) = i.n
    BY <2>2, <2>4, <2>5
  <2>7. i.n \in Nat
    BY <1>4 DEF Flow
  <2> QED
    BY <1>4, <2>3, <2>6, <2>7 DEF Flow, r
<1>5. CASE i.op = "free"
  <2> DEFINE k == Len(s) - i.n + 1
             j == Len(x ++ s) - i.n + 1
             u == [(x ++ s) EXCEPT ![j] = "num"]
  <2>1. i.n \in 1 .. Len(s) /\ s[k] = "tmp" /\ t = [s EXCEPT ![k] = "num"]
    BY <1>5 DEF Flow
  <2>2. Len(x ++ s) = Len(x) + Len(s) /\ Len(x) \in Nat /\ Len(s) \in Nat /\ x ++ s \in Shapes
    BY ShapeConcat, ShapeIsSeq
  <2>3. k \in 1 .. Len(s) /\ j = Len(x) + k /\ j \in 1 .. Len(x ++ s) /\ i.n \in 1 .. Len(x ++ s)
    <3> DEFINE a == Len(x)
               b == Len(s)
               n == i.n
    <3>1. a \in Nat /\ b \in Nat /\ n \in 1 .. b /\ Len(x ++ s) = a + b
      BY <2>1, <2>2
    <3>2. k = b - n + 1 /\ j = Len(x ++ s) - n + 1
      OBVIOUS
    <3> HIDE DEF a, b, n, k, j
    <3>3. k = b - n + 1 /\ j = (a + b) - n + 1
      BY <3>1, <3>2
    <3>4. k \in 1 .. b /\ j = a + k /\ j \in 1 .. (a + b) /\ n \in 1 .. (a + b)
      BY <3>1, <3>3
    <3> QED
      BY <3>1, <3>4 DEF a, b, n
  <2> HIDE DEF k, j
  <2>4. (x ++ s)[j] = "tmp"
    BY <2>1, <2>3, ShapeAt
  <2>5. u \in Shapes /\ Len(u) = Len(x ++ s) /\ Len(t) = Len(s) /\ x ++ t \in Shapes
        /\ Len(x ++ t) = Len(x) + Len(t)
    <3>1. "num" \in Words /\ x ++ s \in Seq(Words) /\ s \in Seq(Words)
      BY <2>2 DEF Words, Shapes
    <3>2. u \in Seq(Words) /\ Len(u) = Len(x ++ s) /\ Len(t) = Len(s)
      BY <2>1, <2>3, <3>1, ExceptSeq
    <3> QED
      BY <3>2, ShapeConcat DEF Shapes
  <2>6. ASSUME NEW m \in 1 .. Len(x ++ s) PROVE u[m] = (x ++ t)[m]
    <3>0. DOMAIN (x ++ s) = 1 .. Len(x ++ s) /\ DOMAIN s = 1 .. Len(s)
      BY <2>2 DEF Shapes
    <3>1. u[m] = IF m = j THEN "num" ELSE (x ++ s)[m]
      BY <3>0
    <3>2. CASE m \in 1 .. Len(x)
      <4>1. m # j
        BY <2>2, <2>3, <3>2
      <4> QED
        BY <3>1, <3>2, <4>1, ShapeAt
    <3>3. CASE m \notin 1 .. Len(x)
      <4>1. PICK l \in 1 .. Len(s) : m = Len(x) + l
        <5>1. m - Len(x) \in 1 .. Len(s) /\ m = Len(x) + (m - Len(x))
          BY <2>2, <3>3
        <5> QED
          BY <5>1
      <4>2. (x ++ s)[m] = s[l] /\ (x ++ t)[m] = t[l]
        <5>2. l \in 1 .. Len(t)
          BY <2>5, <4>1
        <5>3. (x ++ s)[Len(x) + l] = s[l]
          BY <4>1, ShapeAt
        <5>4. (x ++ t)[Len(x) + l] = t[l]
          BY <5>2, ShapeAt
        <5> QED
          BY <4>1, <5>3, <5>4
      <4>3. t[l] = IF l = k THEN "num" ELSE s[l]
        BY <2>1, <3>0
      <4>4. m = j <=> l = k
        BY <2>2, <2>3, <4>1
      <4> QED
        BY <3>1, <4>2, <4>3, <4>4
    <3> QED
      BY <3>2, <3>3
  <2>7. u = x ++ t
    <3> HIDE DEF u
    <3> QED
      BY <2>2, <2>5, <2>6, SeqSame, ShapeIsSeq
  <2>8. x ++ t = [(x ++ s) EXCEPT ![Len(x ++ s) - i.n + 1] = "num"] /\ (x ++ s)[Len(x ++ s) - i.n + 1] = "tmp"
    BY <2>4, <2>7 DEF j
  <2> QED
    BY <1>5, <2>3, <2>8 DEF Flow
<1>6. CASE i.op \notin {"push", "reserve", "pop", "drop", "operator", "call", "free"}
  BY <1>6 DEF Flow
<1> QED
  BY <1>1, <1>2, <1>3, <1>4, <1>5, <1>6

-----------------------------------------------------------------------------
(* Pieces.  B[i] is the shape behind the i-th instruction; a jump and its  *)
(* label find the same shape.  out is the shape at the end, and open says  *)
(* of labels that may still be jumped to which shape they need.            *)

Marking(i) == i.op \in {"jz", "jnz", "label"}
Marks(p) == {i \in 1 .. Len(p) : Marking(p[i])}
Labels(p) == {p[i].n : i \in Marks(p)}

Path(p, B) ==
  /\ B \in [0 .. Len(p) -> Shapes] /\ B[0] = << >>
  /\ \A i \in 1 .. Len(p) : Flow(p[i], B[i - 1], B[i])

Meets(p, B) == \A i, j \in Marks(p) : p[i].n = p[j].n => B[i] = B[j]

Opens(p, B, open) ==
  \A o \in open : o[1] \in Labels(p) /\ \A i \in Marks(p) : p[i].n = o[1] => B[i] = o[2]

Piece(p, out, open) ==
  /\ IsSeq(p) /\ out \in Shapes
  /\ \E B : Path(p, B) /\ Meets(p, B) /\ Opens(p, B, open) /\ B[Len(p)] = out

LEMMA PieceIsSeq ==
  ASSUME NEW p, NEW out, NEW open, Piece(p, out, open)
  PROVE  IsSeq(p) /\ Len(p) \in Nat /\ out \in Shapes
  BY SeqLen DEF Piece

LEMMA PieceOfNone == Piece(<< >>, << >>, {}) /\ Labels(<< >>) = {}
<1>1. IsSeq(<< >>) /\ Len(<< >>) = 0 /\ << >> \in Shapes
  BY SeqOfNone, ShapeEmpty
<1> DEFINE B == [i \in 0 .. 0 |-> << >>]
<1>2. B \in [0 .. 0 -> Shapes] /\ B[0] = << >>
  BY <1>1
<1>3. Marks(<< >>) = {}
  BY <1>1 DEF Marks
<1>4. Path(<< >>, B)
  BY <1>1, <1>2 DEF Path
<1>5. Meets(<< >>, B) /\ Opens(<< >>, B, {}) /\ B[Len(<< >>)] = << >>
  BY <1>1, <1>2, <1>3 DEF Meets, Opens
<1> QED
  BY <1>1, <1>3, <1>4, <1>5 DEF Piece, Labels

LEMMA PieceCloses ==
  ASSUME NEW p, NEW out, NEW open, Piece(p, out, open), NEW less \in SUBSET open
  PROVE  Piece(p, out, less)
  BY DEF Piece, Opens

LEMMA LabelsAppend ==
  ASSUME NEW p, IsSeq(p), NEW i
  PROVE  /\ Marks(Append(p, i)) = Marks(p) \cup (IF Marking(i) THEN {Len(p) + 1} ELSE {})
         /\ Labels(Append(p, i)) = Labels(p) \cup (IF Marking(i) THEN {i.n} ELSE {})
<1> DEFINE q == Append(p, i)
<1>1. /\ Len(p) \in Nat /\ Len(q) = Len(p) + 1 /\ q[Len(p) + 1] = i
      /\ \A j \in 1 .. Len(p) : q[j] = p[j]
  BY SeqLen, SeqAppend
<1> HIDE DEF q
<1>2. \A j : j \in 1 .. Len(q) <=> j \in 1 .. Len(p) \/ j = Len(p) + 1
  BY <1>1
<1>3. \A j \in 1 .. Len(p) : j # Len(p) + 1
  BY <1>1
<1>4. Marks(q) = Marks(p) \cup (IF Marking(i) THEN {Len(p) + 1} ELSE {})
  <2>1. \A j : j \in Marks(q) <=> j \in Marks(p) \/ (Marking(i) /\ j = Len(p) + 1)
    <3> SUFFICES ASSUME NEW j
                 PROVE  (j \in Marks(q)) = (j \in Marks(p) \/ (Marking(i) /\ j = Len(p) + 1))
      OBVIOUS
    <3>1. CASE j = Len(p) + 1
      BY <1>1, <1>2, <1>3, <3>1 DEF Marks
    <3>2. CASE j \in 1 .. Len(p)
      BY <1>1, <1>2, <1>3, <3>2 DEF Marks
    <3>3. CASE j \notin 1 .. Len(q)
      BY <1>2, <3>3 DEF Marks
    <3> QED
      BY <1>2, <3>1, <3>2, <3>3
  <2> QED
    BY <2>1
<1>5. Labels(q) = Labels(p) \cup (IF Marking(i) THEN {i.n} ELSE {})
  <2>1. \A j \in Marks(p) : q[j] = p[j]
    BY <1>1 DEF Marks
  <2> QED
    BY <1>1, <1>4, <2>1 DEF Labels
<1> QED
  BY <1>4, <1>5 DEF q

(* An instruction put behind a piece.                                      *)
LEMMA PathAppend ==
  ASSUME NEW p, IsSeq(p), NEW B, Path(p, B), NEW i, NEW t \in Shapes, Flow(i, B[Len(p)], t)
  PROVE  \E C : /\ Path(Append(p, i), C) /\ C[Len(p) + 1] = t
                /\ \A j \in 0 .. Len(p) : C[j] = B[j]
<1> DEFINE q == Append(p, i)
           C == [j \in 0 .. (Len(p) + 1) |-> IF j = Len(p) + 1 THEN t ELSE B[j]]
<1>1. /\ Len(p) \in Nat /\ Len(q) = Len(p) + 1 /\ q[Len(p) + 1] = i
      /\ \A j \in 1 .. Len(p) : q[j] = p[j]
  BY SeqLen, SeqAppend
<1>2. C[Len(p) + 1] = t /\ \A j \in 0 .. Len(p) : C[j] = B[j]
  BY <1>1
<1>3. C \in [0 .. Len(q) -> Shapes] /\ C[0] = << >>
  BY <1>1 DEF Path
<1>4. ASSUME NEW j \in 1 .. Len(q) PROVE Flow(q[j], C[j - 1], C[j])
  <2>1. CASE j = Len(p) + 1
    <3>1. j - 1 = Len(p) /\ Len(p) \in 0 .. Len(p)
      BY <1>1, <2>1
    <3>2. C[j - 1] = B[Len(p)] /\ C[j] = t /\ q[j] = i
      BY <1>1, <1>2, <2>1, <3>1
    <3> HIDE DEF q, C
    <3> QED
      BY <3>2
  <2>2. CASE j # Len(p) + 1
    <3>1. j \in 1 .. Len(p) /\ j - 1 \in 0 .. Len(p) /\ j \in 0 .. Len(p)
      BY <1>1, <2>2
    <3>2. C[j - 1] = B[j - 1] /\ C[j] = B[j] /\ q[j] = p[j]
      BY <1>1, <1>2, <3>1
    <3> HIDE DEF q, C
    <3> QED
      BY <3>1, <3>2 DEF Path
  <2> QED
    BY <2>1, <2>2
<1> HIDE DEF q, C
<1>5. Path(q, C)
  BY <1>3, <1>4 DEF Path
<1> QED
  BY <1>2, <1>5 DEF q

LEMMA PieceAppend ==
  ASSUME NEW p, NEW out, NEW open, Piece(p, out, open), NEW i, ~Marking(i),
         NEW t \in Shapes, Flow(i, out, t)
  PROVE  Piece(Append(p, i), t, open) /\ Labels(Append(p, i)) = Labels(p)
<1>1. IsSeq(p) /\ Len(p) \in Nat /\ IsSeq(Append(p, i)) /\ Len(Append(p, i)) = Len(p) + 1
  BY SeqLen, SeqAppend DEF Piece
<1>2. PICK B : Path(p, B) /\ Meets(p, B) /\ Opens(p, B, open) /\ B[Len(p)] = out
  BY DEF Piece
<1>3. PICK C : /\ Path(Append(p, i), C) /\ C[Len(p) + 1] = t
               /\ \A j \in 0 .. Len(p) : C[j] = B[j]
  BY <1>1, <1>2, PathAppend
<1>4. Marks(Append(p, i)) = Marks(p) /\ Labels(Append(p, i)) = Labels(p)
  BY <1>1, LabelsAppend
<1>5. \A j \in Marks(p) : C[j] = B[j] /\ Append(p, i)[j] = p[j]
  <2>1. \A j \in 1 .. Len(p) : Append(p, i)[j] = p[j] /\ j \in 0 .. Len(p)
    BY <1>1, SeqAppend
  <2> QED
    BY <1>3, <2>1 DEF Marks
<1>6. Meets(Append(p, i), C)
  <2> SUFFICES ASSUME NEW j \in Marks(p), NEW k \in Marks(p),
                      Append(p, i)[j].n = Append(p, i)[k].n
               PROVE  C[j] = C[k]
    BY <1>4 DEF Meets
  <2>1. p[j].n = p[k].n
    BY <1>5
  <2>2. B[j] = B[k]
    BY <1>2, <2>1 DEF Meets
  <2> QED
    BY <1>5, <2>2
<1>7. Opens(Append(p, i), C, open)
  <2> SUFFICES ASSUME NEW o \in open
               PROVE  /\ o[1] \in Labels(p)
                      /\ \A j \in Marks(p) : Append(p, i)[j].n = o[1] => C[j] = o[2]
    BY <1>4 DEF Opens
  <2>1. o[1] \in Labels(p) /\ \A j \in Marks(p) : p[j].n = o[1] => B[j] = o[2]
    BY <1>2 DEF Opens
  <2> QED
    BY <1>5, <2>1
<1> QED
  BY <1>1, <1>3, <1>4, <1>6, <1>7 DEF Piece

(* A jump, or the label, of a label that is new or open for this shape.    *)
LEMMA PieceMark ==
  ASSUME NEW p, NEW out, NEW open, Piece(p, out, open), NEW i, Marking(i), i.n \in Nat,
         i.n \notin Labels(p) \/ <<i.n, out>> \in open
  PROVE  /\ Piece(Append(p, i), out, open \cup {<<i.n, out>>})
         /\ Labels(Append(p, i)) = Labels(p) \cup {i.n}
<1>1. IsSeq(p) /\ Len(p) \in Nat /\ IsSeq(Append(p, i)) /\ Len(Append(p, i)) = Len(p) + 1
      /\ out \in Shapes
  BY SeqLen, SeqAppend DEF Piece
<1>2. PICK B : Path(p, B) /\ Meets(p, B) /\ Opens(p, B, open) /\ B[Len(p)] = out
  BY DEF Piece
<1>3. PICK C : /\ Path(Append(p, i), C) /\ C[Len(p) + 1] = out
               /\ \A j \in 0 .. Len(p) : C[j] = B[j]
  <2>1. Flow(i, out, out)
    BY DEF Flow, Marking
  <2> QED
    BY <1>1, <1>2, <2>1, PathAppend
<1>4. /\ Marks(Append(p, i)) = Marks(p) \cup {Len(p) + 1}
      /\ Labels(Append(p, i)) = Labels(p) \cup {i.n}
  BY <1>1, LabelsAppend
<1>5. /\ \A j \in Marks(p) : C[j] = B[j] /\ Append(p, i)[j] = p[j]
      /\ Append(p, i)[Len(p) + 1] = i
  <2>1. \A j \in 1 .. Len(p) : Append(p, i)[j] = p[j] /\ j \in 0 .. Len(p)
    BY <1>1, SeqAppend
  <2>2. Append(p, i)[Len(p) + 1] = i
    BY <1>1, SeqAppend
  <2> QED
    BY <1>3, <2>1, <2>2 DEF Marks
<1>6. \A j \in Marks(p) : p[j].n = i.n => B[j] = out
  <2>1. CASE i.n \notin Labels(p)
    BY <2>1 DEF Labels
  <2>2. CASE <<i.n, out>> \in open
    BY <1>2, <2>2 DEF Opens
  <2> QED
    BY <2>1, <2>2
<1>7. Meets(Append(p, i), C)
  <2> SUFFICES ASSUME NEW j \in Marks(p) \cup {Len(p) + 1}, NEW k \in Marks(p) \cup {Len(p) + 1},
                      Append(p, i)[j].n = Append(p, i)[k].n
               PROVE  C[j] = C[k]
    BY <1>4 DEF Meets
  <2>1. CASE j \in Marks(p) /\ k \in Marks(p)
    <3>1. p[j].n = p[k].n
      BY <1>5, <2>1
    <3>2. B[j] = B[k]
      BY <1>2, <2>1, <3>1 DEF Meets
    <3> QED
      BY <1>5, <2>1, <3>2
  <2>2. CASE j \in Marks(p) /\ k = Len(p) + 1
    <3>1. p[j].n = i.n
      BY <1>5, <2>2
    <3> QED
      BY <1>3, <1>5, <1>6, <2>2, <3>1
  <2>3. CASE k \in Marks(p) /\ j = Len(p) + 1
    <3>1. p[k].n = i.n
      BY <1>5, <2>3
    <3> QED
      BY <1>3, <1>5, <1>6, <2>3, <3>1
  <2> QED
    BY <2>1, <2>2, <2>3
<1>8. Opens(Append(p, i), C, open \cup {<<i.n, out>>})
  <2>1. ASSUME NEW o \in open
        PROVE  /\ o[1] \in Labels(Append(p, i))
               /\ \A j \in Marks(Append(p, i)) : Append(p, i)[j].n = o[1] => C[j] = o[2]
    <3>1. o[1] \in Labels(p) /\ \A j \in Marks(p) : p[j].n = o[1] => B[j] = o[2]
      BY <1>2 DEF Opens
    <3>2. i.n = o[1] => out = o[2]
      <4>1. ASSUME i.n = o[1] PROVE out = o[2]
        <5>1. PICK j \in Marks(p) : p[j].n = o[1]
          BY <3>1 DEF Labels
        <5> QED
          BY <1>6, <3>1, <4>1, <5>1
      <4> QED
        BY <4>1
    <3> QED
      BY <1>3, <1>4, <1>5, <3>1, <3>2
  <2>2. \A j \in Marks(Append(p, i)) : Append(p, i)[j].n = i.n => C[j] = out
    BY <1>3, <1>4, <1>5, <1>6
  <2>3. <<i.n, out>>[1] = i.n /\ <<i.n, out>>[2] = out
    OBVIOUS
  <2> QED
    BY <1>4, <2>1, <2>2, <2>3 DEF Opens
<1> QED
  BY <1>1, <1>3, <1>4, <1>7, <1>8 DEF Piece

(* Two pieces without a common label.                                      *)
LEMMA MarksConcat ==
  ASSUME NEW p, IsSeq(p), NEW q, IsSeq(q)
  PROVE  /\ Marks(p \o q) = Marks(p) \cup {Len(p) + i : i \in Marks(q)}
         /\ Labels(p \o q) = Labels(p) \cup Labels(q)
<1> DEFINE r == p \o q
<1>1. Len(p) \in Nat /\ Len(q) \in Nat
  BY SeqLen
<1>2. /\ Len(r) = Len(p) + Len(q)
      /\ \A i \in 1 .. Len(p) : r[i] = p[i]
      /\ \A i \in 1 .. Len(q) : r[Len(p) + i] = q[i]
  BY SeqConcat
<1> HIDE DEF r
<1>3. ASSUME NEW i PROVE i \in Marks(r) <=> i \in Marks(p) \/ \E j \in Marks(q) : i = Len(p) + j
  <2>1. ASSUME i \in Marks(r) PROVE i \in Marks(p) \/ \E j \in Marks(q) : i = Len(p) + j
    <3>1. i \in 1 .. Len(r) /\ Marking(r[i])
      BY <2>1 DEF Marks
    <3>2. CASE i \in 1 .. Len(p)
      BY <1>2, <3>1, <3>2 DEF Marks
    <3>3. CASE i \notin 1 .. Len(p)
      <4> DEFINE j == i - Len(p)
      <4>1. j \in 1 .. Len(q) /\ i = Len(p) + j
        BY <1>1, <1>2, <3>1, <3>3
      <4> HIDE DEF j
      <4>2. j \in Marks(q)
        BY <1>2, <3>1, <4>1 DEF Marks
      <4> QED
        BY <4>1, <4>2
    <3> QED
      BY <3>2, <3>3
  <2>2. ASSUME i \in Marks(p) PROVE i \in Marks(r)
    <3>1. i \in 1 .. Len(p) /\ i \in 1 .. Len(r)
      BY <1>1, <1>2, <2>2 DEF Marks
    <3> QED
      BY <1>2, <2>2, <3>1 DEF Marks
  <2>3. ASSUME NEW j \in Marks(q), i = Len(p) + j PROVE i \in Marks(r)
    <3>1. j \in 1 .. Len(q) /\ i \in 1 .. Len(r)
      BY <1>1, <1>2, <2>3 DEF Marks
    <3> QED
      BY <1>2, <2>3, <3>1 DEF Marks
  <2> QED
    BY <2>1, <2>2, <2>3
<1>4. Marks(r) = Marks(p) \cup {Len(p) + i : i \in Marks(q)}
  BY <1>3
<1>5. /\ \A i \in Marks(p) : r[i] = p[i]
      /\ \A i \in Marks(q) : r[Len(p) + i] = q[i]
  BY <1>2 DEF Marks
<1>6. Labels(r) = Labels(p) \cup Labels(q)
  <2>1. ASSUME NEW l PROVE l \in Labels(r) <=> l \in Labels(p) \/ l \in Labels(q)
    BY <1>4, <1>5 DEF Labels
  <2> QED
    BY <2>1
<1> QED
  BY <1>4, <1>6 DEF r

LEMMA PathConcat ==
  ASSUME NEW p, IsSeq(p), NEW q, IsSeq(q), NEW A, Path(p, A), NEW B, Path(q, B)
  PROVE  \E C : /\ Path(p \o q, C)
                /\ \A i \in 0 .. Len(p) : C[i] = A[i]
                /\ \A i \in 0 .. Len(q) : C[Len(p) + i] = A[Len(p)] ++ B[i]
<1> DEFINE m == Len(p)
           n == Len(q)
           o == A[m]
           r == p \o q
           C == [i \in 0 .. (m + n) |-> IF i <= m THEN A[i] ELSE o ++ B[i - m]]
<1>1. /\ m \in Nat /\ n \in Nat /\ Len(r) = m + n
      /\ \A i \in 1 .. m : r[i] = p[i]
      /\ \A i \in 1 .. n : r[m + i] = q[i]
  BY SeqLen, SeqConcat
<1>2. /\ A \in [0 .. m -> Shapes] /\ A[0] = << >>
      /\ \A i \in 1 .. m : Flow(p[i], A[i - 1], A[i])
  BY DEF Path
<1>3. /\ B \in [0 .. n -> Shapes] /\ B[0] = << >>
      /\ \A i \in 1 .. n : Flow(q[i], B[i - 1], B[i])
  BY DEF Path
<1>4. o \in Shapes /\ o ++ B[0] = o /\ \A i \in 0 .. n : o ++ B[i] \in Shapes
  <2>1. m \in 0 .. m
    BY <1>1
  <2>2. o \in Shapes
    BY <1>2, <2>1
  <2> QED
    BY <1>3, <2>2, ShapeEmpty, ShapeConcat
<1> HIDE DEF o, r
<1>5. \A i \in 0 .. m : C[i] = A[i]
  BY <1>1
<1>6. ASSUME NEW i \in 0 .. n PROVE C[m + i] = o ++ B[i]
  <2>1. m + i \in 0 .. (m + n)
    BY <1>1
  <2>2. CASE i = 0
    <3>1. C[m + i] = A[m] /\ m + i = m
      BY <1>1, <1>5, <2>2
    <3> QED
      BY <1>4, <2>2, <3>1 DEF o
  <2>3. CASE i # 0
    <3>1. ~(m + i <= m) /\ m + i - m = i
      BY <1>1, <2>3
    <3> QED
      BY <2>1, <3>1
  <2> QED
    BY <2>2, <2>3
<1>7. C \in [0 .. (m + n) -> Shapes]
  <2> SUFFICES ASSUME NEW i \in 0 .. (m + n)
               PROVE  (IF i <= m THEN A[i] ELSE o ++ B[i - m]) \in Shapes
    OBVIOUS
  <2>1. CASE i <= m
    BY <1>1, <1>2, <2>1
  <2>2. CASE ~(i <= m)
    <3>1. i - m \in 0 .. n
      BY <1>1, <2>2
    <3> QED
      BY <1>4, <2>2, <3>1
  <2> QED
    BY <2>1, <2>2
<1> HIDE DEF C
<1>8. ASSUME NEW i \in 1 .. (m + n) PROVE Flow(r[i], C[i - 1], C[i])
  <2>1. CASE i <= m
    <3>1. i \in 1 .. m /\ i - 1 \in 0 .. m /\ i \in 0 .. m
      BY <1>1, <2>1
    <3> QED
      BY <1>1, <1>2, <1>5, <3>1
  <2>2. CASE ~(i <= m)
    <3> DEFINE j == i - m
    <3>1. j \in 1 .. n /\ j - 1 \in 0 .. n /\ j \in 0 .. n /\ i = m + j /\ i - 1 = m + (j - 1)
      BY <1>1, <2>2
    <3> HIDE DEF j
    <3>2. C[i - 1] = o ++ B[j - 1] /\ C[i] = o ++ B[j] /\ r[i] = q[j]
      BY <1>1, <1>6, <3>1
    <3>3. B[j - 1] \in Shapes /\ B[j] \in Shapes /\ Flow(q[j], B[j - 1], B[j])
      BY <1>3, <3>1
    <3> QED
      BY <1>4, <3>2, <3>3, FlowAbove
  <2> QED
    BY <2>1, <2>2
<1>9. Path(r, C)
  <2>1. C[0] = << >>
    BY <1>1, <1>2, <1>5
  <2> QED
    BY <1>1, <1>7, <1>8, <2>1 DEF Path
<1> QED
  BY <1>5, <1>6, <1>9 DEF r, o

LEMMA PieceConcat ==
  ASSUME NEW p, NEW o1, NEW open, Piece(p, o1, open), NEW q, NEW o2, Piece(q, o2, {}),
         Labels(p) \cap Labels(q) = {}
  PROVE  Piece(p \o q, o1 ++ o2, open) /\ Labels(p \o q) = Labels(p) \cup Labels(q)
<1>1. IsSeq(p) /\ Len(p) \in Nat /\ IsSeq(q) /\ Len(q) \in Nat /\ o1 \in Shapes /\ o2 \in Shapes
  BY PieceIsSeq
<1>2. PICK A : Path(p, A) /\ Meets(p, A) /\ Opens(p, A, open) /\ A[Len(p)] = o1
  BY DEF Piece
<1>3. PICK B : Path(q, B) /\ Meets(q, B) /\ B[Len(q)] = o2
  BY DEF Piece
<1>4. PICK C : /\ Path(p \o q, C)
               /\ \A i \in 0 .. Len(p) : C[i] = A[i]
               /\ \A i \in 0 .. Len(q) : C[Len(p) + i] = A[Len(p)] ++ B[i]
  BY <1>1, <1>2, <1>3, PathConcat
<1> DEFINE r == p \o q
<1>5. /\ IsSeq(r) /\ Len(r) = Len(p) + Len(q)
      /\ \A i \in 1 .. Len(p) : r[i] = p[i]
      /\ \A i \in 1 .. Len(q) : r[Len(p) + i] = q[i]
  BY <1>1, SeqConcat
<1>6. /\ Marks(r) = Marks(p) \cup {Len(p) + i : i \in Marks(q)}
      /\ Labels(r) = Labels(p) \cup Labels(q)
  BY <1>1, MarksConcat
<1> HIDE DEF r
<1>7. \A i \in Marks(p) : r[i] = p[i] /\ C[i] = A[i] /\ r[i].n \in Labels(p)
  BY <1>4, <1>5 DEF Marks, Labels
<1>8. \A i \in Marks(q) : /\ r[Len(p) + i] = q[i] /\ C[Len(p) + i] = o1 ++ B[i]
                          /\ r[Len(p) + i].n \in Labels(q)
  <2> SUFFICES ASSUME NEW i \in Marks(q)
               PROVE  /\ r[Len(p) + i] = q[i] /\ C[Len(p) + i] = o1 ++ B[i]
                      /\ r[Len(p) + i].n \in Labels(q)
    OBVIOUS
  <2>1. i \in 1 .. Len(q) /\ i \in 0 .. Len(q)
    BY <1>1 DEF Marks
  <2>2. r[Len(p) + i] = q[i] /\ C[Len(p) + i] = o1 ++ B[i]
    BY <1>2, <1>4, <1>5, <2>1
  <2>3. q[i].n \in Labels(q)
    BY DEF Labels
  <2> QED
    BY <2>2, <2>3
<1>9. Meets(r, C)
  <2> SUFFICES ASSUME NEW i \in Marks(r), NEW j \in Marks(r), r[i].n = r[j].n
               PROVE  C[i] = C[j]
    BY DEF Meets
  <2>1. CASE i \in Marks(p) /\ j \in Marks(p)
    BY <1>2, <1>7, <2>1 DEF Meets
  <2>2. CASE i \in Marks(p) /\ j \notin Marks(p)
    BY <1>6, <1>7, <1>8, <2>2
  <2>3. CASE i \notin Marks(p) /\ j \in Marks(p)
    BY <1>6, <1>7, <1>8, <2>3
  <2>4. CASE i \notin Marks(p) /\ j \notin Marks(p)
    <3>1. PICK k \in Marks(q), l \in Marks(q) : i = Len(p) + k /\ j = Len(p) + l
      BY <1>6, <2>4
    <3>2. q[k].n = q[l].n
      BY <1>8, <3>1
    <3>3. B[k] = B[l]
      BY <1>3, <3>2 DEF Meets
    <3> QED
      BY <1>8, <3>1, <3>3
  <2> QED
    BY <2>1, <2>2, <2>3, <2>4
<1>10. Opens(r, C, open)
  <2> SUFFICES ASSUME NEW o \in open
               PROVE  o[1] \in Labels(r) /\ \A i \in Marks(r) : r[i].n = o[1] => C[i] = o[2]
    BY DEF Opens
  <2>1. o[1] \in Labels(p) /\ \A i \in Marks(p) : p[i].n = o[1] => A[i] = o[2]
    BY <1>2 DEF Opens
  <2> QED
    BY <1>6, <1>7, <1>8, <2>1
<1>11. C[Len(r)] = o1 ++ o2 /\ o1 ++ o2 \in Shapes
  <2>1. Len(q) \in 0 .. Len(q)
    BY <1>1
  <2> QED
    BY <1>1, <1>2, <1>3, <1>4, <1>5, <2>1, ShapeConcat
<1>12. Path(r, C)
  BY <1>4 DEF r
<1>13. Piece(r, o1 ++ o2, open)
  BY <1>5, <1>9, <1>10, <1>11, <1>12 DEF Piece
<1> QED
  BY <1>6, <1>13 DEF r

(* Several pieces, no two with a common label; T[i] is the shape behind    *)
(* the first i of them.                                                    *)
Apart(s) == \A i, j \in 1 .. Len(s) : i # j => Labels(s[i]) \cap Labels(s[j]) = {}
AllLabels(s) == UNION {Labels(s[i]) : i \in 1 .. Len(s)}

LEMMA PieceFlatten ==
  ASSUME NEW s, IsSeq(s), Len(s) >= 1, NEW o, NEW open, Piece(s[1], o[1], open),
         \A i \in 1 .. Len(s) : i # 1 => Piece(s[i], o[i], {}),
         Apart(s), NEW T, T[1] = o[1],
         \A i \in 1 .. Len(s) : i # 1 => T[i] = T[i - 1] ++ o[i]
  PROVE  Piece(FlattenSeq(s), T[Len(s)], open) /\ Labels(FlattenSeq(s)) = AllLabels(s)
<1>0. Len(s) \in Nat
  BY SeqLen
<1>1. PICK F : Joins(F, s) /\ FlattenSeq(s) = F[Len(s)]
  BY FlattenJoins
<1> DEFINE Sub(n) == UNION {Labels(s[i]) : i \in 1 .. n}
           N == {n \in Nat : n + 1 <= Len(s) =>
                   Piece(F[n + 1], T[n + 1], open) /\ Labels(F[n + 1]) = Sub(n + 1)}
<1>2. 0 \in N
  <2>1. Sub(0 + 1) = Labels(s[1])
    <3>1. \A i : i \in 1 .. (0 + 1) <=> i = 1
      OBVIOUS
    <3> QED
      BY <3>1
  <2>2. F[0 + 1] = s[1] /\ T[0 + 1] = o[1]
    BY <1>1 DEF Joins
  <2> QED
    BY <2>1, <2>2
<1>3. ASSUME NEW n \in Nat, n \in N PROVE n + 1 \in N
  <2> DEFINE k == n + 1
             i == k + 1
  <2> SUFFICES ASSUME i <= Len(s) PROVE Piece(F[i], T[i], open) /\ Labels(F[i]) = Sub(i)
    OBVIOUS
  <2>1. i \in 1 .. Len(s) /\ i # 1 /\ i - 1 = k /\ k <= Len(s) /\ k \in Nat
        /\ \A j : j \in 1 .. i <=> j \in 1 .. k \/ j = i
    BY <1>0
  <2>2. Piece(F[k], T[k], open) /\ Labels(F[k]) = Sub(k)
    BY <1>3, <2>1
  <2>3. \A j \in 1 .. k : j \in 1 .. Len(s) /\ j # i
    BY <1>0, <2>1
  <2> HIDE DEF i, k
  <2>4. Sub(i) = Sub(k) \cup Labels(s[i])
    BY <2>1
  <2>5. Labels(F[k]) \cap Labels(s[i]) = {}
    <3> SUFFICES ASSUME NEW l \in Labels(F[k]), l \in Labels(s[i]) PROVE FALSE
      OBVIOUS
    <3>1. PICK j \in 1 .. k : l \in Labels(s[j])
      BY <2>2
    <3>2. j \in 1 .. Len(s) /\ j # i
      BY <2>3
    <3>3. Labels(s[j]) \cap Labels(s[i]) = {}
      BY <2>1, <3>2 DEF Apart
    <3> QED
      BY <3>1, <3>3
  <2>6. F[i] = F[k] \o s[i] /\ T[i] = T[k] ++ o[i] /\ Piece(s[i], o[i], {})
    BY <1>1, <2>1 DEF Joins
  <2> HIDE DEF Sub
  <2>7. /\ Piece(F[k] \o s[i], T[k] ++ o[i], open)
        /\ Labels(F[k] \o s[i]) = Labels(F[k]) \cup Labels(s[i])
    BY <2>2, <2>5, <2>6, PieceConcat
  <2> QED
    BY <2>2, <2>4, <2>6, <2>7
<1>4. Len(s) - 1 \in N
  <2>1. Nat \subseteq N
    <3> HIDE DEF N
    <3> QED
      BY <1>2, <1>3, NatSetInduction
  <2>2. Len(s) - 1 \in Nat
    BY <1>0
  <2> HIDE DEF N
  <2> QED
    BY <2>1, <2>2
<1>5. Len(s) - 1 + 1 = Len(s) /\ Len(s) <= Len(s)
  BY <1>0
<1>6. Piece(F[Len(s)], T[Len(s)], open) /\ Labels(F[Len(s)]) = Sub(Len(s))
  BY <1>4, <1>5
<1> QED
  BY <1>1, <1>6 DEF AllLabels

-----------------------------------------------------------------------------
(* What the parser knows.  A configuration c says where the value is (st), *)
(* how many words there are (sp), what the pieces of text look like (n and *)
(* pc) and the values (nv and vs), and that the last cl entries of the     *)
(* clean-up code are empty.                                                *)

Pc(out, open, blank) == [out |-> out, open |-> open, blank |-> blank]

Config(st, sp, cl, n, pc, nv, vs) ==
  [st |-> st, sp |-> sp, cl |-> cl, n |-> n, pc |-> pc, nv |-> nv, vs |-> vs]

\* What counts of the value of a tree.
Shown(t, e) ==
  [const |-> e \in t.const, n |-> IF e \in t.const THEN t.num[e] ELSE 0, temp |-> IsTemp(e)]
Plainly == [const |-> FALSE, n |-> 0, temp |-> FALSE]

\* A word that a call leaves, and whether rax has to be saved before.
Left(e) == IF e.k = "call" /\ ~Procedure(e) THEN <<WordOf(Funcs[e.s])>> ELSE << >>
Held(c) == Truth(c.st = "ax")
Top(c) == c.pc[c.n]

\* d has f pieces, of which those below the last one are those of c; and the
\* value v above k of the values of c.
Below(c, d, f) == d.n = f /\ \A i \in 1 .. (f - 1) : d.pc[i] = c.pc[i]
Yields(c, d, k, v) == d.nv = k + 1 /\ d.vs[k + 1] = v /\ \A i \in 1 .. k : d.vs[i] = c.vs[i]
SameValues(c, d, k) == d.nv = k /\ \A i \in 1 .. k : d.vs[i] = c.vs[i]

Lowered(c, d) == d.cl \in Nat /\ d.cl <= c.cl

\* Parsing a tree.
StepExpr(t, e, c, d) ==
  /\ e \in t.all /\ c.n >= 1 /\ c.sp \in Int /\ c.nv \in Nat /\ Top(c).out \in Shapes
  /\ e \in t.lead => Top(c).out = << >> /\ Top(c).open = {}
  /\ e \in t.empty /\ Top(c).blank => c.n = 1
  /\ Procedure(e) => c.st # "ax"
  /\ Below(c, d, c.n) /\ Lowered(c, d) /\ (e \in t.temps => d.cl = 0)
  /\ IF Procedure(e) THEN SameValues(c, d, c.nv) ELSE Yields(c, d, c.nv, Shown(t, e))
  /\ IF e \in t.const THEN d.st = c.st /\ d.sp = c.sp /\ Top(d) = Top(c)
     ELSE /\ d.st = IF e.k # "call" THEN "ax"
                    ELSE IF Procedure(e) /\ e.a = << >> THEN c.st ELSE "sp"
          /\ d.sp = c.sp + Held(c) + Len(Left(e))
          /\ Top(d) = Pc((Top(c).out ++ Nums(Held(c))) ++ Left(e), Top(c).open, FALSE)

\* The value comes to rax and k more words are taken from the stack.
Loads(c, d, words, open, k) ==
  /\ c.st \in {"ax", "sp"} /\ d.st = "ax"
  /\ d.sp \in Int /\ c.sp = d.sp + Truth(c.st = "sp") + k
  /\ Top(d).out \in Shapes /\ words = Top(d).out ++ Nums(Truth(c.st = "sp") + k)
  /\ Top(d).open = open /\ ~Top(d).blank

StepUnary(t, e, c, d) ==
  /\ e \in t.all /\ e.k \in {"neg", "not"} /\ c.n >= 1 /\ c.nv >= 1
  /\ c.vs[c.nv] = Shown(t, e.a[1])
  /\ Below(c, d, c.n) /\ Lowered(c, d) /\ Yields(c, d, c.nv - 1, Shown(t, e))
  /\ IF e \in t.const THEN d.st = c.st /\ d.sp = c.sp /\ Top(d) = Top(c)
     ELSE Loads(c, d, Top(c).out, Top(c).open, 0)

StepRight(c, d) ==
  /\ d.st = c.st /\ d.sp = c.sp /\ Lowered(c, d)
  /\ Below(c, d, c.n + 1) /\ Top(d) = Pc(<< >>, {}, TRUE) /\ SameValues(c, d, c.nv)

StepOp(t, e, c, d) ==
  /\ e \in t.all /\ e.k = "op" /\ c.n >= 2 /\ c.nv >= 2
  /\ c.vs[c.nv - 1] = Shown(t, e.a[1]) /\ c.vs[c.nv] = Shown(t, e.a[2])
  /\ Below(c, d, c.n - 1) /\ Lowered(c, d) /\ Yields(c, d, c.nv - 2, Shown(t, e))
  /\ Top(c).open = {}
  /\ IF e \in t.const
     THEN /\ d.st = c.st /\ d.sp = c.sp /\ Top(c).out = << >>
          /\ Top(d) = c.pc[c.n - 1]
     ELSE Loads(c, d, c.pc[c.n - 1].out ++ Top(c).out, c.pc[c.n - 1].open,
                Truth(e.a[1] \notin t.const /\ e.a[2] \notin t.const))

\* The loop over the operands of && and ||, of which drop ones are on top of
\* the first value.
StepLogic(t, x, c, d) ==
  /\ x.e \in t.all /\ x.e.k \in {"and", "or"} /\ c.n >= 1 /\ c.st = "ax" /\ d.st = "ax"
  /\ x.i \in Nat /\ x.i >= 2 /\ (x.t # "label" => x.i <= Len(x.e.a))
  /\ c.nv >= 1 + Truth(x.t = "drop") /\ c.vs[c.nv] = Plainly
  /\ (x.t = "term" /\ x.i = 2) \/ <<x.n, Top(c).out>> \in Top(c).open
  /\ Below(c, d, c.n) /\ Lowered(c, d) /\ (x.e \in t.temps => d.cl = 0)
  /\ SameValues(c, d, c.nv - Truth(x.t = "drop"))
  /\ x.t = "drop" => c.vs[c.nv - 1] = Plainly
  /\ d.sp = c.sp /\ Top(d).out = Top(c).out /\ Top(d).open \subseteq Top(c).open /\ ~Top(d).blank

\* The loop over the arguments of a call, m of which lie in pieces of their
\* own, the first one in the piece that was there; h is 1 if rax was held.
FirstPiece(c, m) == c.n - (IF m > 1 THEN m ELSE 1) + 1

Argued(t, e, h, m, c, d) ==
  /\ e \in t.all /\ e.k = "call" /\ m \in 0 .. Len(e.a) /\ h \in {0, 1}
  /\ FirstPiece(c, m) >= 1
  /\ IF m = 0 THEN /\ h = Held(c) /\ Top(c).out = << >> /\ Top(c).open = {}
                   /\ e.a = << >> /\ Top(c).blank => c.n = 1
              ELSE c.st = "sp"
  /\ \A j \in 1 .. m : LET p == c.pc[FirstPiece(c, m) + j - 1] IN
         p.out = <<WordOf(IF IsTemp(e.a[j]) THEN "str" ELSE "int")>> /\ p.open = {}
  /\ m <= c.nv /\ \A j \in 1 .. m : c.vs[c.nv - m + j] = Shown(t, e.a[j])
  /\ m <= c.cl /\ Lowered(c, d) /\ (e \in t.temps => d.cl = 0)
  /\ Below(c, d, FirstPiece(c, m))
  /\ IF Procedure(e) THEN h = 0 /\ SameValues(c, d, c.nv - m)
     ELSE Yields(c, d, c.nv - m, Shown(t, e))
  /\ d.st = IF Procedure(e) /\ e.a = << >> THEN c.st ELSE "sp"
  /\ d.sp = c.sp - m + h + Len(Left(e))
  /\ Top(d) = Pc(Nums(h) ++ Left(e), {}, FALSE)

\* An argument is put on the stack.
Passed(t, e, c, d) ==
  /\ e \in t.all /\ ~Procedure(e) /\ c.n >= 1 /\ c.nv >= 1 /\ c.vs[c.nv] = Shown(t, e)
  /\ Below(c, d, c.n) /\ SameValues(c, d, c.nv) /\ d.cl = c.cl + 1
  /\ c.st = IF e \in t.const THEN "undef" ELSE IF e.k = "call" THEN "sp" ELSE "ax"
  /\ d.st = "sp" /\ d.sp = c.sp + Truth(e.k # "call")
  /\ Top(c).out = Left(e) /\ Top(c).open = {}
  /\ Top(d) = Pc(<<WordOf(IF IsTemp(e) THEN "str" ELSE "int")>>, {}, FALSE)

StepPass(t, x, c, d) ==
  /\ x.i \in 1 .. Len(x.e.a)
  /\ \E b : Passed(t, x.e.a[x.i], c, b) /\ Argued(t, x.e, x.n, x.i, b, d)

StepArgument(t, x, c, d) ==
  /\ x.i \in 1 .. (Len(x.e.a) + 1) /\ (x.t = "arg" <=> x.i <= Len(x.e.a))
  /\ Argued(t, x.e, x.n, x.i - 1, c, d)

\* The beginning and the end of a statement p.
StepEntry(c, d) ==
  /\ c.n = 0 /\ c.st = "undef" /\ c.sp = 0 /\ c.cl = 0 /\ c.nv = 0
  /\ d.n = 1 /\ d.st = "undef" /\ d.sp = 0 /\ d.cl = 0 /\ d.nv = 0
  /\ Top(d) = Pc(<< >>, {}, TRUE)

StepEnd(t, p, x, c) ==
  /\ PlainStatement(t, p) /\ x.e = p.e /\ x.t = (IF p.k = "call" THEN "output" ELSE p.k)
  /\ c.n = 1 /\ c.sp = Len(Left(p.e)) /\ Top(c).out = Left(p.e)
  /\ ~Procedure(p.e) => c.nv >= 1 /\ c.vs[c.nv] = Shown(t, p.e)
  /\ p.k # "call" => c.st = IF p.e \in t.const THEN "undef" ELSE IF p.e.k = "call" THEN "sp" ELSE "ax"

Step(t, p, x, c, d) ==
  \/ x.t = "expr" /\ StepExpr(t, x.e, c, d)
  \/ x.t \in {"neg", "not"} /\ x.t = x.e.k /\ StepUnary(t, x.e, c, d)
  \/ x.t = "right" /\ StepRight(c, d)
  \/ x.t = "op" /\ StepOp(t, x.e, c, d)
  \/ x.t \in {"term", "drop", "label"} /\ StepLogic(t, x, c, d)
  \/ x.t \in {"arg", "call"} /\ StepArgument(t, x, c, d)
  \/ x.t = "pass" /\ StepPass(t, x, c, d)
  \/ x.t = "entry" /\ StepEntry(c, d)
  \/ x.t \in {"assign", "if", "return", "output"} /\ StepEnd(t, p, x, c)

\* A way through all the tasks.
Chain(t, p, s, c, d) ==
  \E C : C[0] = c /\ C[Len(s)] = d /\ \A i \in 1 .. Len(s) : Step(t, p, s[i], C[i - 1], C[i])
Typed(t, p, s, c) == IsSeq(s) /\ \E d : Chain(t, p, s, c, d)

\* The state of package code and the values are as c says.
Empty(k, cl) ==
  /\ IsSeq(k) /\ cl \in Nat /\ cl <= Len(k)
  /\ \A i \in (Len(k) - cl + 1) .. Len(k) : k[i] = << >>

Made(st, arg, clean, sp, labels) ==
  [state |-> st, arg |-> arg, clean |-> clean, file |-> << >>, sp |-> sp, labels |-> labels]

Matches(g, c) ==
  /\ g = Made(c.st, g.arg, g.clean, c.sp, g.labels)
  /\ c.sp \in Int /\ g.labels \in Nat /\ Empty(g.clean, c.cl)
  /\ c.n \in Nat /\ IsSeq(g.arg) /\ Len(g.arg) = c.n /\ Apart(g.arg)
  /\ \A i \in 1 .. c.n : /\ Piece(g.arg[i], c.pc[i].out, c.pc[i].open)
                         /\ Labels(g.arg[i]) \subseteq 1 .. g.labels
                         /\ g.arg[i] = << >> => c.pc[i].blank

IsValue(v) == v = [typ |-> v.typ, const |-> v.const, n |-> v.n, lit |-> v.lit, temp |-> v.temp]
Shows(v, s) ==
  IsValue(v) /\ v.const = s.const /\ (v.const => v.n = s.n) /\ v.temp = s.temp

Means(w, c) ==
  IsSeq(w) /\ c.nv \in Nat /\ Len(w) = c.nv /\ \A i \in 1 .. c.nv : Shows(w[i], c.vs[i])

-----------------------------------------------------------------------------
(* Chains.                                                                 *)

LEMMA ChainNone ==
  ASSUME NEW t, NEW p, NEW c
  PROVE  Chain(t, p, << >>, c, c)
<1>1. Len(<< >>) = 0
  BY SeqOfNone
<1> DEFINE C == [i \in 0 .. 0 |-> c]
<1>2. C[0] = c /\ C[Len(<< >>)] = c
  BY <1>1
<1>3. \A i \in 1 .. Len(<< >>) : FALSE
  BY <1>1
<1> HIDE DEF C
<1> QED
  BY <1>2, <1>3 DEF Chain

LEMMA ChainCons ==
  ASSUME NEW t, NEW p, NEW x, NEW s, IsSeq(s), NEW b, NEW c, NEW d,
         Step(t, p, x, b, c), Chain(t, p, s, c, d)
  PROVE  Chain(t, p, <<x>> \o s, b, d)
<1> DEFINE r == <<x>> \o s
<1>1. /\ Len(s) \in Nat /\ Len(r) = Len(s) + 1 /\ r[1] = x
      /\ \A i \in 1 .. Len(s) : r[i + 1] = s[i]
  <2>1. IsSeq(<<x>>) /\ Len(<<x>>) = 1 /\ <<x>>[1] = x
    BY SeqOne
  <2>2. /\ Len(r) = Len(<<x>>) + Len(s)
        /\ \A i \in 1 .. Len(<<x>>) : r[i] = <<x>>[i]
        /\ \A i \in 1 .. Len(s) : r[Len(<<x>>) + i] = s[i]
    BY <2>1, SeqConcat
  <2> HIDE DEF r
  <2>3. Len(s) \in Nat
    BY SeqLen
  <2> QED
    BY <2>1, <2>2, <2>3
<1>2. PICK C : C[0] = c /\ C[Len(s)] = d /\ \A i \in 1 .. Len(s) : Step(t, p, s[i], C[i - 1], C[i])
  BY DEF Chain
<1> DEFINE D == [i \in 0 .. (Len(s) + 1) |-> IF i = 0 THEN b ELSE C[i - 1]]
<1> HIDE DEF r
<1>3. D[0] = b /\ D[1] = c /\ D[Len(r)] = d /\ \A i \in 0 .. Len(s) : D[i + 1] = C[i]
  BY <1>1, <1>2
<1>4. ASSUME NEW i \in 1 .. Len(r) PROVE Step(t, p, r[i], D[i - 1], D[i])
  <2>1. CASE i = 1
    BY <1>1, <1>3, <2>1
  <2>2. CASE i # 1
    <3> DEFINE j == i - 1
    <3>1. j \in 1 .. Len(s) /\ j \in 0 .. Len(s) /\ j - 1 \in 0 .. Len(s) /\ i = j + 1
          /\ j = j - 1 + 1 /\ i - 1 = j
      BY <1>1, <2>2
    <3> HIDE DEF j, D
    <3>2. D[i] = C[j] /\ D[i - 1] = C[j - 1] /\ r[i] = s[j]
      BY <1>1, <1>3, <3>1
    <3> QED
      BY <1>2, <3>1, <3>2
  <2> QED
    BY <2>1, <2>2
<1> HIDE DEF D
<1>5. Chain(t, p, r, b, d)
  BY <1>3, <1>4 DEF Chain
<1> QED
  BY <1>5 DEF r

LEMMA TypedFirst ==
  ASSUME NEW t, NEW p, NEW s, NEW c, Typed(t, p, s, c), s # << >>
  PROVE  \E d : Step(t, p, s[1], c, d) /\ Typed(t, p, Tail(s), d)
<1>1. IsSeq(s) /\ Len(s) \in Nat /\ Len(s) # 0
  BY SeqLen, SeqEmpty DEF Typed
<1>2. /\ IsSeq(Tail(s)) /\ Len(Tail(s)) = Len(s) - 1
      /\ \A i \in 1 .. Len(s) - 1 : Tail(s)[i] = s[i + 1]
  <2>1. PICK S : s \in Seq(S)
    BY <1>1 DEF IsSeq
  <2>2. Tail(s) \in Seq(S) /\ Len(Tail(s)) = Len(s) - 1
        /\ \A i \in 1 .. Len(s) - 1 : Tail(s)[i] = s[i + 1]
    BY <1>1, <2>1
  <2> QED
    BY <2>2 DEF IsSeq
<1>3. PICK C : C[0] = c /\ \A i \in 1 .. Len(s) : Step(t, p, s[i], C[i - 1], C[i])
  BY DEF Typed, Chain
<1> DEFINE r == Tail(s)
           D == [i \in 0 .. (Len(s) - 1) |-> C[i + 1]]
<1> HIDE DEF r
<1>4. \A i \in 0 .. Len(r) : D[i] = C[i + 1]
  BY <1>1, <1>2 DEF r
<1>5. ASSUME NEW i \in 1 .. Len(r) PROVE Step(t, p, r[i], D[i - 1], D[i])
  <2>1. /\ i \in 0 .. Len(r) /\ i - 1 \in 0 .. Len(r) /\ i + 1 \in 1 .. Len(s) /\ i - 1 + 1 = i
        /\ i + 1 - 1 = i /\ i \in 1 .. Len(s) - 1
    BY <1>1, <1>2 DEF r
  <2>2. D[i - 1] = C[i] /\ D[i] = C[i + 1] /\ r[i] = s[i + 1]
    BY <1>2, <1>4, <2>1 DEF r
  <2> HIDE DEF D
  <2>3. Step(t, p, s[i + 1], C[i + 1 - 1], C[i + 1])
    BY <1>3, <2>1
  <2> QED
    BY <2>1, <2>2, <2>3
<1>6. D[0] = C[1]
  BY <1>1, <1>2, <1>4 DEF r
<1> HIDE DEF D
<1>7. Typed(t, p, r, C[1])
  BY <1>2, <1>5, <1>6 DEF Typed, Chain, r
<1>8. Step(t, p, s[1], c, C[1])
  <2>1. 1 \in 1 .. Len(s) /\ 1 - 1 = 0
    BY <1>1
  <2> QED
    BY <1>3, <2>1
<1> QED
  BY <1>7, <1>8 DEF r

-----------------------------------------------------------------------------
(* Package code, when the current piece is q and a is below it.            *)

s ## x == Append(s, x)

LEMMA SeqSnoc ==
  \A s, x : IsSeq(s) =>
         /\ IsSeq(s ## x) /\ Len(s) \in Nat /\ Len(s ## x) = Len(s) + 1
         /\ s ## x # << >> /\ (s ## x)[Len(s) + 1] = x
         /\ \A i \in 1 .. Len(s) : (s ## x)[i] = s[i]
<1> SUFFICES ASSUME NEW s, NEW x, IsSeq(s)
             PROVE  /\ IsSeq(s ## x) /\ Len(s) \in Nat /\ Len(s ## x) = Len(s) + 1
                    /\ s ## x # << >> /\ (s ## x)[Len(s) + 1] = x
                    /\ \A i \in 1 .. Len(s) : (s ## x)[i] = s[i]
  OBVIOUS
<1>1. /\ IsSeq(s ## x) /\ Len(s) \in Nat /\ Len(s ## x) = Len(s) + 1
      /\ (s ## x)[Len(s) + 1] = x /\ \A i \in 1 .. Len(s) : (s ## x)[i] = s[i]
  BY SeqLen, SeqAppend DEF ##
<1>2. Len(s ## x) # 0
  BY <1>1
<1> HIDE DEF ##
<1> QED
  BY <1>1, <1>2, SeqEmpty

LEMMA SeqMade ==
  ASSUME NEW v, NEW m \in Nat, v = [i \in 1 .. m |-> v[i]]
  PROVE  IsSeq(v) /\ Len(v) = m
<1> DEFINE S == {v[i] : i \in 1 .. m}
<1>1. \A i \in 1 .. m : v[i] \in S
  OBVIOUS
<1> HIDE DEF S
<1>2. v \in [1 .. m -> S]
  BY <1>1
<1>3. v \in Seq(S) /\ Len(v) = m
  BY <1>2
<1> QED
  BY <1>3 DEF IsSeq

LEMMA SeqTop ==
  ASSUME NEW a, IsSeq(a), NEW q, NEW r, NEW s, s = a ## q
  PROVE  s[Len(s)] = q /\ [s EXCEPT ![Len(s)] = r] = a ## r
<1> DEFINE u == a ## r
           v == [s EXCEPT ![Len(s)] = r]
<1>1. /\ Len(a) \in Nat /\ IsSeq(s) /\ Len(s) = Len(a) + 1 /\ \A i \in 1 .. Len(a) : s[i] = a[i]
      /\ IsSeq(u) /\ Len(u) = Len(a) + 1 /\ \A i \in 1 .. Len(a) : u[i] = a[i]
      /\ u[Len(a) + 1] = r /\ s[Len(a) + 1] = q
  BY SeqSnoc
<1> HIDE DEF u
<1>2. v = [i \in 1 .. Len(s) |-> v[i]] /\ \A i \in 1 .. Len(s) : v[i] = IF i = Len(s) THEN r ELSE s[i]
  BY <1>1, SeqLen
<1> HIDE DEF v
<1>5. Len(s) \in Nat
  BY <1>1
<1>6. IsSeq(v) /\ Len(v) = Len(s)
  BY <1>2, <1>5, SeqMade
<1>3. \A i \in 1 .. Len(v) : v[i] = u[i]
  BY <1>1, <1>2, <1>6
<1>4. v = u
  BY <1>1, <1>6, <1>3, SeqSame
<1> QED
  BY <1>1, <1>4 DEF u, v

LEMMA SeqConcatOne ==
  ASSUME NEW s, IsSeq(s), NEW x
  PROVE  s \o <<x>> = s ## x
<1> DEFINE u == s \o <<x>>
           v == s ## x
<1>1. /\ Len(s) \in Nat /\ IsSeq(v) /\ Len(v) = Len(s) + 1 /\ v[Len(s) + 1] = x
      /\ \A i \in 1 .. Len(s) : v[i] = s[i]
  BY SeqSnoc
<1>2. /\ IsSeq(u) /\ Len(u) = Len(s) + 1 /\ u[Len(s) + 1] = x
      /\ \A i \in 1 .. Len(s) : u[i] = s[i]
  <2>1. IsSeq(<<x>>) /\ Len(<<x>>) = 1 /\ <<x>>[1] = x
    BY SeqOne
  <2>2. /\ IsSeq(u) /\ Len(u) = Len(s) + Len(<<x>>)
        /\ \A i \in 1 .. Len(s) : u[i] = s[i]
        /\ \A i \in 1 .. Len(<<x>>) : u[Len(s) + i] = <<x>>[i]
    BY <2>1, SeqConcat
  <2> HIDE DEF u
  <2> QED
    BY <2>1, <2>2
<1> HIDE DEF u, v
<1>3. \A i \in 1 .. Len(u) : u[i] = v[i]
  BY <1>1, <1>2
<1>4. u = v
  BY <1>1, <1>2, <1>3, SeqSame
<1> QED
  BY <1>4 DEF u, v

LEMMA SeqSplit ==
  ASSUME NEW s, IsSeq(s), Len(s) >= 1
  PROVE  /\ s = SubSeq(s, 1, Len(s) - 1) ## s[Len(s)]
         /\ IsSeq(SubSeq(s, 1, Len(s) - 1)) /\ Len(SubSeq(s, 1, Len(s) - 1)) = Len(s) - 1
         /\ \A i \in 1 .. (Len(s) - 1) : SubSeq(s, 1, Len(s) - 1)[i] = s[i]
<1> DEFINE a == SubSeq(s, 1, Len(s) - 1)
           u == a ## s[Len(s)]
<1>1. Len(s) \in Nat
  BY SeqLen
<1>2. IsSeq(a) /\ Len(a) = Len(s) - 1 /\ \A i \in 1 .. (Len(s) - 1) : a[i] = s[i]
  <2> DEFINE m == Len(s) - 1
  <2>3. m \in Int /\ 1 \in Int /\ 1 <= 1 /\ 1 <= m + 1 /\ m <= Len(s)
    BY <1>1
  <2>2. m - 1 + 1 = m /\ \A i \in 1 .. m : 1 + i - 1 = i
    BY <1>1
  <2> HIDE DEF m
  <2>1. /\ IsSeq(SubSeq(s, 1, m)) /\ Len(SubSeq(s, 1, m)) = m - 1 + 1
        /\ \A i \in 1 .. (m - 1 + 1) : SubSeq(s, 1, m)[i] = s[1 + i - 1]
    BY <2>3, SeqSub
  <2> QED
    BY <2>1, <2>2 DEF m
<1> HIDE DEF a
<1>3. /\ IsSeq(u) /\ Len(u) = Len(a) + 1 /\ u[Len(a) + 1] = s[Len(s)]
      /\ \A i \in 1 .. Len(a) : u[i] = a[i]
  BY <1>2, SeqSnoc
<1> HIDE DEF u
<1>4. ASSUME NEW i \in 1 .. Len(s) PROVE s[i] = u[i]
  <2>1. i = Len(s) \/ i \in 1 .. (Len(s) - 1)
    BY <1>1
  <2> QED
    BY <1>1, <1>2, <1>3, <2>1
<1>5. s = u
  BY <1>1, <1>2, <1>3, <1>4, SeqSame
<1> QED
  BY <1>2, <1>5 DEF u, a

LEMMA MadeFields ==
  \A st, arg, clean, sp, l :
    /\ Made(st, arg, clean, sp, l).state = st /\ Made(st, arg, clean, sp, l).arg = arg
    /\ Made(st, arg, clean, sp, l).clean = clean /\ Made(st, arg, clean, sp, l).file = << >>
    /\ Made(st, arg, clean, sp, l).sp = sp /\ Made(st, arg, clean, sp, l).labels = l
  BY DEF Made

LEMMA MadeState ==
  ASSUME NEW st, NEW arg, NEW clean, NEW sp, NEW l, NEW x
  PROVE  [Made(st, arg, clean, sp, l) EXCEPT !.state = x] = Made(x, arg, clean, sp, l)
  BY DEF Made

LEMMA MadeArg ==
  ASSUME NEW st, NEW arg, NEW clean, NEW sp, NEW l, NEW x
  PROVE  [Made(st, arg, clean, sp, l) EXCEPT !.arg = x] = Made(st, x, clean, sp, l)
  BY DEF Made

LEMMA MadeClean ==
  ASSUME NEW st, NEW arg, NEW clean, NEW sp, NEW l, NEW x
  PROVE  [Made(st, arg, clean, sp, l) EXCEPT !.clean = x] = Made(st, arg, x, sp, l)
  BY DEF Made

LEMMA MadeSp ==
  ASSUME NEW st, NEW arg, NEW clean, NEW sp, NEW l, NEW x
  PROVE  [Made(st, arg, clean, sp, l) EXCEPT !.sp = x] = Made(st, arg, clean, x, l)
  BY DEF Made

LEMMA MadeLabels ==
  ASSUME NEW st, NEW arg, NEW clean, NEW sp, NEW l, NEW x
  PROVE  [Made(st, arg, clean, sp, l) EXCEPT !.labels = x] = Made(st, arg, clean, sp, x)
  BY DEF Made

G(st, a, q, k, sp, l) == Made(st, a ## q, k, sp, l)

LEMMA EmitMade ==
  ASSUME NEW a, IsSeq(a), NEW q, NEW i, NEW st, NEW k, NEW sp, NEW l
  PROVE  Emit(G(st, a, q, k, sp, l), i) = G(st, a, q ## i, k, sp + Growth(i), l)
<1> DEFINE s == a ## q
           u == a ## (q ## i)
           g == Made(st, s, k, sp, l)
           h == Made(st, u, k, sp, l)
           to == sp + Growth(i)
<1>1. s # << >> /\ s[Len(s)] = q /\ [s EXCEPT ![Len(s)] = q ## i] = u
  <2>1. s # << >> /\ s = a ## q
    BY SeqSnoc
  <2> HIDE DEF s
  <2> QED
    BY <2>1, SeqTop
<1> HIDE DEF s, u, to
<1>2. Write(g, i) = h
  <2>1. g.arg = s
    BY MadeFields
  <2>2. [g EXCEPT !.arg = u] = h
    BY MadeArg
  <2> HIDE DEF g, h
  <2>3. Write(g, i) = [g EXCEPT !.arg[Len(g.arg)] = Append(@, i)]
    BY <1>1, <2>1 DEF Write
  <2>4. [g EXCEPT !.arg[Len(g.arg)] = Append(@, i)]
          = [g EXCEPT !.arg = [s EXCEPT ![Len(s)] = s[Len(s)] ## i]]
    BY <2>1 DEF ##
  <2>5. [s EXCEPT ![Len(s)] = s[Len(s)] ## i] = u
    BY <1>1
  <2> QED
    BY <2>2, <2>3, <2>4, <2>5
<1>3. Emit(g, i) = Made(st, u, k, to, l)
  <2>1. h.sp = sp
    BY MadeFields
  <2>2. [h EXCEPT !.sp = to] = Made(st, u, k, to, l)
    BY MadeSp
  <2> HIDE DEF h, g
  <2>3. Emit(g, i) = [h EXCEPT !.sp = @ + Growth(i)]
    BY <1>2 DEF Emit
  <2>4. [h EXCEPT !.sp = @ + Growth(i)] = [h EXCEPT !.sp = to]
    BY <2>1 DEF to
  <2> QED
    BY <2>2, <2>3, <2>4
<1> QED
  BY <1>3 DEF G, s, u, to

LEMMA AtMade ==
  ASSUME NEW a, NEW q, NEW st, NEW k, NEW sp, NEW l, NEW to
  PROVE  At(G(st, a, q, k, sp, l), to) = G(to, a, q, k, sp, l) /\ G(st, a, q, k, sp, l).state = st
  BY DEF At, G, Made

LEMMA GrowthOf ==
  /\ Growth(Push) = 1 /\ Growth(Pop) = -1
  /\ \A s, n : Growth(Ins("reserve", s, n)) = n /\ Growth(Ins("drop", s, n)) = -n
               /\ Growth(Ins("operator", s, n)) = -n
  /\ \A i : i.op \in {"load", "const", "unary", "operconst", "comment", "call", "free",
                      "jz", "jnz", "label", "store", "storeconst", "result", "block"}
              => Growth(i) = 0
  BY DEF Growth, Ins, Push, Pop

LEMMA FlushMade ==
  ASSUME NEW a, IsSeq(a), NEW q, NEW st, NEW k, NEW sp \in Int, NEW l
  PROVE  EmitFlushRax(G(st, a, q, k, sp, l)) =
           IF st = "ax" THEN G("undef", a, q ## Push, k, sp + 1, l) ELSE G(st, a, q, k, sp, l)
<1>1. sp + Growth(Push) = sp + 1
  BY GrowthOf
<1>2. Emit(G(st, a, q, k, sp, l), Push) = G(st, a, q ## Push, k, sp + 1, l)
  BY <1>1, EmitMade
<1> QED
  BY <1>2, AtMade DEF EmitFlushRax

LEMMA AssertMade ==
  ASSUME NEW a, IsSeq(a), NEW q, NEW st, NEW k, NEW sp \in Int, NEW l
  PROVE  EmitAssertTosInRax(G(st, a, q, k, sp, l)) =
           IF st = "sp" THEN G("ax", a, q ## Pop, k, sp - 1, l) ELSE G(st, a, q, k, sp, l)
<1>1. sp + Growth(Pop) = sp - 1
  BY GrowthOf
<1>2. Emit(G(st, a, q, k, sp, l), Pop) = G(st, a, q ## Pop, k, sp - 1, l)
  BY <1>1, EmitMade
<1> QED
  BY <1>2, AtMade DEF EmitAssertTosInRax

LEMMA PushMade ==
  ASSUME NEW a, IsSeq(a), NEW q, NEW st, NEW k, NEW sp \in Int, NEW l
  PROVE  EmitPushTos(G(st, a, q, k, sp, l)) =
           IF st = "ax" THEN G("sp", a, q ## Push, k, sp + 1, l) ELSE G(st, a, q, k, sp, l)
<1>1. sp + Growth(Push) = sp + 1
  BY GrowthOf
<1>2. Emit(G(st, a, q, k, sp, l), Push) = G(st, a, q ## Push, k, sp + 1, l)
  BY <1>1, EmitMade
<1> QED
  BY <1>2, AtMade DEF EmitPushTos

(* Instructions behind a piece.                                            *)
LEMMA PieceMore ==
  ASSUME NEW p, NEW out, NEW open, Piece(p, out, open), NEW i, ~Marking(i),
         NEW t \in Shapes, Flow(i, out, t)
  PROVE  Piece(p ## i, t, open) /\ Labels(p ## i) = Labels(p) /\ p ## i # << >>
<1>1. IsSeq(p)
  BY PieceIsSeq
<1>2. p ## i # << >>
  BY <1>1, SeqSnoc
<1> QED
  BY <1>2, PieceAppend DEF ##

LEMMA PiecePush ==
  ASSUME NEW p, NEW out, NEW open, Piece(p, out, open)
  PROVE  /\ Piece(p ## Push, out ++ Nums(1), open) /\ Labels(p ## Push) = Labels(p)
         /\ p ## Push # << >>
<1>1. out \in Shapes /\ Nums(1) \in Shapes
  BY PieceIsSeq, NumsType
<1>2. out ++ Nums(1) \in Shapes
  BY <1>1, ShapeConcat
<1>3. ~Marking(Push) /\ Flow(Push, out, out ++ Nums(1))
  BY DEF Marking, Flow, Push, Ins
<1> QED
  BY <1>2, <1>3, PieceMore

LEMMA PiecePop ==
  ASSUME NEW p, NEW out \in Shapes, NEW open, Piece(p, out ++ Nums(1), open)
  PROVE  /\ Piece(p ## Pop, out, open) /\ Labels(p ## Pop) = Labels(p)
         /\ p ## Pop # << >>
<1>3. ~Marking(Pop) /\ Flow(Pop, out ++ Nums(1), out)
  BY DEF Marking, Flow, Pop, Ins
<1> QED
  BY <1>3, PieceMore

LEMMA PieceStays ==
  ASSUME NEW p, NEW out, NEW open, Piece(p, out, open), NEW i,
         i.op \in {"load", "const", "unary", "operconst", "comment", "store", "storeconst",
                   "result", "block"}
  PROVE  Piece(p ## i, out, open) /\ Labels(p ## i) = Labels(p) /\ p ## i # << >>
<1>1. ~Marking(i) /\ Flow(i, out, out)
  BY DEF Marking, Flow
<1>2. out \in Shapes
  BY PieceIsSeq
<1> QED
  BY <1>1, <1>2, PieceMore

-----------------------------------------------------------------------------
(* When the current piece changes, the state matches the new one.          *)

LEMMA EmptyLowered ==
  ASSUME NEW k, NEW c, Empty(k, c.cl), NEW d, Lowered(c, d)
  PROVE  Empty(k, d.cl)
<1>1. Len(k) \in Nat /\ d.cl \in Nat /\ c.cl \in Nat /\ d.cl <= c.cl
  BY SeqLen DEF Empty, Lowered
<1>2. \A i \in (Len(k) - d.cl + 1) .. Len(k) : i \in (Len(k) - c.cl + 1) .. Len(k)
  BY <1>1
<1> QED
  BY <1>1, <1>2 DEF Empty

LEMMA MatchesFrom ==
  ASSUME NEW g, NEW c, Matches(g, c), NEW f \in Nat, f >= 1, f <= c.n + 1, NEW q, NEW k,
         NEW l \in Nat, g.labels <= l,
         NEW d, Below(c, d, f), d.sp \in Int, Empty(k, d.cl),
         Piece(q, Top(d).out, Top(d).open), q = << >> => Top(d).blank,
         \A x \in Labels(q) : x \in (g.labels + 1) .. l \/ \E i \in f .. c.n : x \in Labels(g.arg[i])
  PROVE  Matches(G(d.st, SubSeq(g.arg, 1, f - 1), q, k, d.sp, l), d)
<1> DEFINE a == SubSeq(g.arg, 1, f - 1)
           s == a ## q
           h == Made(d.st, s, k, d.sp, l)
<1>0. /\ c.n \in Nat /\ IsSeq(g.arg) /\ Len(g.arg) = c.n /\ Apart(g.arg) /\ g.labels \in Nat
      /\ d.n = f /\ \A i \in 1 .. (f - 1) : d.pc[i] = c.pc[i]
  BY DEF Matches, Below
<1>1. IsSeq(a) /\ Len(a) = f - 1 /\ \A i \in 1 .. (f - 1) : a[i] = g.arg[i]
  <2> DEFINE m == f - 1
  <2>1. 1 \in Int /\ m \in Int /\ 1 <= 1 /\ 1 <= m + 1 /\ m <= Len(g.arg)
    BY <1>0
  <2>2. m - 1 + 1 = m /\ \A i \in 1 .. m : 1 + i - 1 = i
    BY <1>0
  <2> HIDE DEF m
  <2>3. /\ IsSeq(SubSeq(g.arg, 1, m)) /\ Len(SubSeq(g.arg, 1, m)) = m - 1 + 1
        /\ \A i \in 1 .. (m - 1 + 1) : SubSeq(g.arg, 1, m)[i] = g.arg[1 + i - 1]
    BY <1>0, <2>1, SeqSub
  <2> QED
    BY <2>2, <2>3 DEF m
<1> HIDE DEF a
<1>2. /\ IsSeq(s) /\ Len(s) = f /\ s[f] = q /\ \A i \in 1 .. (f - 1) : s[i] = g.arg[i]
  <2>1. /\ IsSeq(s) /\ Len(s) = Len(a) + 1 /\ s[Len(a) + 1] = q
        /\ \A i \in 1 .. Len(a) : s[i] = a[i]
    BY <1>1, SeqSnoc
  <2> HIDE DEF s
  <2>2. Len(a) + 1 = f
    BY <1>1
  <2> QED
    BY <1>1, <2>1, <2>2
<1> HIDE DEF s
<1>3. /\ h.state = d.st /\ h.arg = s /\ h.clean = k /\ h.file = << >> /\ h.sp = d.sp /\ h.labels = l
  BY MadeFields
<1>4. \A i \in 1 .. f : i = f \/ (i \in 1 .. (f - 1) /\ i \in 1 .. c.n /\ i # f)
  BY <1>0
<1>5. ASSUME NEW i \in 1 .. (f - 1)
      PROVE  Labels(s[i]) \cap Labels(q) = {}
  <2>1. s[i] = g.arg[i] /\ i \in 1 .. c.n
    BY <1>0, <1>2
  <2>2. Labels(g.arg[i]) \subseteq 1 .. g.labels
    BY <2>1 DEF Matches
  <2>3. ASSUME NEW x \in Labels(g.arg[i]), x \in Labels(q) PROVE FALSE
    <3>1. x \in 1 .. g.labels /\ x \notin (g.labels + 1) .. l
      BY <1>0, <2>2, <2>3
    <3>2. PICK j \in f .. c.n : x \in Labels(g.arg[j])
      BY <2>3, <3>1
    <3>3. j \in 1 .. Len(g.arg) /\ i \in 1 .. Len(g.arg) /\ i # j
      BY <1>0, <2>1
    <3>4. Labels(g.arg[i]) \cap Labels(g.arg[j]) = {}
      BY <1>0, <3>3 DEF Apart
    <3> QED
      BY <2>3, <3>2, <3>4
  <2> QED
    BY <2>1, <2>3
<1>6. Apart(s)
  <2> SUFFICES ASSUME NEW i \in 1 .. f, NEW j \in 1 .. f, i # j
               PROVE  Labels(s[i]) \cap Labels(s[j]) = {}
    BY <1>2 DEF Apart
  <2>1. CASE i = f
    <3>1. j \in 1 .. (f - 1) /\ s[i] = q
      BY <1>2, <1>4, <2>1
    <3>2. Labels(s[j]) \cap Labels(q) = {}
      BY <1>5, <3>1
    <3> QED
      BY <3>1, <3>2
  <2>2. CASE j = f
    <3>1. i \in 1 .. (f - 1) /\ s[j] = q
      BY <1>2, <1>4, <2>2
    <3>2. Labels(s[i]) \cap Labels(q) = {}
      BY <1>5, <3>1
    <3> QED
      BY <3>1, <3>2
  <2>3. CASE i # f /\ j # f
    <3>1. /\ i \in 1 .. (f - 1) /\ j \in 1 .. (f - 1)
          /\ i \in 1 .. Len(g.arg) /\ j \in 1 .. Len(g.arg)
      BY <1>0, <1>4, <2>3
    <3>2. s[i] = g.arg[i] /\ s[j] = g.arg[j]
      BY <1>2, <3>1
    <3> QED
      BY <1>0, <3>1, <3>2 DEF Apart
  <2> QED
    BY <2>1, <2>2, <2>3
<1>7. Labels(q) \subseteq 1 .. l
  <2> SUFFICES ASSUME NEW x \in Labels(q) PROVE x \in 1 .. l
    OBVIOUS
  <2>1. CASE x \in (g.labels + 1) .. l
    BY <1>0, <2>1
  <2>2. CASE x \notin (g.labels + 1) .. l
    <3>1. PICK j \in f .. c.n : x \in Labels(g.arg[j])
      BY <2>2
    <3>2. j \in 1 .. c.n
      BY <1>0
    <3>3. x \in 1 .. g.labels
      BY <3>1, <3>2 DEF Matches
    <3> QED
      BY <1>0, <3>3
  <2> QED
    BY <2>1, <2>2
<1>8. ASSUME NEW i \in 1 .. f
      PROVE  /\ Piece(s[i], d.pc[i].out, d.pc[i].open)
             /\ Labels(s[i]) \subseteq 1 .. l
             /\ s[i] = << >> => d.pc[i].blank
  <2>1. CASE i = f
    BY <1>0, <1>2, <1>7, <2>1 DEF Top
  <2>2. CASE i # f
    <3>1. i \in 1 .. (f - 1) /\ i \in 1 .. c.n
      BY <1>4, <2>2
    <3>2. s[i] = g.arg[i] /\ d.pc[i] = c.pc[i]
      BY <1>0, <1>2, <3>1
    <3>3. /\ Piece(g.arg[i], c.pc[i].out, c.pc[i].open)
          /\ Labels(g.arg[i]) \subseteq 1 .. g.labels
          /\ g.arg[i] = << >> => c.pc[i].blank
      BY <3>1 DEF Matches
    <3>4. 1 .. g.labels \subseteq 1 .. l
      BY <1>0
    <3> QED
      BY <3>2, <3>3, <3>4
  <2> QED
    BY <2>1, <2>2
<1>9. h = Made(d.st, h.arg, h.clean, d.sp, h.labels)
  BY <1>3
<1> HIDE DEF h
<1>10. Matches(h, d)
  BY <1>0, <1>2, <1>3, <1>6, <1>8, <1>9 DEF Matches
<1> QED
  BY <1>10 DEF h, s, a, G

(* The state, with its current piece on top.                               *)
Under(g, c) == SubSeq(g.arg, 1, c.n - 1)

LEMMA MatchesForm ==
  ASSUME NEW g, NEW c, Matches(g, c), c.n >= 1
  PROVE  /\ g = G(c.st, Under(g, c), g.arg[c.n], g.clean, c.sp, g.labels)
         /\ IsSeq(Under(g, c)) /\ Len(Under(g, c)) = c.n - 1
         /\ \A i \in 1 .. (c.n - 1) : Under(g, c)[i] = g.arg[i]
         /\ c.n \in Nat /\ c.sp \in Int /\ g.labels \in Nat
         /\ Piece(g.arg[c.n], Top(c).out, Top(c).open) /\ Top(c).out \in Shapes
         /\ Labels(g.arg[c.n]) \subseteq 1 .. g.labels
         /\ g.arg[c.n] = << >> => Top(c).blank
         /\ Empty(g.clean, c.cl) /\ c.cl \in Nat
<1>1. IsSeq(g.arg) /\ Len(g.arg) = c.n /\ c.n \in Nat /\ c.sp \in Int /\ g.labels \in Nat
      /\ Empty(g.clean, c.cl) /\ g = Made(c.st, g.arg, g.clean, c.sp, g.labels)
  BY DEF Matches
<1>2. /\ g.arg = Under(g, c) ## g.arg[c.n]
      /\ IsSeq(Under(g, c)) /\ Len(Under(g, c)) = c.n - 1
      /\ \A i \in 1 .. (c.n - 1) : Under(g, c)[i] = g.arg[i]
  BY <1>1, SeqSplit DEF Under
<1>3. c.n \in 1 .. c.n
  BY <1>1
<1>4. /\ Piece(g.arg[c.n], Top(c).out, Top(c).open)
      /\ Labels(g.arg[c.n]) \subseteq 1 .. g.labels
      /\ g.arg[c.n] = << >> => Top(c).blank
  BY <1>3 DEF Matches, Top
<1>5. Top(c).out \in Shapes
  BY <1>4, PieceIsSeq
<1>6. c.cl \in Nat
  BY <1>1 DEF Empty
<1> QED
  BY <1>1, <1>2, <1>4, <1>5, <1>6 DEF G

LEMMA MatchesOn ==
  ASSUME NEW g, NEW c, Matches(g, c), c.n >= 1, NEW q, NEW d,
         Below(c, d, c.n), Lowered(c, d), d.sp \in Int,
         Piece(q, Top(d).out, Top(d).open), q = << >> => Top(d).blank,
         Labels(q) = Labels(g.arg[c.n])
  PROVE  Matches(G(d.st, Under(g, c), q, g.clean, d.sp, g.labels), d)
<1>1. c.n \in Nat /\ g.labels \in Nat /\ Empty(g.clean, c.cl)
  BY MatchesForm
<1>2. Empty(g.clean, d.cl)
  BY <1>1, EmptyLowered
<1>3. \A x \in Labels(q) :
         x \in (g.labels + 1) .. g.labels \/ \E i \in c.n .. c.n : x \in Labels(g.arg[i])
  <2>1. c.n \in c.n .. c.n
    BY <1>1
  <2> QED
    BY <2>1
<1>4. c.n <= c.n + 1 /\ g.labels <= g.labels
  BY <1>1
<1> QED
  BY <1>1, <1>2, <1>3, <1>4, MatchesFrom DEF Under

-----------------------------------------------------------------------------
(* When values come and go, they are what the new configuration says.      *)

LEMMA MeansCut ==
  ASSUME NEW w, NEW c, Means(w, c), NEW d, NEW k \in Nat, k <= c.nv, SameValues(c, d, k)
  PROVE  Means(SubSeq(w, 1, k), d)
<1> DEFINE u == SubSeq(w, 1, k)
<1>1. IsSeq(w) /\ Len(w) \in Nat /\ Len(w) = c.nv
  BY SeqLen DEF Means
<1>2. IsSeq(u) /\ Len(u) = k /\ \A i \in 1 .. k : u[i] = w[i]
  <2>1. 1 \in Int /\ k \in Int /\ 1 <= 1 /\ 1 <= k + 1 /\ k <= Len(w)
    BY <1>1
  <2>2. k - 1 + 1 = k /\ \A i \in 1 .. k : 1 + i - 1 = i
    OBVIOUS
  <2>3. /\ IsSeq(SubSeq(w, 1, k)) /\ Len(SubSeq(w, 1, k)) = k - 1 + 1
        /\ \A i \in 1 .. (k - 1 + 1) : SubSeq(w, 1, k)[i] = w[1 + i - 1]
    BY <1>1, <2>1, SeqSub
  <2> QED
    BY <2>2, <2>3
<1> HIDE DEF u
<1>3. \A i \in 1 .. k : i \in 1 .. c.nv
  BY <1>1
<1>4. Means(u, d)
  BY <1>1, <1>2, <1>3 DEF Means, SameValues
<1> QED
  BY <1>4 DEF u

LEMMA MeansSame ==
  ASSUME NEW w, NEW c, Means(w, c), NEW d, SameValues(c, d, c.nv)
  PROVE  Means(w, d)
  BY DEF Means, SameValues

LEMMA MeansMore ==
  ASSUME NEW w, NEW c, Means(w, c), NEW d, NEW s, Yields(c, d, c.nv, s), NEW v, Shows(v, s)
  PROVE  Means(Append(w, v), d)
<1> DEFINE u == Append(w, v)
<1>1. /\ IsSeq(w) /\ Len(w) \in Nat /\ Len(w) = c.nv
      /\ IsSeq(u) /\ Len(u) = c.nv + 1 /\ u[c.nv + 1] = v /\ \A i \in 1 .. c.nv : u[i] = w[i]
  BY SeqLen, SeqAppend DEF Means
<1> HIDE DEF u
<1>2. \A i \in 1 .. (c.nv + 1) : i = c.nv + 1 \/ i \in 1 .. c.nv
  BY <1>1
<1>3. d.nv = c.nv + 1 /\ d.vs[c.nv + 1] = s /\ \A i \in 1 .. c.nv : d.vs[i] = c.vs[i]
  BY DEF Yields
<1>4. ASSUME NEW i \in 1 .. d.nv PROVE Shows(u[i], d.vs[i])
  <2>1. CASE i = c.nv + 1
    BY <1>1, <1>3, <2>1
  <2>2. CASE i \in 1 .. c.nv
    BY <1>1, <1>3, <2>2 DEF Means
  <2> QED
    BY <1>2, <1>3, <2>1, <2>2
<1>5. Means(u, d)
  BY <1>1, <1>3, <1>4 DEF Means
<1> QED
  BY <1>5 DEF u

LEMMA MeansInstead ==
  ASSUME NEW w, NEW c, Means(w, c), NEW d, NEW k \in Nat, k <= c.nv, NEW s, Yields(c, d, k, s),
         NEW v, Shows(v, s)
  PROVE  Means(Append(SubSeq(w, 1, k), v), d)
<1> DEFINE b == Config(0, 0, 0, 0, 0, k, c.vs)
<1>1. b.nv = k /\ b.vs = c.vs
  BY DEF Config
<1> HIDE DEF b
<1>2. Means(SubSeq(w, 1, k), b)
  BY <1>1, MeansCut DEF SameValues
<1>3. Yields(b, d, b.nv, s)
  BY <1>1 DEF Yields
<1> QED
  BY <1>2, <1>3, MeansMore

-----------------------------------------------------------------------------
(* Trees.                                                                  *)

LEMMA TreeOperands ==
  ASSUME NEW t, PlainTrees(t), NEW e \in t.all
  PROVE  /\ IsSeq(e.a) /\ Len(e.a) \in Nat
         /\ \A i \in 1 .. Len(e.a) : e.a[i] \in t.all /\ ~Procedure(e.a[i])
         /\ PlainOperands(t, e) /\ Sorted(t, e)
<1>1. e.a \in Seq(t.all) /\ (\A i \in 1 .. Len(e.a) : ~Procedure(e.a[i]))
      /\ PlainOperands(t, e) /\ Sorted(t, e)
  BY DEF PlainTrees
<1> QED
  BY <1>1 DEF IsSeq

\* What a tree is tells whether it is a constant.
LEMMA TreeKind ==
  ASSUME NEW t, PlainTrees(t), NEW e \in t.all
  PROVE  /\ e.k \in {"int", "bool", "str"} => e \in t.const
         /\ e.k \in {"var", "not", "and", "or", "call"} => e \notin t.const
         /\ e.k \in {"neg", "not"} => Len(e.a) = 1
         /\ e.k = "op" => Len(e.a) = 2
         /\ e.k \in {"and", "or"} => Len(e.a) >= 2
         /\ e.k = "neg" => (e \in t.const <=> e.a[1] \in t.const)
         /\ e.k = "op" => (e \in t.const <=> e.a[1] \in t.const /\ e.a[2] \in t.const)
         /\ e \in t.const => e.k # "call" /\ ~Procedure(e) /\ ~IsTemp(e)
         /\ e.k # "call" => ~Procedure(e) /\ ~IsTemp(e)
<1>1. PlainOperands(t, e) /\ Sorted(t, e)
  BY TreeOperands
<1>2. (e \in t.const) <=> (\/ e.k \in {"int", "bool", "str"}
                           \/ e.k \in {"neg", "op"} /\ \A i \in 1 .. Len(e.a) : e.a[i] \in t.const)
  BY <1>1 DEF Sorted
<1>3. e.k \in {"neg", "not"} => Len(e.a) = 1
  BY <1>1 DEF PlainOperands
<1>4. e.k = "op" => Len(e.a) = 2
  BY <1>1 DEF PlainOperands
<1>5. e.k \in {"and", "or"} => Len(e.a) >= 2
  BY <1>1 DEF PlainOperands
<1>6. \A i : (i \in 1 .. 1 <=> i = 1) /\ (i \in 1 .. 2 <=> i = 1 \/ i = 2)
  OBVIOUS
<1>7. e.k = "neg" => (e \in t.const <=> e.a[1] \in t.const)
  BY <1>2, <1>3, <1>6
<1>8. e.k = "op" => (e \in t.const <=> e.a[1] \in t.const /\ e.a[2] \in t.const)
  BY <1>2, <1>4, <1>6
<1>9. e.k # "call" => ~Procedure(e) /\ ~IsTemp(e)
  BY DEF Procedure, IsTemp
<1> QED
  BY <1>2, <1>3, <1>4, <1>5, <1>7, <1>8, <1>9

LEMMA TreeSets ==
  ASSUME NEW t, PlainTrees(t), NEW e \in t.all
  PROVE  /\ e.k = "call" => e \in t.lead
         /\ e.k = "call" /\ e.a = << >> => e \in t.empty
         /\ Prefixed(e) /\ e.a[1] \in t.lead => e \in t.lead
         /\ Prefixed(e) /\ e.a[1] \in t.empty => e \in t.empty
         /\ \A i \in 1 .. Len(e.a) : /\ e.a[i] \in t.temps => e \in t.temps
                                     /\ e.k = "call" /\ IsTemp(e.a[i]) => e \in t.temps
<1>1. Sorted(t, e)
  BY TreeOperands
<1> QED
  BY <1>1 DEF Sorted

-----------------------------------------------------------------------------
(* Variables and constants.                                                *)

LEMMA ShapeNone == \A s \in Shapes : s ++ Nums(0) = s /\ s ++ << >> = s
  BY NoNums, ShapeEmpty

\* The code that brings a value to rax, behind a piece.
Loaded1(st, q, i) == IF st = "ax" THEN (q ## Push) ## i ELSE q ## i

LEMMA LoadMade ==
  ASSUME NEW a, IsSeq(a), NEW q, NEW st, NEW k, NEW sp \in Int, NEW l, NEW i,
         i.op \in {"load", "const"}
  PROVE  At(Emit(EmitFlushRax(G(st, a, q, k, sp, l)), i), "ax") =
           G("ax", a, Loaded1(st, q, i), k, sp + Truth(st = "ax"), l)
<1>1. Growth(i) = 0
  BY GrowthOf
<1>2. CASE st = "ax"
  <2> DEFINE r == q ## Push
             m == sp + 1
  <2>1. EmitFlushRax(G(st, a, q, k, sp, l)) = G("undef", a, r, k, m, l) /\ m \in Int
    BY <1>2, FlushMade
  <2>2. sp + Truth(st = "ax") = m /\ Loaded1(st, q, i) = r ## i
    BY <1>2 DEF Truth, Loaded1
  <2> HIDE DEF r, m
  <2>3. Emit(G("undef", a, r, k, m, l), i) = G("undef", a, r ## i, k, m, l)
    <3>1. m + Growth(i) = m
      BY <1>1, <2>1
    <3> QED
      BY <3>1, EmitMade
  <2>4. At(G("undef", a, r ## i, k, m, l), "ax") = G("ax", a, r ## i, k, m, l)
    BY AtMade
  <2> QED
    BY <2>1, <2>2, <2>3, <2>4
<1>3. CASE st # "ax"
  <2>1. EmitFlushRax(G(st, a, q, k, sp, l)) = G(st, a, q, k, sp, l)
    BY <1>3, FlushMade
  <2>2. sp + Truth(st = "ax") = sp /\ Loaded1(st, q, i) = q ## i /\ sp + Growth(i) = sp
    BY <1>1, <1>3 DEF Truth, Loaded1
  <2>3. Emit(G(st, a, q, k, sp, l), i) = G(st, a, q ## i, k, sp, l)
    BY <2>2, EmitMade
  <2>4. At(G(st, a, q ## i, k, sp, l), "ax") = G("ax", a, q ## i, k, sp, l)
    BY AtMade
  <2> QED
    BY <2>1, <2>2, <2>3, <2>4
<1> QED
  BY <1>2, <1>3

LEMMA LoadPiece ==
  ASSUME NEW q, NEW out, NEW open, Piece(q, out, open), NEW st, NEW i,
         i.op \in {"load", "const"}
  PROVE  /\ Piece(Loaded1(st, q, i), out ++ Nums(Truth(st = "ax")), open)
         /\ Labels(Loaded1(st, q, i)) = Labels(q) /\ Loaded1(st, q, i) # << >>
<1>1. CASE st = "ax"
  <2> DEFINE r == q ## Push
             o == out ++ Nums(1)
  <2>1. Piece(r, o, open) /\ Labels(r) = Labels(q)
    BY PiecePush
  <2>2. Loaded1(st, q, i) = r ## i /\ out ++ Nums(Truth(st = "ax")) = o
    BY <1>1 DEF Loaded1, Truth
  <2> HIDE DEF r, o
  <2> QED
    BY <2>1, <2>2, PieceStays
<1>2. CASE st # "ax"
  <2>1. Loaded1(st, q, i) = q ## i /\ Truth(st = "ax") = 0
    BY <1>2 DEF Loaded1, Truth
  <2>2. out ++ Nums(0) = out
    BY PieceIsSeq, ShapeNone
  <2>3. Piece(q ## i, out, open) /\ Labels(q ## i) = Labels(q) /\ q ## i # << >>
    BY PieceStays
  <2> QED
    BY <2>1, <2>2, <2>3
<1> QED
  BY <1>1, <1>2

LEMMA VariableStep ==
  ASSUME NEW t, PlainTrees(t), NEW e, e.k = "var", NEW g, NEW c, Matches(g, c), NEW d,
         StepExpr(t, e, c, d), NEW v
  PROVE  Matches(EmitLoad(g, v), d)
<1> DEFINE i == Ins("load", v, 0)
           q == g.arg[c.n]
           r == Loaded1(c.st, q, i)
           a == Under(g, c)
           h == Held(c)
<1>1. /\ e \in t.all /\ c.n >= 1 /\ Below(c, d, c.n) /\ Lowered(c, d) /\ Top(c).out \in Shapes
      /\ c.sp \in Int
  BY DEF StepExpr
<1>2. e \notin t.const /\ ~Procedure(e) /\ Left(e) = << >>
  BY <1>1, TreeKind DEF Left
<1>3. /\ d.st = "ax" /\ d.sp = c.sp + h
      /\ Top(d) = Pc((Top(c).out ++ Nums(h)) ++ << >>, Top(c).open, FALSE)
  <2>1. Len(<< >>) = 0 /\ h \in Int
    BY SeqOfNone DEF Held, Truth
  <2>2. d.sp = c.sp + h + Len(<< >>)
    BY <1>2 DEF StepExpr
  <2> HIDE DEF h
  <2>3. d.sp = c.sp + h
    BY <1>1, <2>1, <2>2
  <2> QED
    BY <1>2, <2>3 DEF StepExpr, h
<1>4. h \in Nat /\ h = Truth(c.st = "ax")
  BY DEF Held, Truth
<1>5. i.op \in {"load", "const"}
  BY DEF Ins
<1>6. EmitLoad(g, v) = At(Emit(EmitFlushRax(g), i), "ax")
  BY DEF EmitLoad
<1> HIDE DEF h, i
<1>7. Top(d).out = Top(c).out ++ Nums(h) /\ Top(d).open = Top(c).open /\ d.sp \in Int
  <2>1. Top(c).out ++ Nums(h) \in Shapes
    BY <1>1, <1>4, ShapeConcat, NumsType
  <2> QED
    BY <1>1, <1>3, <1>4, <2>1, ShapeNone DEF Pc
<1>8. /\ g = G(c.st, a, q, g.clean, c.sp, g.labels) /\ IsSeq(a)
      /\ Piece(q, Top(c).out, Top(c).open)
  BY <1>1, MatchesForm
<1> HIDE DEF a, q
<1>9. EmitLoad(g, v) = G("ax", a, r, g.clean, d.sp, g.labels)
  <2>1. At(Emit(EmitFlushRax(G(c.st, a, q, g.clean, c.sp, g.labels)), i), "ax")
          = G("ax", a, r, g.clean, c.sp + Truth(c.st = "ax"), g.labels)
    BY <1>1, <1>5, <1>8, LoadMade
  <2> QED
    BY <1>3, <1>4, <1>6, <1>8, <2>1
<1>10. Piece(r, Top(d).out, Top(d).open) /\ Labels(r) = Labels(q) /\ r # << >>
  BY <1>4, <1>5, <1>7, <1>8, LoadPiece
<1> HIDE DEF r
<1>11. Matches(G(d.st, a, r, g.clean, d.sp, g.labels), d)
  BY <1>1, <1>7, <1>10, MatchesOn DEF a, q
<1> QED
  BY <1>3, <1>9, <1>11

\* A constant changes nothing.
LEMMA MatchesStays ==
  ASSUME NEW g, NEW c, Matches(g, c), c.n >= 1, NEW d, Below(c, d, c.n), Lowered(c, d),
         d.sp = c.sp, Top(d) = Top(c), d.st = c.st
  PROVE  Matches(g, d)
<1> DEFINE q == g.arg[c.n]
           a == Under(g, c)
<1>1. /\ g = G(c.st, a, q, g.clean, c.sp, g.labels) /\ IsSeq(a) /\ c.sp \in Int
      /\ Piece(q, Top(c).out, Top(c).open) /\ (q = << >> => Top(c).blank)
  BY MatchesForm
<1> HIDE DEF a, q
<1>3. Matches(G(d.st, a, q, g.clean, d.sp, g.labels), d)
  BY <1>1, MatchesOn DEF a, q
<1> QED
  BY <1>1, <1>3

-----------------------------------------------------------------------------
(* Minus and not.                                                          *)

\* The value is popped if it is on the stack.
Taken(st, q) == IF st = "sp" THEN q ## Pop ELSE q

LEMMA TakenMade ==
  ASSUME NEW a, IsSeq(a), NEW q, NEW st \in {"ax", "sp"}, NEW k, NEW sp \in Int, NEW l
  PROVE  EmitAssertTosInRax(G(st, a, q, k, sp, l)) =
           G("ax", a, Taken(st, q), k, sp - Truth(st = "sp"), l)
<1>1. CASE st = "sp"
  <2>1. sp - Truth(st = "sp") = sp - 1 /\ Taken(st, q) = q ## Pop
    BY <1>1 DEF Truth, Taken
  <2> QED
    BY <1>1, <2>1, AssertMade
<1>2. CASE st = "ax"
  <2>1. sp - Truth(st = "sp") = sp /\ Taken(st, q) = q
    BY <1>2 DEF Truth, Taken
  <2> QED
    BY <1>2, <2>1, AssertMade
<1> QED
  BY <1>1, <1>2

LEMMA TakenPiece ==
  ASSUME NEW st \in {"ax", "sp"}, NEW q, NEW out \in Shapes, NEW open,
         Piece(q, out ++ Nums(Truth(st = "sp")), open)
  PROVE  Piece(Taken(st, q), out, open) /\ Labels(Taken(st, q)) = Labels(q)
<1>1. CASE st = "sp"
  <2>1. Truth(st = "sp") = 1 /\ Taken(st, q) = q ## Pop
    BY <1>1 DEF Truth, Taken
  <2> QED
    BY <2>1, PiecePop
<1>2. CASE st = "ax"
  <2>1. Truth(st = "sp") = 0 /\ Taken(st, q) = q
    BY <1>2 DEF Truth, Taken
  <2> QED
    BY <2>1, ShapeNone
<1> QED
  BY <1>1, <1>2

LEMMA UnaryCode ==
  ASSUME NEW g, NEW c, Matches(g, c), c.n >= 1, NEW d, Below(c, d, c.n), Lowered(c, d),
         Loads(c, d, Top(c).out, Top(c).open, 0), NEW s
  PROVE  Matches(Emit(EmitAssertTosInRax(g), Ins("unary", s, 0)), d)
<1> DEFINE i == Ins("unary", s, 0)
           q == g.arg[c.n]
           p == Taken(c.st, q)
           r == p ## i
           a == Under(g, c)
           h == Truth(c.st = "sp")
<1>1. /\ c.st \in {"ax", "sp"} /\ d.st = "ax" /\ d.sp \in Int /\ c.sp = d.sp + h + 0
      /\ Top(d).out \in Shapes /\ Top(c).out = Top(d).out ++ Nums(h + 0)
      /\ Top(d).open = Top(c).open
  BY DEF Loads
<1>2. h \in Nat /\ h + 0 = h
  BY DEF Truth
<1>3. i.op = "unary" /\ Growth(i) = 0
  BY GrowthOf DEF Ins
<1> HIDE DEF i
<1>4. d.sp = c.sp - h
  <2> HIDE DEF h
  <2> QED
    BY <1>1, <1>2
<1>5. Top(c).out = Top(d).out ++ Nums(h)
  BY <1>1, <1>2
<1>6. /\ g = G(c.st, a, q, g.clean, c.sp, g.labels) /\ IsSeq(a) /\ c.sp \in Int
      /\ Piece(q, Top(c).out, Top(c).open)
  BY MatchesForm
<1> HIDE DEF a, q
<1>7. Piece(p, Top(d).out, Top(d).open) /\ Labels(p) = Labels(q)
  BY <1>1, <1>5, <1>6, TakenPiece
<1>8. EmitAssertTosInRax(g) = G("ax", a, p, g.clean, d.sp, g.labels)
  <2>1. EmitAssertTosInRax(G(c.st, a, q, g.clean, c.sp, g.labels)) =
          G("ax", a, p, g.clean, c.sp - h, g.labels)
    BY <1>1, <1>6, TakenMade
  <2> HIDE DEF h, p
  <2> QED
    BY <1>4, <1>6, <2>1
<1> HIDE DEF h, p
<1>9. Piece(r, Top(d).out, Top(d).open) /\ Labels(r) = Labels(p) /\ r # << >>
  BY <1>3, <1>7, PieceStays
<1>10. Emit(EmitAssertTosInRax(g), i) = G("ax", a, r, g.clean, d.sp, g.labels)
  <2>1. d.sp + Growth(i) = d.sp
    BY <1>1, <1>3
  <2> QED
    BY <1>6, <1>8, <2>1, EmitMade
<1> HIDE DEF r
<1>11. Matches(G(d.st, a, r, g.clean, d.sp, g.labels), d)
  BY <1>1, <1>7, <1>9, MatchesOn DEF a, q
<1> QED
  BY <1>1, <1>10, <1>11 DEF i

LEMMA ShownOf ==
  \A t, e : /\ e \in t.const => Shown(t, e).const = TRUE /\ Shown(t, e).n = t.num[e]
            /\ e \notin t.const => Shown(t, e).const = FALSE
            /\ IsTemp(e) => Shown(t, e).temp = TRUE
            /\ ~IsTemp(e) => Shown(t, e).temp = FALSE
            /\ e \notin t.const /\ ~IsTemp(e) => Shown(t, e) = Plainly
<1> SUFFICES ASSUME NEW t, NEW e
             PROVE  /\ e \in t.const => Shown(t, e).const = TRUE /\ Shown(t, e).n = t.num[e]
                    /\ e \notin t.const => Shown(t, e).const = FALSE
                    /\ IsTemp(e) => Shown(t, e).temp = TRUE
                    /\ ~IsTemp(e) => Shown(t, e).temp = FALSE
                    /\ e \notin t.const /\ ~IsTemp(e) => Shown(t, e) = Plainly
  OBVIOUS
<1> DEFINE x == e \in t.const
           y == IsTemp(e)
           z == IF x THEN t.num[e] ELSE 0
           s == [const |-> x, n |-> z, temp |-> y]
<1>1. Shown(t, e) = s
  BY DEF Shown
<1>2. x \in BOOLEAN /\ y \in BOOLEAN /\ (x => z = t.num[e]) /\ (~x => z = 0)
  BY DEF IsTemp
<1>3. (x <=> e \in t.const) /\ (y <=> IsTemp(e))
  OBVIOUS
<1> HIDE DEF x, y, z
<1>4. s.const = x /\ s.temp = y /\ s.n = z
  OBVIOUS
<1>5. ~x /\ ~y => s = Plainly
  BY <1>2 DEF Plainly
<1> HIDE DEF s
<1> QED
  BY <1>1, <1>2, <1>3, <1>4, <1>5

\* Negate
LEMMA NegateStep ==
  ASSUME NEW t, PlainTrees(t), NEW e, e.k = "neg", NEW g, NEW c, Matches(g, c), NEW d,
         StepUnary(t, e, c, d), NEW w, Means(w, c), NEW v, v = Last(w)
  PROVE  /\ Matches(IF v.const THEN g ELSE EmitNegate(g), d)
         /\ Means(Append(Front(w), IF v.const THEN [v EXCEPT !.n = -@] ELSE v), d)
<1>1. /\ e \in t.all /\ c.n >= 1 /\ c.nv >= 1 /\ c.vs[c.nv] = Shown(t, e.a[1])
      /\ Below(c, d, c.n) /\ Lowered(c, d) /\ Yields(c, d, c.nv - 1, Shown(t, e))
      /\ IF e \in t.const THEN d.st = c.st /\ d.sp = c.sp /\ Top(d) = Top(c)
         ELSE Loads(c, d, Top(c).out, Top(c).open, 0)
  BY DEF StepUnary
<1>2. (e \in t.const <=> e.a[1] \in t.const) /\ ~IsTemp(e) /\ ~IsTemp(e.a[1])
  <2>1. PlainOperands(t, e)
    BY <1>1, TreeOperands
  <2>2. ~IsTemp(e.a[1])
    BY <2>1 DEF PlainOperands
  <2> QED
    BY <1>1, <2>2, TreeKind
<1>3. IsSeq(w) /\ Len(w) = c.nv /\ c.nv \in Nat /\ Shows(v, Shown(t, e.a[1]))
  <2>1. IsSeq(w) /\ Len(w) = c.nv /\ c.nv \in Nat /\ \A i \in 1 .. c.nv : Shows(w[i], c.vs[i])
    BY DEF Means
  <2>2. c.nv \in 1 .. c.nv /\ v = w[c.nv]
    BY <1>1, <2>1 DEF Last
  <2> QED
    BY <1>1, <2>1, <2>2
<1>4. (v.const <=> e \in t.const) /\ (v.const => v.n = t.num[e.a[1]]) /\ v.temp = FALSE /\ IsValue(v)
      /\ v.const \in BOOLEAN
  <2>1. v.const = Shown(t, e.a[1]).const /\ v.temp = Shown(t, e.a[1]).temp
        /\ (v.const => v.n = Shown(t, e.a[1]).n) /\ IsValue(v)
    BY <1>3 DEF Shows
  <2>2. v.temp = FALSE
    BY <1>2, <2>1, ShownOf
  <2>3. (v.const <=> e \in t.const) /\ v.const \in BOOLEAN
    BY <1>2, <2>1, ShownOf
  <2>4. v.const => v.n = t.num[e.a[1]]
    <3>1. ASSUME v.const PROVE v.n = t.num[e.a[1]]
      <4>1. e.a[1] \in t.const
        BY <1>2, <2>3, <3>1
      <4>2. Shown(t, e.a[1]).n = t.num[e.a[1]]
        BY <4>1, ShownOf
      <4> QED
        BY <2>1, <3>1, <4>2
    <3> QED
      BY <3>1
  <2> QED
    BY <2>1, <2>2, <2>3, <2>4
<1> DEFINE x == IF v.const THEN [v EXCEPT !.n = -@] ELSE v
<1>5. Shows(x, Shown(t, e))
  <2>1. CASE e \in t.const
    <3>1. t.num[e] = -t.num[e.a[1]]
      <4>1. Sorted(t, e)
        BY <1>1, TreeOperands
      <4> QED
        BY <2>1, <4>1 DEF Sorted
    <3>2. x = [typ |-> v.typ, const |-> v.const, n |-> -v.n, lit |-> v.lit, temp |-> v.temp]
      BY <1>4, <2>1 DEF IsValue
    <3>3. IsValue(x) /\ x.const = TRUE /\ x.n = t.num[e] /\ x.temp = FALSE
      BY <1>4, <2>1, <3>1, <3>2 DEF IsValue
    <3>4. Shown(t, e).const = TRUE /\ Shown(t, e).n = t.num[e] /\ Shown(t, e).temp = FALSE
      BY <1>2, <2>1, ShownOf
    <3> HIDE DEF x
    <3> QED
      BY <3>3, <3>4 DEF Shows
  <2>2. CASE e \notin t.const
    <3>1. Shown(t, e).const = FALSE /\ Shown(t, e).temp = FALSE
      BY <1>2, <2>2, ShownOf DEF Plainly
    <3> QED
      BY <1>4, <2>2, <3>1 DEF Shows
  <2> QED
    BY <2>1, <2>2
<1> HIDE DEF x
<1>6. Means(Append(Front(w), x), d)
  <2> DEFINE k == c.nv - 1
  <2>1. k \in Nat /\ k <= c.nv /\ Front(w) = SubSeq(w, 1, k) /\ Yields(c, d, k, Shown(t, e))
    BY <1>1, <1>3 DEF Front
  <2> HIDE DEF k
  <2> QED
    BY <1>5, <2>1, MeansInstead
<1>7. CASE e \in t.const
  <2>1. Matches(g, d)
    BY <1>1, <1>7, MatchesStays
  <2> QED
    BY <1>4, <1>6, <1>7, <2>1 DEF x
<1>8. CASE e \notin t.const
  <2>1. Matches(EmitNegate(g), d)
    BY <1>1, <1>8, UnaryCode DEF EmitNegate
  <2> QED
    BY <1>4, <1>6, <1>8, <2>1 DEF x
<1> QED
  BY <1>7, <1>8

LEMMA SamePlainly ==
  ASSUME NEW c, NEW d, c.nv \in Nat, c.nv >= 1, Yields(c, d, c.nv - 1, Plainly), c.vs[c.nv] = Plainly
  PROVE  SameValues(c, d, c.nv)
<1> DEFINE k == c.nv - 1
<1>1. d.nv = k + 1 /\ d.vs[k + 1] = Plainly /\ \A i \in 1 .. k : d.vs[i] = c.vs[i]
  BY DEF Yields
<1>2. k + 1 = c.nv /\ \A i \in 1 .. c.nv : i = c.nv \/ i \in 1 .. k
  OBVIOUS
<1> HIDE DEF k
<1> QED
  BY <1>1, <1>2 DEF SameValues

\* Not
LEMMA NotStep ==
  ASSUME NEW t, PlainTrees(t), NEW e, e.k = "not", NEW g, NEW c, Matches(g, c), NEW d,
         StepUnary(t, e, c, d), NEW w, Means(w, c)
  PROVE  Matches(EmitNot(g), d) /\ Means(w, d)
<1>1. /\ e \in t.all /\ c.n >= 1 /\ c.nv >= 1 /\ c.vs[c.nv] = Shown(t, e.a[1])
      /\ Below(c, d, c.n) /\ Lowered(c, d) /\ Yields(c, d, c.nv - 1, Shown(t, e))
      /\ IF e \in t.const THEN d.st = c.st /\ d.sp = c.sp /\ Top(d) = Top(c)
         ELSE Loads(c, d, Top(c).out, Top(c).open, 0)
  BY DEF StepUnary
<1>2. e \notin t.const /\ e.a[1] \notin t.const /\ ~IsTemp(e) /\ ~IsTemp(e.a[1])
  <2>1. PlainOperands(t, e)
    BY <1>1, TreeOperands
  <2>2. ~IsTemp(e.a[1]) /\ e.a[1] \notin t.const
    BY <2>1 DEF PlainOperands
  <2> QED
    BY <1>1, <2>2, TreeKind
<1>3. Matches(EmitNot(g), d)
  BY <1>1, <1>2, UnaryCode DEF EmitNot
<1>4. Shown(t, e) = Plainly /\ Shown(t, e.a[1]) = Plainly
  BY <1>2, ShownOf
<1>5. c.nv \in Nat
  BY DEF Means
<1>6. SameValues(c, d, c.nv)
  BY <1>1, <1>4, <1>5, SamePlainly
<1> QED
  BY <1>3, <1>6, MeansSame

-----------------------------------------------------------------------------
(* The configuration after an expression that is an operand.               *)

With(f, n, x) == [i \in 1 .. n |-> IF i = n THEN x ELSE f[i]]

After(t, e, c, cl) ==
  Config(IF e \in t.const THEN c.st ELSE IF e.k = "call" THEN "sp" ELSE "ax",
         IF e \in t.const THEN c.sp ELSE c.sp + Held(c) + Len(Left(e)),
         cl, c.n,
         With(c.pc, c.n, IF e \in t.const THEN Top(c)
                         ELSE Pc((Top(c).out ++ Nums(Held(c))) ++ Left(e), Top(c).open, FALSE)),
         c.nv + 1, With(c.vs, c.nv + 1, Shown(t, e)))

LEMMA WithAt ==
  ASSUME NEW f, NEW n \in Nat, n >= 1, NEW x
  PROVE  With(f, n, x)[n] = x /\ \A i \in 1 .. (n - 1) : With(f, n, x)[i] = f[i]
<1>1. n \in 1 .. n /\ \A i \in 1 .. (n - 1) : i \in 1 .. n /\ i # n
  OBVIOUS
<1> QED
  BY <1>1 DEF With

LEMMA LeftIs ==
  ASSUME NEW e
  PROVE  /\ Left(e) \in Shapes /\ Len(Left(e)) \in Nat
         /\ e.k # "call" \/ Procedure(e) => Left(e) = << >> /\ Len(Left(e)) = 0
         /\ e.k = "call" /\ ~Procedure(e) => Len(Left(e)) = 1
         /\ e.k = "call" /\ ~Procedure(e) /\ ~IsTemp(e) => Left(e) = Nums(1)
<1>1. CASE e.k = "call" /\ ~Procedure(e)
  <2> DEFINE x == WordOf(Funcs[e.s])
  <2>1. x \in Words
    BY DEF WordOf, Words
  <2>2. Left(e) = <<x>>
    BY <1>1 DEF Left
  <2>3. ~IsTemp(e) => x = "num"
    BY <1>1 DEF IsTemp, WordOf
  <2> HIDE DEF x
  <2>4. <<x>> \in Seq(Words) /\ Len(<<x>>) = 1
    BY <2>1
  <2> QED
    BY <1>1, <2>2, <2>3, <2>4, OneNum DEF Shapes
<1>2. CASE ~(e.k = "call" /\ ~Procedure(e))
  <2>1. Left(e) = << >>
    BY <1>2 DEF Left
  <2> QED
    BY <1>2, <2>1, ShapeEmpty
<1> QED
  BY <1>1, <1>2

LEMMA AfterStep ==
  ASSUME NEW t, PlainTrees(t), NEW e \in t.all, ~Procedure(e), NEW c,
         c.n \in Nat, c.n >= 1, c.sp \in Int, c.nv \in Nat, Top(c).out \in Shapes,
         e \in t.lead => Top(c).out = << >> /\ Top(c).open = {},
         e \in t.empty /\ Top(c).blank => c.n = 1,
         NEW cl \in Nat, cl <= c.cl, e \in t.temps => cl = 0
  PROVE  StepExpr(t, e, c, After(t, e, c, cl))
<1> DEFINE d == After(t, e, c, cl)
           x == IF e \in t.const THEN Top(c)
                ELSE Pc((Top(c).out ++ Nums(Held(c))) ++ Left(e), Top(c).open, FALSE)
           s == Shown(t, e)
<1>1. /\ d.st = IF e \in t.const THEN c.st ELSE IF e.k = "call" THEN "sp" ELSE "ax"
      /\ d.sp = IF e \in t.const THEN c.sp ELSE c.sp + Held(c) + Len(Left(e))
      /\ d.cl = cl /\ d.n = c.n /\ d.nv = c.nv + 1
      /\ d.pc = With(c.pc, c.n, x) /\ d.vs = With(c.vs, c.nv + 1, s)
  BY DEF After, Config
<1> HIDE DEF d, x, s
<1>2. Below(c, d, c.n) /\ Top(d) = x /\ Lowered(c, d)
  BY <1>1, WithAt DEF Below, Top, Lowered
<1>3. Yields(c, d, c.nv, s)
  <2> DEFINE m == c.nv + 1
  <2>1. m \in Nat /\ m >= 1 /\ m - 1 = c.nv
    OBVIOUS
  <2>2. d.vs[m] = s /\ \A i \in 1 .. (m - 1) : d.vs[i] = c.vs[i]
    BY <1>1, <2>1, WithAt
  <2> QED
    BY <1>1, <2>1, <2>2 DEF Yields
<1>4. e \in t.const => e.k # "call"
  BY TreeKind
<1> QED
  BY <1>1, <1>2, <1>3, <1>4 DEF StepExpr, d, s, x

\* An operand that is no temporary adds so many numbers.
Adds(t, e, c) == IF e \in t.const THEN 0 ELSE Held(c) + Truth(e.k = "call")

LEMMA AfterAdds ==
  ASSUME NEW t, PlainTrees(t), NEW e \in t.all, ~Procedure(e), ~IsTemp(e), NEW c,
         c.n \in Nat, c.n >= 1, c.sp \in Int, c.nv \in Nat, Top(c).out \in Shapes, NEW cl
  PROVE  LET d == After(t, e, c, cl) IN
         /\ d.st = IF e \in t.const THEN c.st ELSE IF e.k = "call" THEN "sp" ELSE "ax"
         /\ d.sp = c.sp + Adds(t, e, c) /\ Adds(t, e, c) \in Nat /\ d.cl = cl
         /\ d.n = c.n /\ \A i \in 1 .. (c.n - 1) : d.pc[i] = c.pc[i]
         /\ Top(d).out = Top(c).out ++ Nums(Adds(t, e, c)) /\ Top(d).open = Top(c).open
         /\ e \in t.const => Top(d) = Top(c)
         /\ e \notin t.const => ~Top(d).blank
         /\ d.nv = c.nv + 1 /\ d.vs[c.nv + 1] = Shown(t, e)
         /\ \A i \in 1 .. c.nv : d.vs[i] = c.vs[i]
<1> DEFINE d == After(t, e, c, cl)
           x == IF e \in t.const THEN Top(c)
                ELSE Pc((Top(c).out ++ Nums(Held(c))) ++ Left(e), Top(c).open, FALSE)
           s == Shown(t, e)
           h == Held(c)
           m == Adds(t, e, c)
<1>1. /\ d.st = IF e \in t.const THEN c.st ELSE IF e.k = "call" THEN "sp" ELSE "ax"
      /\ d.sp = IF e \in t.const THEN c.sp ELSE c.sp + h + Len(Left(e))
      /\ d.cl = cl /\ d.n = c.n /\ d.nv = c.nv + 1
      /\ d.pc = With(c.pc, c.n, x) /\ d.vs = With(c.vs, c.nv + 1, s)
  BY DEF After, Config
<1>2. h \in Nat /\ m \in Nat
  BY DEF Held, Truth, Adds
<1>5. Top(d) = x /\ \A i \in 1 .. (c.n - 1) : d.pc[i] = c.pc[i]
  <2> HIDE DEF d, x
  <2> QED
    BY <1>1, WithAt DEF Top
<1>6. d.vs[c.nv + 1] = s /\ \A i \in 1 .. c.nv : d.vs[i] = c.vs[i]
  <2> DEFINE k == c.nv + 1
  <2>1. k \in Nat /\ k >= 1 /\ k - 1 = c.nv
    OBVIOUS
  <2> HIDE DEF s, d
  <2>2. d.vs[k] = s /\ \A i \in 1 .. (k - 1) : d.vs[i] = c.vs[i]
    BY <1>1, <2>1, WithAt
  <2> QED
    BY <2>1, <2>2
<1>3. CASE e \in t.const
  <2>1. m = 0 /\ x = Top(c)
    BY <1>3 DEF Adds
  <2> HIDE DEF d, m, x, s
  <2>2. Top(c).out ++ Nums(m) = Top(c).out /\ c.sp + m = c.sp
    BY <2>1, ShapeNone
  <2>3. Top(d).out = Top(c).out ++ Nums(m) /\ Top(d).open = Top(c).open
    BY <1>5, <2>1, <2>2
  <2> QED
    BY <1>1, <1>2, <1>3, <1>5, <1>6, <2>1, <2>2, <2>3 DEF d, m, s
<1>4. CASE e \notin t.const
  <2> DEFINE b == Truth(e.k = "call")
  <2>1. b \in Nat /\ m = h + b
    BY <1>4 DEF Adds, Truth
  <2>2. Left(e) = Nums(b) /\ Len(Left(e)) = b
    <3>1. CASE e.k = "call"
      BY <3>1, LeftIs DEF Truth
    <3>2. CASE e.k # "call"
      BY <3>2, LeftIs, NoNums DEF Truth
    <3> QED
      BY <3>1, <3>2
  <2> HIDE DEF h, b, m
  <2>3. (Top(c).out ++ Nums(h)) ++ Nums(b) = Top(c).out ++ Nums(m)
    <3>1. Nums(h) \in Shapes /\ Nums(b) \in Shapes /\ Nums(h) ++ Nums(b) = Nums(m)
      BY <1>2, <2>1, NumsType, NumsAdd
    <3> QED
      BY <3>1, ShapeAssoc
  <2>4. x = Pc(Top(c).out ++ Nums(m), Top(c).open, FALSE)
    BY <1>4, <2>2, <2>3 DEF h
  <2> HIDE DEF x
  <2>5. x.out = Top(c).out ++ Nums(m) /\ x.open = Top(c).open /\ ~x.blank
    BY <2>4 DEF Pc
  <2> HIDE DEF d
  <2>6. c.sp + h + Len(Left(e)) = c.sp + m
    BY <1>2, <2>1, <2>2
  <2>7. d.sp = c.sp + m
    BY <1>1, <1>4, <2>6
  <2> QED
    BY <1>1, <1>2, <1>4, <1>5, <1>6, <2>5, <2>7 DEF d, m, s
<1> QED
  BY <1>3, <1>4

\* What parsing a tree with operands changes.
PrefixedExpr(t, e, c, d) ==
  /\ e \in t.all /\ c.n >= 1 /\ c.sp \in Int /\ c.nv \in Nat /\ Top(c).out \in Shapes
  /\ e \in t.lead => Top(c).out = << >> /\ Top(c).open = {}
  /\ e \in t.empty /\ Top(c).blank => c.n = 1
  /\ Below(c, d, c.n) /\ Lowered(c, d) /\ (e \in t.temps => d.cl = 0)
  /\ Yields(c, d, c.nv, Shown(t, e)) /\ ~Procedure(e) /\ ~IsTemp(e)
  /\ IF e \in t.const THEN d.st = c.st /\ d.sp = c.sp /\ Top(d) = Top(c)
     ELSE d.st = "ax" /\ d.sp = c.sp + Held(c)
          /\ Top(d) = Pc(Top(c).out ++ Nums(Held(c)), Top(c).open, FALSE)

LEMMA PrefixedStep ==
  ASSUME NEW t, PlainTrees(t), NEW e, e.k \in {"neg", "not", "op", "and", "or"}, NEW c, NEW d,
         StepExpr(t, e, c, d)
  PROVE  PrefixedExpr(t, e, c, d)
<1>1. e \in t.all /\ e.k # "call"
  BY DEF StepExpr
<1>2. ~Procedure(e) /\ ~IsTemp(e) /\ Left(e) = << >> /\ Len(Left(e)) = 0
  BY <1>1, TreeKind, LeftIs
<1>3. CASE e \in t.const
  BY <1>1, <1>2, <1>3 DEF StepExpr, PrefixedExpr
<1>4. CASE e \notin t.const
  <2> DEFINE h == Held(c)
  <2>1. h \in Nat
    BY DEF Held, Truth
  <2>2. c.sp \in Int /\ Top(c).out \in Shapes /\ d.sp = c.sp + h + Len(Left(e))
        /\ Top(d) = Pc((Top(c).out ++ Nums(h)) ++ Left(e), Top(c).open, FALSE)
    BY <1>4 DEF StepExpr
  <2> HIDE DEF h
  <2>3. d.sp = c.sp + h
    BY <1>2, <2>1, <2>2
  <2>4. Top(c).out ++ Nums(h) \in Shapes
    BY <2>1, <2>2, ShapeConcat, NumsType
  <2>5. (Top(c).out ++ Nums(h)) ++ Left(e) = Top(c).out ++ Nums(h)
    BY <1>2, <2>4, ShapeEmpty
  <2> QED
    BY <1>1, <1>2, <1>4, <2>2, <2>3, <2>5 DEF StepExpr, PrefixedExpr, h
<1> QED
  BY <1>3, <1>4

\* ParseUnary
LEMMA UnaryParts ==
  ASSUME NEW t, PlainTrees(t), NEW e, e.k \in {"neg", "not"}, NEW c, c.n \in Nat, c.cl \in Nat,
         NEW d, StepExpr(t, e, c, d)
  PROVE  \E b : StepExpr(t, e.a[1], c, b) /\ StepUnary(t, e, b, d)
<1> DEFINE x == e.a[1]
           h == Held(c)
<1>1. /\ e \in t.all /\ c.n >= 1 /\ c.sp \in Int /\ c.nv \in Nat /\ Top(c).out \in Shapes
      /\ e \in t.lead => Top(c).out = << >> /\ Top(c).open = {}
      /\ e \in t.empty /\ Top(c).blank => c.n = 1
      /\ Below(c, d, c.n) /\ Lowered(c, d) /\ (e \in t.temps => d.cl = 0)
      /\ Yields(c, d, c.nv, Shown(t, e)) /\ ~Procedure(e) /\ ~IsTemp(e)
      /\ IF e \in t.const THEN d.st = c.st /\ d.sp = c.sp /\ Top(d) = Top(c)
         ELSE d.st = "ax" /\ d.sp = c.sp + h
              /\ Top(d) = Pc(Top(c).out ++ Nums(h), Top(c).open, FALSE)
  <2>1. PrefixedExpr(t, e, c, d)
    BY PrefixedStep
  <2> HIDE DEF x
  <2> QED
    BY <2>1 DEF PrefixedExpr, h
<1>2. 1 \in 1 .. Len(e.a)
  BY <1>1, TreeKind
<1>3. x \in t.all /\ ~Procedure(x) /\ (x \in t.lead => e \in t.lead) /\ (x \in t.empty => e \in t.empty)
      /\ (x \in t.temps => e \in t.temps)
  BY <1>1, <1>2, TreeOperands, TreeSets DEF Prefixed
<1>4. ~IsTemp(x) /\ (e \in t.const <=> x \in t.const)
  <2>1. PlainOperands(t, e)
    BY <1>1, TreeOperands
  <2>2. ~IsTemp(x) /\ (e.k = "not" => x \notin t.const)
    BY <2>1 DEF PlainOperands
  <2> QED
    BY <1>1, <2>2, TreeKind
<1> DEFINE b == After(t, x, c, d.cl)
           m == Adds(t, x, c)
<1>5. d.cl \in Nat /\ d.cl <= c.cl
  BY <1>1 DEF Lowered
<1>6. StepExpr(t, x, c, b)
  BY <1>1, <1>3, <1>5, AfterStep
<1>7. /\ b.st = IF x \in t.const THEN c.st ELSE IF x.k = "call" THEN "sp" ELSE "ax"
      /\ b.sp = c.sp + m /\ m \in Nat /\ b.cl = d.cl
      /\ b.n = c.n /\ \A i \in 1 .. (c.n - 1) : b.pc[i] = c.pc[i]
      /\ Top(b).out = Top(c).out ++ Nums(m) /\ Top(b).open = Top(c).open
      /\ x \in t.const => Top(b) = Top(c)
      /\ b.nv = c.nv + 1 /\ b.vs[c.nv + 1] = Shown(t, x)
      /\ \A i \in 1 .. c.nv : b.vs[i] = c.vs[i]
  BY <1>1, <1>3, <1>4, AfterAdds
<1>8. m = IF x \in t.const THEN 0 ELSE h + Truth(x.k = "call")
  BY DEF Adds
<1>9. h \in Nat
  BY DEF Held, Truth
<1> HIDE DEF b, m, h, x
<1>10. Below(b, d, b.n) /\ Lowered(b, d) /\ Yields(b, d, b.nv - 1, Shown(t, e))
  BY <1>1, <1>5, <1>7 DEF Below, Lowered, Yields
<1>11. CASE e \in t.const
  <2>1. b.sp = c.sp
    BY <1>1, <1>4, <1>7, <1>8, <1>11
  <2> QED
    BY <1>1, <1>4, <1>6, <1>7, <1>10, <1>11, <2>1 DEF StepUnary, x
<1>12. CASE e \notin t.const
  <2> DEFINE j == Truth(b.st = "sp")
  <2>1. b.st \in {"ax", "sp"} /\ j = Truth(x.k = "call") /\ j \in Nat
    BY <1>4, <1>7, <1>12 DEF Truth
  <2> HIDE DEF j
  <2>2. m = h + j
    BY <1>4, <1>8, <1>12, <2>1
  <2>3. Top(d).out = Top(c).out ++ Nums(h) /\ Top(d).open = Top(c).open /\ Top(d).blank = FALSE
    BY <1>1, <1>12 DEF Pc
  <2>4. Nums(h) \in Shapes /\ Nums(j) \in Shapes /\ Nums(h) ++ Nums(j) = Nums(m)
    BY <1>9, <2>1, <2>2, NumsType, NumsAdd
  <2>5. Top(b).out = Top(d).out ++ Nums(j) /\ Top(d).out \in Shapes
    <3>1. Top(c).out \in Shapes
      BY <1>1
    <3>2. (Top(c).out ++ Nums(h)) ++ Nums(j) = Top(c).out ++ (Nums(h) ++ Nums(j))
      BY <2>4, <3>1, ShapeAssoc
    <3>3. Top(c).out ++ Nums(h) \in Shapes
      BY <2>4, <3>1, ShapeConcat
    <3> QED
      BY <1>7, <2>3, <2>4, <3>2, <3>3
  <2>a. d.st = "ax" /\ d.sp = c.sp + h /\ c.sp \in Int
    BY <1>1, <1>12
  <2>b. b.sp = c.sp + m
    BY <1>7
  <2>6. d.sp \in Int /\ b.sp = d.sp + j + 0 /\ j + 0 = j /\ d.st = "ax"
    BY <1>9, <2>1, <2>2, <2>a, <2>b
  <2>7. Loads(b, d, Top(b).out, Top(b).open, 0)
    BY <1>7, <2>1, <2>3, <2>5, <2>6 DEF Loads, j
  <2> QED
    BY <1>1, <1>6, <1>7, <1>10, <1>12, <2>7 DEF StepUnary, x
<1> QED
  BY <1>11, <1>12

\* The right operand gets a piece of its own.
Right(c) == Config(c.st, c.sp, c.cl, c.n + 1, With(c.pc, c.n + 1, Pc(<< >>, {}, TRUE)), c.nv, c.vs)

RightIs(c, d) ==
  /\ d.st = c.st /\ d.sp = c.sp /\ d.cl = c.cl /\ d.n = c.n + 1
  /\ Top(d).out = << >> /\ Top(d).open = {} /\ Top(d) = Pc(<< >>, {}, TRUE)
  /\ \A i \in 1 .. c.n : d.pc[i] = c.pc[i]
  /\ d.nv = c.nv /\ d.vs = c.vs

LEMMA RightOf ==
  ASSUME NEW c, c.n \in Nat
  PROVE  RightIs(c, Right(c))
<1> DEFINE m == c.n + 1
           d == Right(c)
           x == Pc(<< >>, {}, TRUE)
<1>1. m \in Nat /\ m >= 1 /\ m - 1 = c.n
  OBVIOUS
<1>2. d.st = c.st /\ d.sp = c.sp /\ d.cl = c.cl /\ d.n = m /\ d.pc = With(c.pc, m, x)
      /\ d.nv = c.nv /\ d.vs = c.vs
  BY DEF Right, Config
<1>3. x.out = << >> /\ x.open = {}
  BY DEF Pc
<1> HIDE DEF d, x
<1>4. d.pc[m] = x /\ \A i \in 1 .. (m - 1) : d.pc[i] = c.pc[i]
  BY <1>1, <1>2, WithAt
<1>5. Top(d) = x
  BY <1>2, <1>4 DEF Top
<1> QED
  BY <1>1, <1>2, <1>3, <1>4, <1>5 DEF RightIs, d, x

Grown(t, e, c, d) ==
  /\ d.st = IF e \in t.const THEN c.st ELSE IF e.k = "call" THEN "sp" ELSE "ax"
  /\ d.sp = c.sp + Adds(t, e, c) /\ Adds(t, e, c) \in Nat
  /\ d.n = c.n /\ \A i \in 1 .. (c.n - 1) : d.pc[i] = c.pc[i]
  /\ Top(d).out = Top(c).out ++ Nums(Adds(t, e, c)) /\ Top(d).open = Top(c).open
  /\ e \in t.const => Top(d) = Top(c)
  /\ e \notin t.const => ~Top(d).blank
  /\ d.nv = c.nv + 1 /\ d.vs[c.nv + 1] = Shown(t, e)
  /\ \A i \in 1 .. c.nv : d.vs[i] = c.vs[i]

LEMMA AfterGrown ==
  ASSUME NEW t, PlainTrees(t), NEW e \in t.all, ~Procedure(e), ~IsTemp(e), NEW c,
         c.n \in Nat, c.n >= 1, c.sp \in Int, c.nv \in Nat, Top(c).out \in Shapes, NEW cl
  PROVE  Grown(t, e, c, After(t, e, c, cl)) /\ After(t, e, c, cl).cl = cl
  BY AfterAdds DEF Grown

\* ParseProd, ParseSumTerm and ParseCompareTerm
LEMMA OperatorParts ==
  ASSUME NEW t, PlainTrees(t), NEW e, e.k = "op", NEW c, c.n \in Nat, c.cl \in Nat,
         NEW d, StepExpr(t, e, c, d)
  PROVE  \E b1, b2, b3 : /\ StepExpr(t, e.a[1], c, b1) /\ StepRight(b1, b2)
                         /\ StepExpr(t, e.a[2], b2, b3) /\ StepOp(t, e, b3, d)
<1> DEFINE x == e.a[1]
           y == e.a[2]
           h == Held(c)
<1>1. /\ e \in t.all /\ c.n >= 1 /\ c.sp \in Int /\ c.nv \in Nat /\ Top(c).out \in Shapes
      /\ e \in t.lead => Top(c).out = << >> /\ Top(c).open = {}
      /\ e \in t.empty /\ Top(c).blank => c.n = 1
      /\ Below(c, d, c.n) /\ Lowered(c, d) /\ (e \in t.temps => d.cl = 0)
      /\ Yields(c, d, c.nv, Shown(t, e)) /\ ~Procedure(e) /\ ~IsTemp(e)
      /\ IF e \in t.const THEN d.st = c.st /\ d.sp = c.sp /\ Top(d) = Top(c)
         ELSE d.st = "ax" /\ d.sp = c.sp + h
              /\ Top(d) = Pc(Top(c).out ++ Nums(h), Top(c).open, FALSE)
  <2>1. PrefixedExpr(t, e, c, d)
    BY PrefixedStep
  <2> HIDE DEF x, y
  <2> QED
    BY <2>1 DEF PrefixedExpr, h
<1>2. Len(e.a) = 2 /\ 1 \in 1 .. Len(e.a) /\ 2 \in 1 .. Len(e.a)
  BY <1>1, TreeKind
<1>3. /\ x \in t.all /\ ~Procedure(x) /\ (x \in t.lead => e \in t.lead) /\ (x \in t.empty => e \in t.empty)
      /\ (x \in t.temps => e \in t.temps)
      /\ y \in t.all /\ ~Procedure(y) /\ (y \in t.temps => e \in t.temps)
  BY <1>1, <1>2, TreeOperands, TreeSets DEF Prefixed
<1>4. ~IsTemp(x) /\ ~IsTemp(y) /\ y \notin t.empty /\ (e \in t.const <=> x \in t.const /\ y \in t.const)
  <2>1. PlainOperands(t, e)
    BY <1>1, TreeOperands
  <2>2. ~IsTemp(x) /\ ~IsTemp(y) /\ y \notin t.empty
    BY <2>1 DEF PlainOperands
  <2> QED
    BY <1>1, <2>2, TreeKind
<1> DEFINE b1 == After(t, x, c, d.cl)
           b2 == Right(b1)
           b3 == After(t, y, b2, d.cl)
           m1 == Adds(t, x, c)
           m2 == Adds(t, y, b2)
<1>5. d.cl \in Nat /\ d.cl <= c.cl
  BY <1>1 DEF Lowered
<1>6. StepExpr(t, x, c, b1)
  BY <1>1, <1>3, <1>5, AfterStep
<1>7. Grown(t, x, c, b1) /\ b1.cl = d.cl
  BY <1>1, <1>3, <1>4, AfterGrown
<1> HIDE DEF b1, x, y, h
<1>8. b1.n = c.n /\ b1.nv = c.nv + 1 /\ b1.sp = c.sp + m1 /\ m1 \in Nat
  BY <1>7 DEF Grown
<1>9. RightIs(b1, b2)
  BY <1>8, RightOf
<1> HIDE DEF b2
<1>10. /\ b2.n = c.n + 1 /\ b2.cl = d.cl /\ b2.nv = c.nv + 1 /\ b2.sp = c.sp + m1 /\ b2.st = b1.st
       /\ Top(b2).out = << >> /\ Top(b2).open = {} /\ b2.vs = b1.vs
       /\ \A i \in 1 .. c.n : b2.pc[i] = b1.pc[i]
  BY <1>7, <1>8, <1>9 DEF RightIs
<1>11. StepRight(b1, b2)
  BY <1>5, <1>7, <1>8, <1>9, <1>10 DEF StepRight, RightIs, Below, Lowered, SameValues
<1>12. b2.n \in Nat /\ b2.n >= 1 /\ b2.sp \in Int /\ b2.nv \in Nat /\ Top(b2).out \in Shapes
  <2> HIDE DEF m1
  <2> QED
    BY <1>1, <1>8, <1>10, ShapeEmpty
<1>13. StepExpr(t, y, b2, b3)
  BY <1>1, <1>3, <1>4, <1>5, <1>10, <1>12, AfterStep
<1>14. Grown(t, y, b2, b3) /\ b3.cl = d.cl
  BY <1>3, <1>4, <1>12, AfterGrown
<1> HIDE DEF b3
<1>15. /\ b1.st = IF x \in t.const THEN c.st ELSE IF x.k = "call" THEN "sp" ELSE "ax"
       /\ \A i \in 1 .. (c.n - 1) : b1.pc[i] = c.pc[i]
       /\ b1.pc[c.n].out = Top(c).out ++ Nums(m1) /\ b1.pc[c.n].open = Top(c).open
       /\ x \in t.const => b1.pc[c.n] = Top(c)
       /\ b1.vs[c.nv + 1] = Shown(t, x) /\ \A i \in 1 .. c.nv : b1.vs[i] = c.vs[i]
  BY <1>7, <1>8 DEF Grown, Top
<1>16. /\ b3.st = IF y \in t.const THEN b1.st ELSE IF y.k = "call" THEN "sp" ELSE "ax"
       /\ b3.sp = (c.sp + m1) + m2 /\ m2 \in Nat /\ b3.n = c.n + 1 /\ b3.nv = (c.nv + 1) + 1
       /\ \A i \in 1 .. c.n : b3.pc[i] = b1.pc[i]
       /\ Top(b3).out = << >> ++ Nums(m2) /\ Top(b3).open = {}
       /\ y \notin t.const => ~Top(b3).blank
       /\ b3.vs[(c.nv + 1) + 1] = Shown(t, y) /\ \A i \in 1 .. (c.nv + 1) : b3.vs[i] = b1.vs[i]
  <2>1. (c.n + 1) - 1 = c.n
    OBVIOUS
  <2> HIDE DEF m1, m2
  <2> QED
    BY <1>10, <1>14, <2>1 DEF Grown, m2
<1>17. b3.n - 1 = c.n /\ b3.n >= 2 /\ b3.nv >= 2 /\ b3.nv - 2 = c.nv /\ b3.nv - 1 = c.nv + 1
       /\ c.n \in 1 .. c.n /\ c.nv + 1 \in 1 .. (c.nv + 1)
       /\ (\A i \in 1 .. (c.n - 1) : i \in 1 .. c.n) /\ (\A i \in 1 .. c.nv : i \in 1 .. (c.nv + 1))
  <2>1. b3.n = c.n + 1 /\ b3.nv = (c.nv + 1) + 1 /\ c.n \in Nat /\ c.n >= 1 /\ c.nv \in Nat
    BY <1>1, <1>16
  <2> HIDE DEF m1, m2
  <2>2. b3.n - 1 = c.n /\ b3.n >= 2 /\ c.n \in 1 .. c.n
    BY <2>1
  <2>3. b3.nv >= 2 /\ b3.nv - 2 = c.nv /\ b3.nv - 1 = c.nv + 1 /\ c.nv + 1 \in 1 .. (c.nv + 1)
    BY <2>1
  <2>4. \A i \in 1 .. (c.n - 1) : i \in 1 .. c.n
    BY <2>1
  <2>5. \A i \in 1 .. c.nv : i \in 1 .. (c.nv + 1)
    BY <2>1
  <2> QED
    BY <2>2, <2>3, <2>4, <2>5
<1>18. b3.vs[b3.nv - 1] = Shown(t, x) /\ b3.vs[b3.nv] = Shown(t, y)
       /\ Yields(b3, d, b3.nv - 2, Shown(t, e))
  BY <1>1, <1>15, <1>16, <1>17 DEF Yields
<1>19. Below(b3, d, b3.n - 1) /\ Lowered(b3, d)
  BY <1>1, <1>5, <1>14, <1>15, <1>16, <1>17 DEF Below, Lowered
<1>20. Top(b3).out = Nums(m2) /\ b3.pc[b3.n - 1] = b1.pc[c.n]
  <2>1. Nums(m2) \in Shapes
    BY <1>16, NumsType
  <2> HIDE DEF m2
  <2> QED
    BY <1>16, <1>17, <2>1, ShapeEmpty
<1>21. h \in Nat /\ h = Truth(c.st = "ax")
  BY DEF Held, Truth, h
<1>22. m1 = IF x \in t.const THEN 0 ELSE h + Truth(x.k = "call")
  BY DEF Adds, h
<1>23. m2 = IF y \in t.const THEN 0 ELSE Truth(b1.st = "ax") + Truth(y.k = "call")
  BY <1>10 DEF Adds, Held
<1> HIDE DEF m1, m2
<1>24. ASSUME e \in t.const PROVE StepOp(t, e, b3, d)
  <2>1. m1 = 0 /\ m2 = 0 /\ b3.st = c.st
    BY <1>4, <1>15, <1>16, <1>22, <1>23, <1>24
  <2>2. b3.sp = c.sp /\ Top(b3).out = << >>
    BY <1>1, <1>16, <1>20, <2>1, NoNums
  <2>3. d.st = b3.st /\ d.sp = b3.sp /\ Top(d) = b3.pc[b3.n - 1]
    BY <1>1, <1>4, <1>15, <1>20, <1>24, <2>1, <2>2
  <2> QED
    BY <1>1, <1>16, <1>17, <1>18, <1>19, <1>24, <2>2, <2>3 DEF StepOp, x, y
<1>25. ASSUME e \notin t.const PROVE StepOp(t, e, b3, d)
  <2> DEFINE k == Truth(x \notin t.const /\ y \notin t.const)
             j == Truth(b3.st = "sp")
  <2>1. b3.st \in {"ax", "sp"} /\ k \in Nat /\ j \in Nat
    BY <1>4, <1>15, <1>16, <1>25 DEF Truth
  <2>2. m1 + m2 = h + (j + k)
    <3>1. CASE x \in t.const
      <4>1. y \notin t.const /\ k = 0 /\ m1 = 0
        BY <1>4, <1>22, <1>25, <3>1 DEF Truth
      <4>2. m2 = h + j
        BY <1>15, <1>16, <1>21, <1>23, <3>1, <4>1 DEF Truth
      <4> HIDE DEF k, j
      <4> QED
        BY <1>21, <2>1, <4>1, <4>2
    <3>2. CASE y \in t.const
      <4>1. x \notin t.const /\ k = 0 /\ m2 = 0
        BY <1>4, <1>23, <1>25, <3>2 DEF Truth
      <4>2. m1 = h + j
        BY <1>15, <1>16, <1>22, <3>2, <4>1 DEF Truth
      <4> HIDE DEF k, j
      <4> QED
        BY <1>21, <2>1, <4>1, <4>2
    <3>3. CASE x \notin t.const /\ y \notin t.const
      <4>1. k = 1 /\ j = Truth(y.k = "call") /\ b1.st = IF x.k = "call" THEN "sp" ELSE "ax"
        BY <1>15, <1>16, <3>3 DEF Truth
      <4>2. m1 = h + Truth(x.k = "call") /\ m2 = Truth(b1.st = "ax") + j
        BY <1>22, <1>23, <3>3, <4>1
      <4>3. Truth(b1.st = "ax") = IF x.k = "call" THEN 0 ELSE 1
        BY <4>1 DEF Truth
      <4>4. Truth(x.k = "call") = IF x.k = "call" THEN 1 ELSE 0
        BY DEF Truth
      <4> HIDE DEF k, j
      <4> QED
        BY <1>21, <2>1, <4>1, <4>2, <4>3, <4>4
    <3> QED
      BY <3>1, <3>2, <3>3
  <2> HIDE DEF k, j
  <2>3. d.st = "ax" /\ d.sp = c.sp + h /\ d.sp \in Int
    BY <1>1, <1>21, <1>25
  <2>4. b3.sp = d.sp + j + k
    <3>1. b3.sp = c.sp + (m1 + m2)
      BY <1>1, <1>8, <1>16
    <3> QED
      BY <1>1, <1>21, <2>1, <2>2, <2>3, <3>1
  <2>5. Top(d).out = Top(c).out ++ Nums(h) /\ Top(d).open = Top(c).open /\ ~Top(d).blank
    BY <1>1, <1>25 DEF Pc
  <2>6. Top(d).out \in Shapes /\ b1.pc[c.n].out ++ Top(b3).out = Top(d).out ++ Nums(j + k)
    <3>1. Nums(m1) \in Shapes /\ Nums(m2) \in Shapes /\ Nums(h) \in Shapes /\ Nums(j + k) \in Shapes
      <4>1. j + k \in Nat
        BY <2>1
      <4> QED
        BY <1>8, <1>16, <1>21, <4>1, NumsType
    <3>2. Nums(m1) ++ Nums(m2) = Nums(m1 + m2) /\ Nums(h) ++ Nums(j + k) = Nums(h + (j + k))
      <4>1. j + k \in Nat
        BY <2>1
      <4> QED
        BY <1>8, <1>16, <1>21, <4>1, NumsAdd
    <3>3. Top(c).out \in Shapes
      BY <1>1
    <3>4. (Top(c).out ++ Nums(m1)) ++ Nums(m2) = Top(c).out ++ (Nums(m1) ++ Nums(m2))
      BY <3>1, <3>3, ShapeAssoc
    <3>5. (Top(c).out ++ Nums(h)) ++ Nums(j + k) = Top(c).out ++ (Nums(h) ++ Nums(j + k))
      BY <3>1, <3>3, ShapeAssoc
    <3>6. Top(c).out ++ Nums(h) \in Shapes
      BY <3>1, <3>3, ShapeConcat
    <3> QED
      BY <1>15, <1>20, <2>2, <2>5, <3>2, <3>4, <3>5, <3>6
  <2>7. Loads(b3, d, b1.pc[c.n].out ++ Top(b3).out, b1.pc[c.n].open, k)
    BY <1>15, <2>1, <2>3, <2>4, <2>5, <2>6 DEF Loads, j
  <2> QED
    BY <1>1, <1>16, <1>17, <1>18, <1>19, <1>20, <1>25, <2>7 DEF StepOp, x, y, k
<1>26. StepOp(t, e, b3, d)
  BY <1>24, <1>25
<1> QED
  BY <1>6, <1>11, <1>13, <1>26 DEF x, y

-----------------------------------------------------------------------------
(* A new piece.                                                            *)

LEMMA SeqWhole ==
  ASSUME NEW s, IsSeq(s), NEW n \in Nat, Len(s) = n
  PROVE  SubSeq(s, 1, n) = s
<1> DEFINE u == SubSeq(s, 1, n)
<1>1. 1 \in Int /\ n \in Int /\ 1 <= 1 /\ 1 <= n + 1 /\ n <= Len(s)
      /\ n - 1 + 1 = n /\ \A i \in 1 .. n : 1 + i - 1 = i
  OBVIOUS
<1>2. IsSeq(u) /\ Len(u) = n - 1 + 1 /\ \A i \in 1 .. (n - 1 + 1) : u[i] = s[1 + i - 1]
  BY <1>1, SeqSub
<1> HIDE DEF u
<1>3. u = s
  BY <1>1, <1>2, SeqSame
<1> QED
  BY <1>3 DEF u

LEMMA MatchesNew ==
  ASSUME NEW g, NEW c, Matches(g, c), NEW d, Below(c, d, c.n + 1), Lowered(c, d), d.sp = c.sp,
         Top(d).out = << >>, Top(d).open = {}, Top(d).blank
  PROVE  /\ NewArgCode(g) = G(c.st, g.arg, << >>, g.clean, c.sp, g.labels)
         /\ Matches(G(d.st, g.arg, << >>, g.clean, d.sp, g.labels), d)
<1> DEFINE f == c.n + 1
<1>1. /\ c.n \in Nat /\ IsSeq(g.arg) /\ Len(g.arg) = c.n /\ g.labels \in Nat /\ c.sp \in Int
      /\ Empty(g.clean, c.cl) /\ g = Made(c.st, g.arg, g.clean, c.sp, g.labels)
  BY DEF Matches
<1>2. SubSeq(g.arg, 1, f - 1) = g.arg
  <2>1. f - 1 = c.n
    BY <1>1
  <2> HIDE DEF f
  <2> QED
    BY <1>1, <2>1, SeqWhole
<1>3. Empty(g.clean, d.cl)
  BY <1>1, EmptyLowered
<1>4. Piece(<< >>, Top(d).out, Top(d).open) /\ Labels(<< >>) = {}
  BY PieceOfNone
<1>5. f \in Nat /\ f >= 1 /\ f <= c.n + 1 /\ g.labels <= g.labels
  BY <1>1
<1>6. \A x \in Labels(<< >>) :
         x \in (g.labels + 1) .. g.labels \/ \E i \in f .. c.n : x \in Labels(g.arg[i])
  BY <1>4
<1> HIDE DEF f
<1>7. Matches(G(d.st, SubSeq(g.arg, 1, f - 1), << >>, g.clean, d.sp, g.labels), d)
  <2>1. Below(c, d, f)
    BY DEF f
  <2> QED
    BY <1>1, <1>3, <1>4, <1>5, <1>6, <2>1, MatchesFrom
<1>8. NewArgCode(g) = G(c.st, g.arg, << >>, g.clean, c.sp, g.labels)
  <2> DEFINE h == Made(c.st, g.arg, g.clean, c.sp, g.labels)
             s == g.arg ## << >>
  <2>1. [h EXCEPT !.arg = s] = Made(c.st, s, g.clean, c.sp, g.labels)
    BY MadeArg
  <2> HIDE DEF h
  <2>2. h = g /\ NewArgCode(g) = [g EXCEPT !.arg = s]
    BY <1>1 DEF h, NewArgCode, ##
  <2> QED
    BY <2>1, <2>2 DEF G
<1> QED
  BY <1>2, <1>7, <1>8

\* RightOperand
LEMMA RightOperandStep ==
  ASSUME NEW g, NEW c, Matches(g, c), NEW d, StepRight(c, d), NEW w, Means(w, c)
  PROVE  Matches(NewArgCode(g), d) /\ Means(w, d)
<1>1. /\ d.st = c.st /\ d.sp = c.sp /\ Lowered(c, d) /\ Below(c, d, c.n + 1)
      /\ Top(d).out = << >> /\ Top(d).open = {} /\ Top(d).blank /\ SameValues(c, d, c.nv)
  BY DEF StepRight, Pc
<1>2. /\ NewArgCode(g) = G(c.st, g.arg, << >>, g.clean, c.sp, g.labels)
      /\ Matches(G(d.st, g.arg, << >>, g.clean, d.sp, g.labels), d)
  BY <1>1, MatchesNew
<1> QED
  BY <1>1, <1>2, MeansSame

\* BeginStatement
LEMMA BeginStep ==
  ASSUME NEW g, NEW c, Matches(g, c), NEW d, StepEntry(c, d), NEW w, Means(w, c)
  PROVE  Matches(At(NewArgCode(g), "undef"), d) /\ Means(w, d)
<1>1. /\ c.n = 0 /\ d.n = 1 /\ c.sp = 0 /\ d.sp = 0 /\ c.cl = 0 /\ d.cl = 0 /\ d.st = "undef"
      /\ c.nv = 0 /\ d.nv = 0
      /\ Top(d).out = << >> /\ Top(d).open = {} /\ Top(d).blank
  BY DEF StepEntry, Pc
<1>2. Below(c, d, c.n + 1) /\ Lowered(c, d) /\ SameValues(c, d, c.nv)
  BY <1>1 DEF Below, Lowered, SameValues
<1>3. /\ NewArgCode(g) = G(c.st, g.arg, << >>, g.clean, c.sp, g.labels)
      /\ Matches(G(d.st, g.arg, << >>, g.clean, d.sp, g.labels), d)
  BY <1>1, <1>2, MatchesNew
<1>4. At(NewArgCode(g), "undef") = G(d.st, g.arg, << >>, g.clean, d.sp, g.labels)
  BY <1>1, <1>3, AtMade
<1> QED
  BY <1>2, <1>3, <1>4, MeansSame

-----------------------------------------------------------------------------
(* Pieces that become one.                                                 *)

Joined(s, m, count, reverse) ==
  FlattenSeq(IF reverse THEN Reverse(SubSeq(s, m - count + 1, m)) ELSE SubSeq(s, m - count + 1, m))

LEMMA ConsMade ==
  ASSUME NEW s, IsSeq(s), NEW m \in Nat, Len(s) = m, NEW count \in Nat, count >= 1, m >= 1,
         count <= m, NEW st, NEW k, NEW sp, NEW l, NEW reverse
  PROVE  ConsArgCode(Made(st, s, k, sp, l), count, reverse) =
           G(st, SubSeq(s, 1, m - count), Joined(s, m, count, reverse), k, sp, l)
<1> DEFINE last == SubSeq(s, m - count + 1, m)
           q == FlattenSeq(IF reverse THEN Reverse(last) ELSE last)
           g == Made(st, s, k, sp, l)
           a == SubSeq(s, 1, m - count)
           u == a ## q
<1>1. g.arg = s /\ [g EXCEPT !.arg = u] = Made(st, u, k, sp, l)
  BY MadeFields, MadeArg
<1> HIDE DEF g
<1>2. s # << >>
  BY SeqEmpty
<1>3. Len(g.arg) - (IF count < Len(g.arg) THEN count ELSE Len(g.arg)) = m - count
  BY <1>1
<1>4. IsSeq(a)
  <2> DEFINE n == m - count
  <2>1. 1 \in Int /\ n \in Int /\ 1 <= 1 /\ 1 <= n + 1 /\ n <= Len(s)
    OBVIOUS
  <2> HIDE DEF n
  <2>2. IsSeq(SubSeq(s, 1, n))
    BY <2>1, SeqSub
  <2> QED
    BY <2>2 DEF n
<1>5. a \o <<q>> = u
  BY <1>4, SeqConcatOne
<1> HIDE DEF a, u
<1>6. ConsArgCode(g, count, reverse) = [g EXCEPT !.arg = u]
  <2> DEFINE first == Len(g.arg) - (IF count < Len(g.arg) THEN count ELSE Len(g.arg))
             z == SubSeq(g.arg, first + 1, Len(g.arg))
             y == FlattenSeq(IF reverse THEN Reverse(z) ELSE z)
  <2>1. ~(count = 0 \/ g.arg = << >>)
    BY <1>1, <1>2
  <2>2. ConsArgCode(g, count, reverse) = [g EXCEPT !.arg = SubSeq(g.arg, 1, first) \o <<y>>]
    BY <2>1 DEF ConsArgCode
  <2>3. z = last
    <3>1. first = m - count
      BY <1>3
    <3> HIDE DEF first
    <3> QED
      BY <1>1, <3>1
  <2>4. y = q
    <3> HIDE DEF z
    <3> QED
      BY <2>3
  <2>5. SubSeq(g.arg, 1, first) = a
    <3>1. first = m - count
      BY <1>3
    <3> HIDE DEF first
    <3> QED
      BY <1>1, <3>1 DEF a
  <2> HIDE DEF first, y
  <2> QED
    BY <1>5, <2>2, <2>4, <2>5
<1> QED
  BY <1>1, <1>6 DEF G, u, a, g, Joined

LEMMA ConcatSnoc ==
  ASSUME NEW s, IsSeq(s), NEW t, IsSeq(t), NEW x
  PROVE  s ++ (t ## x) = (s ++ t) ## x
<1> DEFINE r == t ## x
           u == s \o r
           p == s \o t
           v == p ## x
<1>1. /\ IsSeq(r) /\ Len(s) \in Nat /\ Len(t) \in Nat /\ Len(r) = Len(t) + 1 /\ r[Len(t) + 1] = x
      /\ \A i \in 1 .. Len(t) : r[i] = t[i]
  BY SeqSnoc, SeqLen
<1>2. /\ IsSeq(p) /\ Len(p) = Len(s) + Len(t)
      /\ \A i \in 1 .. Len(s) : p[i] = s[i]
      /\ \A i \in 1 .. Len(t) : p[Len(s) + i] = t[i]
  BY SeqConcat
<1> HIDE DEF r, p
<1>3. /\ IsSeq(u) /\ Len(u) = Len(s) + Len(r)
      /\ \A i \in 1 .. Len(s) : u[i] = s[i]
      /\ \A i \in 1 .. Len(r) : u[Len(s) + i] = r[i]
  BY <1>1, SeqConcat
<1>4. IsSeq(v) /\ Len(v) = Len(p) + 1 /\ v[Len(p) + 1] = x /\ \A i \in 1 .. Len(p) : v[i] = p[i]
  BY <1>2, SeqSnoc
<1> HIDE DEF u, v
<1>5. ASSUME NEW i \in 1 .. Len(u) PROVE u[i] = v[i]
  <2>1. CASE i \in 1 .. Len(s)
    <3>1. i \in 1 .. Len(p)
      BY <1>1, <1>2, <2>1
    <3> QED
      BY <1>2, <1>3, <1>4, <2>1, <3>1
  <2>2. CASE i \notin 1 .. Len(s)
    <3> DEFINE j == i - Len(s)
    <3>1. j \in 1 .. Len(r) /\ i = Len(s) + j /\ (j = Len(t) + 1 \/ j \in 1 .. Len(t))
      <4>1. Len(s) \in Nat /\ Len(t) \in Nat /\ Len(r) = Len(t) + 1 /\ Len(u) = Len(s) + Len(r)
        BY <1>1, <1>3
      <4>2. i \in 1 .. (Len(s) + (Len(t) + 1))
        BY <4>1
      <4> QED
        BY <2>2, <4>1, <4>2
    <3> HIDE DEF j
    <3>2. u[i] = r[j]
      BY <1>3, <3>1
    <3>3. CASE j = Len(t) + 1
      <4>1. i = Len(p) + 1
        BY <1>1, <1>2, <3>1, <3>3
      <4> QED
        BY <1>1, <1>4, <3>2, <3>3, <4>1
    <3>4. CASE j \in 1 .. Len(t)
      <4>1. i \in 1 .. Len(p)
        BY <1>1, <1>2, <3>1, <3>4
      <4>2. r[j] = t[j] /\ p[i] = t[j] /\ v[i] = p[i]
        BY <1>1, <1>2, <1>4, <3>1, <3>4, <4>1
      <4> QED
        BY <3>2, <4>2
    <3> QED
      BY <3>1, <3>3, <3>4
  <2> QED
    BY <2>1, <2>2
<1>6. u = v
  <2>1. Len(u) = Len(v)
    BY <1>1, <1>2, <1>3, <1>4
  <2> QED
    BY <1>3, <1>4, <1>5, <2>1, SeqSame
<1> QED
  BY <1>6 DEF u, v, r, p, ++

LEMMA ConcatNone ==
  ASSUME NEW s, IsSeq(s)
  PROVE  s \o << >> = s
<1>1. PICK S : s \in Seq(S)
  BY DEF IsSeq
<1> QED
  BY <1>1, ConcatEmptySeq

\* Three pieces in the order in which they were emitted.
LEMMA FlattenThree ==
  ASSUME NEW s, IsSeq(s), Len(s) = 3
  PROVE  FlattenSeq(s) = (s[1] \o s[2]) \o s[3]
<1>0. Len(s) >= 1
  OBVIOUS
<1>1. PICK F : Joins(F, s) /\ FlattenSeq(s) = F[Len(s)]
  BY <1>0, FlattenJoins
<1>2. F[1] = s[1] /\ F[2] = F[1] \o s[2] /\ F[3] = F[2] \o s[3]
  <2>1. \A i \in 1 .. 3 : i # 1 => F[i] = F[i - 1] \o s[i]
    BY <1>1 DEF Joins
  <2>2. 2 \in 1 .. 3 /\ 3 \in 1 .. 3 /\ 2 # 1 /\ 3 # 1 /\ 2 - 1 = 1 /\ 3 - 1 = 2
    OBVIOUS
  <2>3. F[2] = F[2 - 1] \o s[2] /\ F[3] = F[3 - 1] \o s[3]
    BY <2>1, <2>2
  <2> QED
    BY <1>1, <2>2, <2>3 DEF Joins
<1> QED
  BY <1>1, <1>2

\* The instruction of an operator that is not computed by the compiler.
OperatorIns(op, v1, v2) ==
  IF v2.const THEN Ins("operconst", op, v2.n)
  ELSE IF v1.const THEN Ins("operconst", InverseOp(op), v1.n) ELSE Ins("operator", op, 1)

LEMMA OperatorInsIs ==
  ASSUME NEW op, NEW v1, NEW v2
  PROVE  LET i == OperatorIns(op, v1, v2) IN
         /\ v1.const \/ v2.const => i.op = "operconst" /\ Growth(i) = 0
         /\ ~(v1.const \/ v2.const) => i.op = "operator" /\ i.n = 1 /\ Growth(i) = -1
  BY GrowthOf DEF OperatorIns, Ins

LEMMA ValueOfType ==
  ASSUME NEW typ
  PROVE  /\ Shows(ValueDef(typ), Plainly)
         /\ \A n, s : s.const = TRUE /\ s.n = n /\ s.temp = FALSE => Shows(Constant(typ, n), s)
<1>1. Shows(ValueDef(typ), Plainly)
  BY DEF Shows, IsValue, ValueDef, Plainly
<1>3. ASSUME NEW n, NEW s, s.const = TRUE, s.n = n, s.temp = FALSE PROVE Shows(Constant(typ, n), s)
  <2> DEFINE v == [typ |-> typ, const |-> TRUE, n |-> n, lit |-> 0, temp |-> FALSE]
  <2>1. Constant(typ, n) = v
    BY DEF Constant
  <2>2. v.typ = typ /\ v.const = TRUE /\ v.n = n /\ v.lit = 0 /\ v.temp = FALSE
    OBVIOUS
  <2>3. v = [typ |-> v.typ, const |-> v.const, n |-> v.n, lit |-> v.lit, temp |-> v.temp]
    OBVIOUS
  <2> HIDE DEF v
  <2>4. Shows(v, s)
    BY <1>3, <2>2, <2>3 DEF Shows, IsValue
  <2> QED
    BY <2>1, <2>4
<1> QED
  BY <1>1, <1>3

LEMMA OpResultShows ==
  ASSUME NEW op, NEW v, Shows(v, Plainly)
  PROVE  Shows(OpResult(op, v), Plainly)
  BY ValueOfType DEF OpResult

LEMMA GenerateConstants ==
  ASSUME NEW g, NEW op, NEW v1, NEW v2, v1.const, v2.const, NEW n, n = Apply(op, v1.n, v2.n),
         ~Divides(op, v1.n, v2.n), NEW s, s.const = TRUE, s.n = n, s.temp = FALSE
  PROVE  /\ GenerateOp(g, op, v1, v2).g = g /\ GenerateOp(g, op, v1, v2).err # "panic"
         /\ Shows(GenerateOp(g, op, v1, v2).v, s)
<1> DEFINE r == GenerateOp(g, op, v1, v2)
           typ == IF op \in Compares THEN "bool"
                  ELSE IF v1.n < 0 \/ v2.n < 0 THEN "str" ELSE "int"
           v == Constant(typ, n)
<1>1. r = Outcome(g, v, "")
  BY DEF GenerateOp, ConstOpConst
<1>2. Shows(v, s)
  <2> HIDE DEF typ
  <2> QED
    BY ValueOfType
<1> HIDE DEF v, r
<1>3. Outcome(g, v, "").g = g /\ Outcome(g, v, "").v = v /\ Outcome(g, v, "").err = ""
  BY DEF Outcome
<1>4. r.g = g /\ r.err # "panic" /\ Shows(r.v, s)
  BY <1>1, <1>2, <1>3
<1> QED
  BY <1>4 DEF r

LEMMA EmitOpMade ==
  ASSUME NEW a, IsSeq(a), NEW q, NEW i, NEW k, NEW sp, NEW l, NEW st
  PROVE  At(Emit(G(st, a, q, k, sp, l), i), "ax") = G("ax", a, q ## i, k, sp + Growth(i), l)
<1>1. Emit(G(st, a, q, k, sp, l), i) = G(st, a, q ## i, k, sp + Growth(i), l)
  BY EmitMade
<1> DEFINE r == q ## i
           m == sp + Growth(i)
<1> HIDE DEF r, m
<1>2. At(G(st, a, r, k, m, l), "ax") = G("ax", a, r, k, m, l)
  BY AtMade
<1> QED
  BY <1>1, <1>2 DEF r, m

LEMMA ConstOutcome ==
  ASSUME NEW g, g.state = "ax", NEW op, NEW v1, NEW v2
  PROVE  /\ TosOpConst(g, op, v1, v2).g = EmitOpIntConst(g, op, v2.n)
         /\ TosOpConst(g, op, v1, v2).v = OpResult(op, ValueDef(v1.typ))
         /\ TosOpConst(g, op, v1, v2).err # "panic"
<1> DEFINE ok == \/ IsInteger(v1.typ) /\ IsInteger(v2.typ)
                 \/ op \in Compares /\ v1.typ = "bool" /\ v2.typ = "bool"
           err == IF ~ok THEN "rejected"
                  ELSE IF op \notin Compares /\ g.state # "ax" THEN "panic" ELSE ""
           h == EmitOpIntConst(g, op, v2.n)
           v == OpResult(op, ValueDef(v1.typ))
<1>1. TosOpConst(g, op, v1, v2) = Outcome(h, v, err)
  BY DEF TosOpConst
<1> HIDE DEF ok
<1>2. err # "panic"
  OBVIOUS
<1> HIDE DEF err, h, v
<1>3. Outcome(h, v, err).g = h /\ Outcome(h, v, err).v = v /\ Outcome(h, v, err).err = err
  BY DEF Outcome
<1> QED
  BY <1>1, <1>2, <1>3 DEF h, v

LEMMA TosOutcome ==
  ASSUME NEW g, g.state = "ax", NEW op, NEW v1, NEW v2
  PROVE  /\ TosOpNos(g, op, v1, v2).g = EmitIntegerOp(g, op)
         /\ TosOpNos(g, op, v1, v2).v = OpResult(op, v1)
         /\ TosOpNos(g, op, v1, v2).err # "panic"
<1> DEFINE ok == /\ IsInteger(v1.typ)
                 /\ IsInteger(v2.typ) \/ (op \notin Compares /\ v2.typ = "bool")
           err == IF ~ok THEN "rejected"
                  ELSE IF op \notin Compares /\ g.state # "ax" THEN "panic" ELSE ""
           h == EmitIntegerOp(g, op)
           v == OpResult(op, v1)
<1>1. TosOpNos(g, op, v1, v2) = Outcome(h, v, err)
  BY DEF TosOpNos
<1> HIDE DEF ok
<1>2. err # "panic"
  OBVIOUS
<1> HIDE DEF err, h, v
<1>3. Outcome(h, v, err).g = h /\ Outcome(h, v, err).v = v /\ Outcome(h, v, err).err = err
  BY DEF Outcome
<1> QED
  BY <1>1, <1>2, <1>3 DEF h, v

\* What an operator compiles to: one instruction i behind the code of the pieces, and a plain result.
OperatorIs(r, a, p, i, k, sp, l) ==
  /\ r.g = G("ax", a, p ## i, k, sp + Growth(i), l)
  /\ r.err # "panic" /\ Shows(r.v, Plainly)

LEMMA GenerateMade ==
  ASSUME NEW a, IsSeq(a), NEW q, NEW st \in {"ax", "sp"}, NEW k, NEW sp \in Int, NEW l,
         NEW op, NEW v1, NEW v2, v1.const \in BOOLEAN, v2.const \in BOOLEAN,
         ~(v1.const /\ v2.const), ~v1.const => Shows(v1, Plainly)
  PROVE  OperatorIs(GenerateOp(G(st, a, q, k, sp, l), op, v1, v2), a, Taken(st, q), OperatorIns(op, v1, v2),
                    k, sp - Truth(st = "sp"), l)
<1> DEFINE i == OperatorIns(op, v1, v2)
           r == GenerateOp(G(st, a, q, k, sp, l), op, v1, v2)
           p == Taken(st, q)
           m == sp - Truth(st = "sp")
           g == G("ax", a, p, k, m, l)
           h == G("ax", a, p ## i, k, m + Growth(i), l)
<1>1. EmitAssertTosInRax(G(st, a, q, k, sp, l)) = g
  BY TakenMade
<1>2. g.state = "ax" /\ At(Emit(g, i), "ax") = h
  <2> HIDE DEF p, m
  <2>1. At(Emit(G("ax", a, p, k, m, l), i), "ax") = G("ax", a, p ## i, k, m + Growth(i), l)
    BY EmitOpMade
  <2>2. G("ax", a, p, k, m, l).state = "ax"
    BY AtMade
  <2> QED
    BY <2>1, <2>2
<1> HIDE DEF g, h
<1>3. CASE v2.const
  <2>1. ~v1.const /\ i = Ins("operconst", op, v2.n)
    BY <1>3 DEF OperatorIns
  <2>2. r = TosOpConst(g, op, v1, v2)
    BY <1>1, <1>3, <2>1 DEF GenerateOp
  <2>3. Shows(OpResult(op, ValueDef(v1.typ)), Plainly)
    BY ValueOfType, OpResultShows
  <2>4. EmitOpIntConst(g, op, v2.n) = h
    BY <1>2, <2>1 DEF EmitOpIntConst
  <2>5. r.g = h /\ r.v = OpResult(op, ValueDef(v1.typ)) /\ r.err # "panic"
    BY <1>2, <2>2, <2>4, ConstOutcome
  <2> QED
    BY <2>3, <2>5 DEF h, OperatorIs
<1>4. CASE v1.const
  <2>1. ~v2.const /\ i = Ins("operconst", InverseOp(op), v1.n)
    BY <1>4 DEF OperatorIns
  <2>2. r = TosOpConst(g, InverseOp(op), v2, v1)
    BY <1>1, <1>4, <2>1 DEF GenerateOp
  <2> DEFINE iop == InverseOp(op)
  <2> HIDE DEF iop
  <2>3. Shows(OpResult(iop, ValueDef(v2.typ)), Plainly)
    BY ValueOfType, OpResultShows
  <2>4. EmitOpIntConst(g, iop, v1.n) = h
    BY <1>2, <2>1 DEF EmitOpIntConst, iop
  <2>6. r = TosOpConst(g, iop, v2, v1)
    BY <2>2 DEF iop
  <2>5. r.g = h /\ r.v = OpResult(iop, ValueDef(v2.typ)) /\ r.err # "panic"
    BY <1>2, <2>6, <2>4, ConstOutcome
  <2> QED
    BY <2>3, <2>5 DEF h, OperatorIs
<1>5. CASE ~v1.const /\ ~v2.const
  <2>1. i = Ins("operator", op, 1)
    BY <1>5 DEF OperatorIns
  <2>2. r = TosOpNos(g, op, v1, v2)
    BY <1>1, <1>5, <2>1 DEF GenerateOp
  <2>3. Shows(OpResult(op, v1), Plainly)
    BY <1>5, OpResultShows
  <2>4. EmitIntegerOp(g, op) = h
    BY <1>2, <2>1 DEF EmitIntegerOp
  <2>5. r.g = h /\ r.v = OpResult(op, v1) /\ r.err # "panic"
    BY <1>2, <2>2, <2>4, TosOutcome
  <2> QED
    BY <2>3, <2>5 DEF h, OperatorIs
<1> QED
  BY <1>3, <1>4, <1>5

LEMMA NewArg ==
  ASSUME NEW g, NEW c, Matches(g, c)
  PROVE  NewArgCode(g) = G(c.st, g.arg, << >>, g.clean, c.sp, g.labels)
<1> DEFINE h == Made(c.st, g.arg, g.clean, c.sp, g.labels)
           s == g.arg ## << >>
<1>1. h = g
  BY DEF Matches
<1>2. [h EXCEPT !.arg = s] = Made(c.st, s, g.clean, c.sp, g.labels)
  BY MadeArg
<1> HIDE DEF h
<1>3. NewArgCode(g) = [g EXCEPT !.arg = s]
  BY DEF NewArgCode, ##
<1> QED
  BY <1>1, <1>2, <1>3 DEF G

LEMMA SubSnoc ==
  ASSUME NEW s, IsSeq(s), NEW x, NEW n \in Int, 0 <= n, n <= Len(s)
  PROVE  SubSeq(s ## x, 1, n) = SubSeq(s, 1, n)
<1> DEFINE r == s ## x
           u == SubSeq(r, 1, n)
           v == SubSeq(s, 1, n)
<1>1. IsSeq(r) /\ Len(s) \in Nat /\ Len(r) = Len(s) + 1 /\ \A i \in 1 .. Len(s) : r[i] = s[i]
  BY SeqSnoc
<1> HIDE DEF r
<1>2. 1 \in Int /\ n \in Int /\ 1 <= 1 /\ 1 <= n + 1 /\ n <= Len(s) /\ n <= Len(r)
      /\ n - 1 + 1 = n /\ (\A i \in 1 .. n : 1 + i - 1 = i /\ i \in 1 .. Len(s)) /\ n \in Nat
  BY <1>1
<1>3. IsSeq(u) /\ Len(u) = n - 1 + 1 /\ \A i \in 1 .. (n - 1 + 1) : u[i] = r[1 + i - 1]
  BY <1>1, <1>2, SeqSub
<1>4. IsSeq(v) /\ Len(v) = n - 1 + 1 /\ \A i \in 1 .. (n - 1 + 1) : v[i] = s[1 + i - 1]
  BY <1>2, SeqSub
<1> HIDE DEF u, v
<1>5. Len(u) = Len(v) /\ \A i \in 1 .. Len(u) : u[i] = v[i]
  BY <1>1, <1>2, <1>3, <1>4
<1>6. u = v
  BY <1>3, <1>4, <1>5, SeqSame
<1> QED
  BY <1>6 DEF u, v, r

Paired(b, n) == b[n - 1] ++ b[n]
WithoutTwo(b, n) == SubSeq(b, 1, n - 2)
ConsThreePieces(g) == ConsArgCode(g, 3, FALSE)

LEMMA ConsThree ==
  ASSUME NEW b, IsSeq(b), NEW n \in Nat, Len(b) = n, n >= 2, NEW q, NEW st, NEW k, NEW sp, NEW l
  PROVE  ConsThreePieces(G(st, b, q, k, sp, l)) = G(st, WithoutTwo(b, n), Paired(b, n) ++ q, k, sp, l)
<1> DEFINE s == b ## q
           m == n + 1
           last == SubSeq(s, m - 3 + 1, m)
           z == Joined(s, m, 3, FALSE)
<1>1. IsSeq(s) /\ Len(s) = m /\ s[n + 1] = q /\ \A i \in 1 .. n : s[i] = b[i]
  BY SeqSnoc
<1>2. m \in Nat /\ m >= 1 /\ 3 \in Nat /\ 3 >= 1 /\ 3 <= m
  OBVIOUS
<1> HIDE DEF s
<1>3. ConsArgCode(Made(st, s, k, sp, l), 3, FALSE) =
        G(st, SubSeq(s, 1, m - 3), Joined(s, m, 3, FALSE), k, sp, l)
  <2> DEFINE no == FALSE
             count == 3
  <2>1. count \in Nat /\ count >= 1 /\ count <= m
    OBVIOUS
  <2> HIDE DEF m, no, count
  <2>2. ConsArgCode(Made(st, s, k, sp, l), count, no) =
          G(st, SubSeq(s, 1, m - count), Joined(s, m, count, no), k, sp, l)
    BY <1>1, <1>2, <2>1, ConsMade
  <2> QED
    BY <2>2 DEF no, count
<1>4. SubSeq(s, 1, m - 3) = SubSeq(b, 1, n - 2)
  <2> DEFINE j == n - 2
  <2>1. m - 3 = j /\ j \in Int /\ 0 <= j /\ j <= Len(b)
    OBVIOUS
  <2> HIDE DEF j, m
  <2>2. SubSeq(b ## q, 1, j) = SubSeq(b, 1, j)
    BY <2>1, SubSnoc
  <2> QED
    BY <2>1, <2>2 DEF s, j
<1>5. IsSeq(last) /\ Len(last) = 3 /\ last[1] = b[n - 1] /\ last[2] = b[n] /\ last[3] = q
  <2> DEFINE lo == m - 3 + 1
  <2>1. lo \in Int /\ m \in Int /\ 1 <= lo /\ lo <= m + 1 /\ m <= Len(s) /\ m - lo + 1 = 3
        /\ lo + 1 - 1 = n - 1 /\ lo + 2 - 1 = n /\ lo + 3 - 1 = n + 1
    BY <1>1
  <2>2. n - 1 \in 1 .. n /\ n \in 1 .. n /\ 1 \in 1 .. 3 /\ 2 \in 1 .. 3 /\ 3 \in 1 .. 3
    OBVIOUS
  <2> HIDE DEF lo, m
  <2>3. /\ IsSeq(SubSeq(s, lo, m)) /\ Len(SubSeq(s, lo, m)) = m - lo + 1
        /\ \A i \in 1 .. (m - lo + 1) : SubSeq(s, lo, m)[i] = s[lo + i - 1]
    BY <1>1, <2>1, SeqSub
  <2> DEFINE u == SubSeq(s, lo, m)
  <2> HIDE DEF u
  <2>4. IsSeq(u) /\ Len(u) = 3 /\ \A i \in 1 .. 3 : u[i] = s[lo + i - 1]
    BY <2>1, <2>3 DEF u
  <2>5. u[1] = s[n - 1] /\ u[2] = s[n] /\ u[3] = s[n + 1]
    BY <2>1, <2>2, <2>4
  <2> QED
    BY <1>1, <2>2, <2>4, <2>5 DEF u, lo
<1>6. z = (b[n - 1] \o b[n]) \o q
  <2>1. z = FlattenSeq(last)
    BY DEF Joined
  <2> HIDE DEF last, z
  <2> QED
    BY <1>5, <2>1, FlattenThree
<1>7. ConsArgCode(Made(st, s, k, sp, l), 3, FALSE) =
        G(st, SubSeq(b, 1, n - 2), (b[n - 1] \o b[n]) \o q, k, sp, l)
  <2> HIDE DEF m
  <2> QED
    BY <1>3, <1>4, <1>6
<1> QED
  BY <1>7 DEF G, s, Paired, ++, WithoutTwo, ConsThreePieces

\* What the code of an operator leaves, when the pieces of its operands have
\* become p.
LEMMA OperatorPiece ==
  ASSUME NEW p, NEW words, NEW open, Piece(p, words, open), NEW st \in {"ax", "sp"},
         NEW out \in Shapes, NEW j, j = Truth(st = "sp"), NEW m \in {0, 1}, words = out ++ Nums(j + m),
         NEW i, m = 0 => i.op = "operconst", m = 1 => i.op = "operator" /\ i.n = 1
  PROVE  Piece(Taken(st, p) ## i, out, open) /\ Labels(Taken(st, p) ## i) = Labels(p)
         /\ Taken(st, p) ## i # << >>
<1> DEFINE o == out ++ Nums(m)
<1>1. j \in Nat /\ m \in Nat
  BY DEF Truth
<1>2. o \in Shapes /\ words = o ++ Nums(j)
  <2>1. Nums(m) \in Shapes /\ Nums(j) \in Shapes /\ Nums(m) ++ Nums(j) = Nums(j + m)
    <3>1. m + j = j + m
      BY <1>1
    <3>2. Nums(m) \in Shapes /\ Nums(j) \in Shapes
      BY <1>1, NumsType
    <3>3. Nums(m) ++ Nums(j) = Nums(m + j)
      BY <1>1, NumsAdd
    <3> QED
      BY <3>1, <3>2, <3>3
  <2>2. (out ++ Nums(m)) ++ Nums(j) = out ++ (Nums(m) ++ Nums(j))
    BY <2>1, ShapeAssoc
  <2>3. out ++ Nums(m) \in Shapes
    BY <2>1, ShapeConcat
  <2> QED
    BY <2>1, <2>2, <2>3
<1> DEFINE r == Taken(st, p)
<1>3. Piece(r, o, open) /\ Labels(r) = Labels(p)
  <2>1. Piece(p, o ++ Nums(Truth(st = "sp")), open)
    BY <1>2
  <2> HIDE DEF o
  <2> QED
    BY <1>2, <2>1, TakenPiece
<1> HIDE DEF r
<1>4. CASE m = 0
  <2>1. o = out
    BY <1>4, ShapeNone
  <2> HIDE DEF o
  <2>2. Piece(r ## i, out, open) /\ Labels(r ## i) = Labels(r) /\ r ## i # << >>
    BY <1>3, <1>4, <2>1, PieceStays
  <2> QED
    BY <1>3, <2>2 DEF r
<1>5. CASE m = 1
  <2>1. ~Marking(i) /\ Flow(i, o, out)
    BY <1>5 DEF Marking, Flow
  <2> HIDE DEF o
  <2>2. Piece(r ## i, out, open) /\ Labels(r ## i) = Labels(r) /\ r ## i # << >>
    BY <1>3, <2>1, PieceMore
  <2> QED
    BY <1>3, <2>2 DEF r
<1> QED
  BY <1>4, <1>5

LEMMA TakenNone ==
  ASSUME NEW s, IsSeq(s), NEW st, NEW i
  PROVE  s \o (Taken(st, << >>) ## i) = Taken(st, s) ## i
<1> DEFINE none == << >>
<1>1. IsSeq(none) /\ s ++ none = s
  BY SeqOfNone, ConcatNone DEF ++
<1> HIDE DEF none
<1>2. ASSUME st = "sp" PROVE s ++ (Taken(st, none) ## i) = Taken(st, s) ## i
  <2> DEFINE r == none ## Pop
  <2>1. IsSeq(r)
    BY <1>1, SeqSnoc
  <2>2. s ++ r = s ## Pop
    BY <1>1, ConcatSnoc
  <2> HIDE DEF r
  <2>3. s ++ (r ## i) = (s ++ r) ## i
    BY <2>1, ConcatSnoc
  <2> QED
    BY <1>2, <2>2, <2>3 DEF Taken, r
<1>3. ASSUME st # "sp" PROVE s ++ (Taken(st, none) ## i) = Taken(st, s) ## i
  <2>1. s ++ (none ## i) = (s ++ none) ## i
    BY <1>1, ConcatSnoc
  <2> QED
    BY <1>1, <1>3, <2>1 DEF Taken
<1> QED
  BY <1>2, <1>3 DEF none, ++

\* The last two pieces become one.
LEMMA MatchesJoined ==
  ASSUME NEW g, NEW c, Matches(g, c), c.n >= 2, NEW d, Below(c, d, c.n - 1), Lowered(c, d),
         d.sp \in Int, NEW q, Piece(q, Top(d).out, Top(d).open), q = << >> => Top(d).blank,
         Labels(q) = Labels(g.arg[c.n - 1]) \cup Labels(g.arg[c.n])
  PROVE  Matches(G(d.st, SubSeq(g.arg, 1, c.n - 2), q, g.clean, d.sp, g.labels), d)
<1> DEFINE f == c.n - 1
<1>1. c.n \in Nat /\ g.labels \in Nat /\ Empty(g.clean, c.cl)
  BY DEF Matches
<1>2. Empty(g.clean, d.cl)
  BY <1>1, EmptyLowered
<1>3. f \in Nat /\ f >= 1 /\ f <= c.n + 1 /\ g.labels <= g.labels /\ f - 1 = c.n - 2
      /\ f \in f .. c.n /\ c.n \in f .. c.n
  BY <1>1
<1>4. \A x \in Labels(q) :
         x \in (g.labels + 1) .. g.labels \/ \E i \in f .. c.n : x \in Labels(g.arg[i])
  <2>1. Labels(q) = Labels(g.arg[f]) \cup Labels(g.arg[c.n])
    OBVIOUS
  <2> HIDE DEF f
  <2> QED
    BY <1>3, <2>1
<1>5. Below(c, d, f)
  OBVIOUS
<1> HIDE DEF f
<1>6. Matches(G(d.st, SubSeq(g.arg, 1, f - 1), q, g.clean, d.sp, g.labels), d)
  BY <1>1, <1>2, <1>3, <1>4, <1>5, MatchesFrom
<1> QED
  BY <1>3, <1>6

LEMMA LastPieces ==
  ASSUME NEW g, NEW c, Matches(g, c), c.n >= 2, Top(c).open = {}
  PROVE  LET p == g.arg[c.n - 1] \o g.arg[c.n] IN
         /\ IsSeq(p) /\ Piece(p, c.pc[c.n - 1].out ++ Top(c).out, c.pc[c.n - 1].open)
         /\ Labels(p) = Labels(g.arg[c.n - 1]) \cup Labels(g.arg[c.n])
         /\ c.pc[c.n - 1].out \in Shapes
<1> DEFINE f == c.n - 1
<1>1. c.n \in Nat /\ Len(g.arg) = c.n /\ Apart(g.arg)
  BY DEF Matches
<1>2. f \in 1 .. c.n /\ c.n \in 1 .. c.n /\ f # c.n
  BY <1>1
<1> HIDE DEF f
<1>3. /\ Piece(g.arg[f], c.pc[f].out, c.pc[f].open) /\ Piece(g.arg[c.n], Top(c).out, {})
  BY <1>2 DEF Matches, Top
<1>4. Labels(g.arg[f]) \cap Labels(g.arg[c.n]) = {}
  BY <1>1, <1>2 DEF Apart
<1>5. /\ Piece(g.arg[f] \o g.arg[c.n], c.pc[f].out ++ Top(c).out, c.pc[f].open)
      /\ Labels(g.arg[f] \o g.arg[c.n]) = Labels(g.arg[f]) \cup Labels(g.arg[c.n])
  BY <1>3, <1>4, PieceConcat
<1> QED
  BY <1>3, <1>5, PieceIsSeq DEF f

LEMMA ConsOperands ==
  ASSUME NEW g, NEW c, Matches(g, c), c.n >= 2, NEW q, NEW st, NEW sp
  PROVE  ConsArgCode(G(st, g.arg, q, g.clean, sp, g.labels), 3, FALSE) =
           G(st, SubSeq(g.arg, 1, c.n - 2), (g.arg[c.n - 1] \o g.arg[c.n]) \o q, g.clean, sp, g.labels)
<1> DEFINE b == g.arg
           m == c.n
           k == g.clean
           l == g.labels
<1>1. m \in Nat /\ Len(b) = m /\ m >= 2 /\ IsSeq(b)
  BY DEF Matches
<1> HIDE DEF b, m, k, l
<1>2. ConsThreePieces(G(st, b, q, k, sp, l)) = G(st, WithoutTwo(b, m), Paired(b, m) ++ q, k, sp, l)
  BY <1>1, ConsThree
<1> QED
  BY <1>2 DEF b, m, k, l, Paired, ++, WithoutTwo, ConsThreePieces

\* Operator
LEMMA OperatorCode ==
  ASSUME NEW t, PlainTrees(t), NEW e, e.k = "op", NEW g, NEW c, Matches(g, c), NEW d,
         StepOp(t, e, c, d), NEW v1, NEW v2, Shows(v1, Shown(t, e.a[1])), Shows(v2, Shown(t, e.a[2]))
  PROVE  LET r == GenerateOp(NewArgCode(g), e.s, v1, v2)
         IN  r.err # "panic" /\ Matches(ConsArgCode(r.g, 3, FALSE), d) /\ Shows(r.v, Shown(t, e))
<1> DEFINE x == e.a[1]
           y == e.a[2]
           b == g.arg
           p == b[c.n - 1] \o b[c.n]
           f == c.pc[c.n - 1]
           r == GenerateOp(NewArgCode(g), e.s, v1, v2)
<1>1. /\ e \in t.all /\ c.n >= 2 /\ c.nv >= 2
      /\ c.vs[c.nv - 1] = Shown(t, x) /\ c.vs[c.nv] = Shown(t, y)
      /\ Below(c, d, c.n - 1) /\ Lowered(c, d) /\ Yields(c, d, c.nv - 2, Shown(t, e))
      /\ Top(c).open = {}
      /\ IF e \in t.const
         THEN d.st = c.st /\ d.sp = c.sp /\ Top(c).out = << >> /\ Top(d) = f
         ELSE Loads(c, d, f.out ++ Top(c).out, f.open, Truth(x \notin t.const /\ y \notin t.const))
  BY DEF StepOp
<1>2. (e \in t.const <=> x \in t.const /\ y \in t.const) /\ ~IsTemp(e) /\ ~IsTemp(x) /\ ~IsTemp(y)
      /\ (e \in t.const => ~Divides(e.s, t.num[x], t.num[y]) /\ t.num[e] = Apply(e.s, t.num[x], t.num[y]))
  <2>1. PlainOperands(t, e) /\ Sorted(t, e)
    BY <1>1, TreeOperands
  <2>2. ~IsTemp(x) /\ ~IsTemp(y) /\ (e \in t.const => ~Divides(e.s, t.num[x], t.num[y]))
    BY <2>1 DEF PlainOperands
  <2>3. e \in t.const => t.num[e] = Apply(e.s, t.num[x], t.num[y])
    BY <2>1 DEF Sorted
  <2> QED
    BY <1>1, <2>2, <2>3, TreeKind
<1>3. Shows(v1, Shown(t, x)) /\ Shows(v2, Shown(t, y))
  OBVIOUS
<1> HIDE DEF x, y, r
<1>4. /\ v1.const \in BOOLEAN /\ v2.const \in BOOLEAN
      /\ (v1.const <=> x \in t.const) /\ (v2.const <=> y \in t.const)
      /\ (x \in t.const => v1.n = t.num[x]) /\ (y \in t.const => v2.n = t.num[y])
  <2>1. v1.const = Shown(t, x).const /\ (v1.const => v1.n = Shown(t, x).n)
        /\ v2.const = Shown(t, y).const /\ (v2.const => v2.n = Shown(t, y).n)
    BY <1>3 DEF Shows
  <2> QED
    BY <2>1, ShownOf
<1>5. NewArgCode(g) = G(c.st, b, << >>, g.clean, c.sp, g.labels)
  BY NewArg
<1>6. IsSeq(b) /\ Len(b) = c.n /\ c.n \in Nat /\ c.sp \in Int /\ g.labels \in Nat
  BY DEF Matches
<1>7. /\ IsSeq(p) /\ Piece(p, f.out ++ Top(c).out, f.open)
      /\ Labels(p) = Labels(b[c.n - 1]) \cup Labels(b[c.n]) /\ f.out \in Shapes
  BY <1>1, LastPieces
<1> HIDE DEF p
<1>8. \A q, st, sp : ConsArgCode(G(st, b, q, g.clean, sp, g.labels), 3, FALSE) =
                       G(st, SubSeq(b, 1, c.n - 2), p \o q, g.clean, sp, g.labels)
  BY <1>1, ConsOperands DEF p
<1>9. \A q : /\ Piece(q, Top(d).out, Top(d).open) /\ (q = << >> => Top(d).blank)
             /\ Labels(q) = Labels(p) /\ d.sp \in Int
             => Matches(G(d.st, SubSeq(b, 1, c.n - 2), q, g.clean, d.sp, g.labels), d)
  BY <1>1, <1>7, MatchesJoined
<1>11. ASSUME e \in t.const
       PROVE  r.err # "panic" /\ Matches(ConsArgCode(r.g, 3, FALSE), d) /\ Shows(r.v, Shown(t, e))
  <2>1. d.st = c.st /\ d.sp = c.sp /\ Top(c).out = << >> /\ Top(d) = f
    BY <1>1, <1>11
  <2>2. r.g = NewArgCode(g) /\ r.err # "panic" /\ Shows(r.v, Shown(t, e))
    <3> DEFINE s == Shown(t, e)
               m == t.num[e]
    <3>1. s.const = TRUE /\ s.n = m /\ s.temp = FALSE
      BY <1>2, <1>11, ShownOf
    <3>2. v1.const /\ v2.const /\ ~Divides(e.s, v1.n, v2.n) /\ m = Apply(e.s, v1.n, v2.n)
      BY <1>2, <1>4, <1>11
    <3>3. r = GenerateOp(NewArgCode(g), e.s, v1, v2)
      BY DEF r
    <3> HIDE DEF s, m
    <3> DEFINE h == NewArgCode(g)
    <3> HIDE DEF h
    <3>4. /\ GenerateOp(h, e.s, v1, v2).g = h /\ GenerateOp(h, e.s, v1, v2).err # "panic"
          /\ Shows(GenerateOp(h, e.s, v1, v2).v, s)
      BY <3>1, <3>2, GenerateConstants
    <3> QED
      BY <3>3, <3>4 DEF s, h
  <2>3. p \o << >> = p
    BY <1>7, ConcatNone
  <2>4. ConsArgCode(r.g, 3, FALSE) = G(d.st, SubSeq(b, 1, c.n - 2), p, g.clean, d.sp, g.labels)
    BY <1>5, <1>8, <2>1, <2>2, <2>3
  <2>5. Piece(p, Top(d).out, Top(d).open) /\ d.sp \in Int
    BY <1>6, <1>7, <2>1, ShapeEmpty
  <2>6. p = << >> => Top(d).blank
    <3> DEFINE i == c.n - 1
    <3>1. i \in 1 .. c.n /\ c.n \in 1 .. c.n
      <4>1. c.n >= 2 /\ c.n \in Nat
        BY <1>1, <1>6
      <4> QED
        BY <4>1
    <3> HIDE DEF i
    <3>2. IsSeq(b[i]) /\ IsSeq(b[c.n]) /\ (b[i] = << >> => c.pc[i].blank)
      BY <3>1, PieceIsSeq DEF Matches
    <3> DEFINE u == b[i]
               v == b[c.n]
    <3>3. IsSeq(u) /\ IsSeq(v) /\ p = u ++ v
      BY <3>2 DEF p, i, ++
    <3> HIDE DEF u, v
    <3>5. Len(u ++ v) = Len(u) + Len(v) /\ Len(u) \in Nat /\ Len(v) \in Nat
      BY <3>3, SeqConcat, SeqLen DEF ++
    <3>4. ASSUME p = << >> PROVE b[i] = << >>
      <4>1. Len(u ++ v) = 0
        BY <3>3, <3>4, SeqOfNone
      <4> DEFINE lu == Len(u)
                 lv == Len(v)
      <4>3. lu \in Nat /\ lv \in Nat /\ lu + lv = 0
        BY <3>5, <4>1
      <4> HIDE DEF lu, lv
      <4>4. lu = 0
        BY <4>3
      <4>2. Len(u) = 0
        BY <4>4 DEF lu
      <4> QED
        BY <3>3, <4>2, SeqEmpty DEF u
    <3> QED
      BY <2>1, <3>2, <3>4 DEF i
  <2> HIDE DEF b, f
  <2> QED
    BY <1>9, <2>2, <2>4, <2>5, <2>6
<1>12. ASSUME e \notin t.const
       PROVE  r.err # "panic" /\ Matches(ConsArgCode(r.g, 3, FALSE), d) /\ Shows(r.v, Shown(t, e))
  <2> DEFINE i == OperatorIns(e.s, v1, v2)
             j == Truth(c.st = "sp")
             m == Truth(x \notin t.const /\ y \notin t.const)
             q == Taken(c.st, p) ## i
             z == Taken(c.st, << >>) ## i
  <2>1. /\ c.st \in {"ax", "sp"} /\ d.st = "ax" /\ d.sp \in Int /\ c.sp = d.sp + j + m
        /\ Top(d).out \in Shapes /\ f.out ++ Top(c).out = Top(d).out ++ Nums(j + m)
        /\ Top(d).open = f.open
    BY <1>1, <1>12 DEF Loads
  <2>2. j \in Nat /\ m \in {0, 1} /\ (m = 0 => v1.const \/ v2.const) /\ (m = 1 => ~(v1.const \/ v2.const))
    BY <1>4 DEF Truth
  <2>3. /\ m = 0 => i.op = "operconst" /\ Growth(i) = 0
        /\ m = 1 => i.op = "operator" /\ i.n = 1 /\ Growth(i) = -1
    <3> HIDE DEF m
    <3> QED
      BY <2>2, OperatorInsIs
  <2> HIDE DEF i, m
  <2>4. Piece(q, Top(d).out, Top(d).open) /\ Labels(q) = Labels(p) /\ q # << >>
    <3>1. j = Truth(c.st = "sp")
      OBVIOUS
    <3> HIDE DEF j
    <3> DEFINE words == f.out ++ Top(c).out
    <3>2. Piece(p, words, f.open) /\ words = Top(d).out ++ Nums(j + m)
      BY <1>7, <2>1
    <3> HIDE DEF words, f
    <3>3. Piece(Taken(c.st, p) ## i, Top(d).out, f.open) /\ Labels(Taken(c.st, p) ## i) = Labels(p)
          /\ Taken(c.st, p) ## i # << >>
      BY <2>1, <2>2, <2>3, <3>1, <3>2, OperatorPiece
    <3> QED
      BY <2>1, <3>3
  <2>5. Shown(t, e) = Plainly /\ (~v1.const => Shows(v1, Plainly)) /\ ~(v1.const /\ v2.const)
    BY <1>2, <1>3, <1>4, <1>12, ShownOf
  <2>6. /\ r.g = G("ax", b, z, g.clean, (c.sp - j) + Growth(i), g.labels)
        /\ r.err # "panic" /\ Shows(r.v, Plainly)
    <3> DEFINE none == << >>
    <3>1. r = GenerateOp(G(c.st, b, none, g.clean, c.sp, g.labels), e.s, v1, v2)
      BY <1>5 DEF r
    <3>2. i = OperatorIns(e.s, v1, v2)
      BY DEF i
    <3> HIDE DEF b, none, j
    <3> DEFINE labels == g.labels
               clean == g.clean
               sp == c.sp
               st == c.st
               op == e.s
    <3> HIDE DEF labels, clean, sp, st, op
    <3>5. /\ IsSeq(b) /\ st \in {"ax", "sp"} /\ sp \in Int /\ v1.const \in BOOLEAN /\ v2.const \in BOOLEAN
          /\ ~(v1.const /\ v2.const) /\ (~v1.const => Shows(v1, Plainly))
      BY <1>4, <1>6, <2>1, <2>5 DEF sp, st
    <3>4. OperatorIs(GenerateOp(G(st, b, none, clean, sp, labels), op, v1, v2), b, Taken(st, none),
                     OperatorIns(op, v1, v2), clean, sp - Truth(st = "sp"), labels)
      BY <3>5, GenerateMade
    <3>6. OperatorIs(r, b, Taken(c.st, none), i, g.clean, c.sp - j, g.labels)
      BY <3>1, <3>2, <3>4 DEF j, labels, clean, sp, st, op
    <3>3. /\ r.g = G("ax", b, Taken(c.st, none) ## i, g.clean, (c.sp - j) + Growth(i), g.labels)
          /\ r.err # "panic" /\ Shows(r.v, Plainly)
      BY <3>6 DEF OperatorIs
    <3> QED
      BY <3>3 DEF none
  <2> HIDE DEF j
  <2>7. (c.sp - j) + Growth(i) = d.sp
    BY <2>1, <2>2, <2>3
  <2>8. p \o z = q
    BY <1>7, TakenNone
  <2> HIDE DEF z, q
  <2>9. ConsArgCode(r.g, 3, FALSE) = G(d.st, SubSeq(b, 1, c.n - 2), q, g.clean, d.sp, g.labels)
    BY <1>8, <2>1, <2>6, <2>7, <2>8
  <2> HIDE DEF b, f
  <2> QED
    BY <1>9, <2>1, <2>4, <2>5, <2>6, <2>9
<1> QED
  BY <1>11, <1>12 DEF r

LEMMA OperatorStep ==
  ASSUME NEW t, PlainTrees(t), NEW e, e.k = "op", NEW g, NEW c, Matches(g, c), NEW d,
         StepOp(t, e, c, d), NEW w, Means(w, c)
  PROVE  LET n == Len(w)
             r == GenerateOp(NewArgCode(g), e.s, w[n - 1], w[n])
         IN  /\ r.err # "panic" /\ Matches(ConsArgCode(r.g, 3, FALSE), d)
             /\ Means(Append(SubSeq(w, 1, n - 2), r.v), d)
<1> DEFINE n == Len(w)
           v1 == w[n - 1]
           v2 == w[n]
           r == GenerateOp(NewArgCode(g), e.s, v1, v2)
           v == r.v
           k == c.nv - 2
<1>1. /\ c.nv >= 2 /\ c.vs[c.nv - 1] = Shown(t, e.a[1]) /\ c.vs[c.nv] = Shown(t, e.a[2])
      /\ Yields(c, d, k, Shown(t, e))
  BY DEF StepOp
<1>2. n = c.nv /\ c.nv \in Nat /\ \A i \in 1 .. c.nv : Shows(w[i], c.vs[i])
  BY DEF Means
<1>3. c.nv \in 1 .. c.nv /\ c.nv - 1 \in 1 .. c.nv /\ k \in Nat /\ k <= c.nv /\ k = n - 2
  <2> HIDE DEF n
  <2> QED
    BY <1>1, <1>2
<1>4. Shows(v1, Shown(t, e.a[1])) /\ Shows(v2, Shown(t, e.a[2]))
  BY <1>1, <1>2, <1>3
<1> HIDE DEF v1, v2
<1>5. r.err # "panic" /\ Matches(ConsArgCode(r.g, 3, FALSE), d) /\ Shows(v, Shown(t, e))
  BY <1>4, OperatorCode
<1> HIDE DEF v, k, r
<1>6. Means(Append(SubSeq(w, 1, k), v), d)
  BY <1>1, <1>3, <1>5, MeansInstead
<1> QED
  BY <1>3, <1>5, <1>6 DEF v, r, v1, v2

-----------------------------------------------------------------------------
(* And and or.                                                             *)

LEMMA LogicTree ==
  ASSUME NEW t, PlainTrees(t), NEW e \in t.all, e.k \in {"and", "or"}
  PROVE  /\ e \notin t.const /\ Len(e.a) \in Nat /\ Len(e.a) >= 2 /\ e.a[1].k # "call"
         /\ \A i \in 1 .. Len(e.a) :
                /\ e.a[i] \in t.all /\ e.a[i] \notin t.const /\ ~Procedure(e.a[i])
                /\ e.a[i] \in t.temps => e \in t.temps
         /\ \A i \in 2 .. Len(e.a) : e.a[i] \notin t.lead /\ e.a[i].k # "call" /\ ~IsTemp(e.a[i])
<1>1. e \notin t.const /\ Len(e.a) \in Nat /\ Len(e.a) >= 2
  BY TreeKind, TreeOperands
<1>2. PlainOperands(t, e)
  BY TreeOperands
<1>3. /\ e.a[1].k # "call" /\ (\A i \in 1 .. Len(e.a) : e.a[i] \notin t.const)
      /\ \A i \in 2 .. Len(e.a) : e.a[i] \notin t.lead
  BY <1>2 DEF PlainOperands
<1>4. \A i \in 1 .. Len(e.a) : e.a[i] \in t.all /\ ~Procedure(e.a[i]) /\ (e.a[i] \in t.temps => e \in t.temps)
  BY TreeOperands, TreeSets
<1>5. \A i \in 2 .. Len(e.a) : e.a[i].k # "call" /\ ~IsTemp(e.a[i])
  <2> SUFFICES ASSUME NEW i \in 2 .. Len(e.a) PROVE e.a[i].k # "call" /\ ~IsTemp(e.a[i])
    OBVIOUS
  <2>1. i \in 1 .. Len(e.a)
    BY <1>1
  <2>2. e.a[i] \in t.all /\ e.a[i] \notin t.lead
    BY <1>3, <1>4, <2>1
  <2>3. e.a[i].k # "call"
    BY <2>2, TreeSets
  <2> QED
    BY <2>2, <2>3, TreeKind
<1> QED
  BY <1>1, <1>3, <1>4, <1>5

\* ParseLogic
LEMMA LogicParts ==
  ASSUME NEW t, PlainTrees(t), NEW e, e.k \in {"and", "or"}, NEW c, c.n \in Nat, c.cl \in Nat,
         NEW d, StepExpr(t, e, c, d)
  PROVE  \E b : StepExpr(t, e.a[1], c, b) /\ StepLogic(t, Loop("term", e, 0, 2), b, d)
<1> DEFINE x == e.a[1]
           h == Held(c)
           y == Loop("term", e, 0, 2)
<1>1. /\ e \in t.all /\ c.n >= 1 /\ c.sp \in Int /\ c.nv \in Nat /\ Top(c).out \in Shapes
      /\ e \in t.lead => Top(c).out = << >> /\ Top(c).open = {}
      /\ e \in t.empty /\ Top(c).blank => c.n = 1
      /\ Below(c, d, c.n) /\ Lowered(c, d) /\ (e \in t.temps => d.cl = 0)
      /\ Yields(c, d, c.nv, Shown(t, e)) /\ ~Procedure(e) /\ ~IsTemp(e)
      /\ IF e \in t.const THEN d.st = c.st /\ d.sp = c.sp /\ Top(d) = Top(c)
         ELSE d.st = "ax" /\ d.sp = c.sp + h
              /\ Top(d) = Pc(Top(c).out ++ Nums(h), Top(c).open, FALSE)
  <2>1. PrefixedExpr(t, e, c, d)
    BY PrefixedStep
  <2> HIDE DEF x, y
  <2> QED
    BY <2>1 DEF PrefixedExpr, h
<1>2. e \notin t.const /\ Len(e.a) \in Nat /\ Len(e.a) >= 2 /\ x.k # "call" /\ 1 \in 1 .. Len(e.a)
  BY <1>1, LogicTree
<1>3. /\ x \in t.all /\ ~Procedure(x) /\ (x \in t.lead => e \in t.lead) /\ (x \in t.empty => e \in t.empty)
      /\ (x \in t.temps => e \in t.temps) /\ x \notin t.const
  BY <1>1, <1>2, LogicTree, TreeSets DEF Prefixed
<1>4. ~IsTemp(x)
  BY <1>2 DEF IsTemp
<1> DEFINE b == After(t, x, c, d.cl)
           m == Adds(t, x, c)
<1>5. d.cl \in Nat /\ d.cl <= c.cl
  BY <1>1 DEF Lowered
<1>6. StepExpr(t, x, c, b)
  BY <1>1, <1>3, <1>5, AfterStep
<1>7. Grown(t, x, c, b) /\ b.cl = d.cl
  BY <1>1, <1>3, <1>4, AfterGrown
<1>8. m = h
  BY <1>2, <1>3 DEF Adds, Truth, Held
<1>9. y.t = "term" /\ y.e = e /\ y.n = 0 /\ y.i = 2
  BY DEF Loop
<1>14. Shown(t, x) = Plainly /\ Shown(t, e) = Plainly
  BY <1>1, <1>2, <1>3, <1>4, ShownOf
<1> HIDE DEF b, m, h, x, y
<1>10. /\ b.st = "ax" /\ b.sp = c.sp + h /\ b.n = c.n /\ b.nv = c.nv + 1
       /\ Top(b).out = Top(c).out ++ Nums(h) /\ Top(b).open = Top(c).open
       /\ \A i \in 1 .. (c.n - 1) : b.pc[i] = c.pc[i]
       /\ b.vs[c.nv + 1] = Plainly /\ \A i \in 1 .. c.nv : b.vs[i] = c.vs[i]
  BY <1>2, <1>3, <1>7, <1>8, <1>14 DEF Grown, m
<1>11. Below(b, d, b.n) /\ Lowered(b, d) /\ SameValues(b, d, b.nv)
  <2>1. d.nv = c.nv + 1 /\ d.vs[c.nv + 1] = Plainly /\ \A i \in 1 .. c.nv : d.vs[i] = c.vs[i]
    BY <1>1, <1>14 DEF Yields
  <2>2. \A i \in 1 .. (c.nv + 1) : i \in 1 .. c.nv \/ i = c.nv + 1
    BY <1>1
  <2> QED
    BY <1>1, <1>5, <1>7, <1>10, <2>1, <2>2 DEF Below, Lowered, SameValues
<1>12. Top(d).out = Top(b).out /\ Top(d).open = Top(b).open /\ ~Top(d).blank /\ d.sp = b.sp /\ d.st = "ax"
  BY <1>1, <1>2, <1>10 DEF Pc
<1>13. StepLogic(t, y, b, d)
  <2>1. b.n >= 1 /\ b.nv \in Nat /\ b.nv >= 1 /\ b.nv - 0 = b.nv
    BY <1>1, <1>10
  <2>2. Truth(y.t = "drop") = 0 /\ y.i \in Nat /\ y.i >= 2 /\ y.i <= Len(e.a)
    BY <1>2, <1>9 DEF Truth
  <2> QED
    BY <1>1, <1>9, <1>10, <1>11, <1>12, <2>1, <2>2 DEF StepLogic
<1> QED
  BY <1>6, <1>13 DEF x, y

\* A new operand of && or ||: its jump has been emitted.
Tested(c, lbl) ==
  Config("undef", c.sp, c.cl, c.n,
         With(c.pc, c.n, Pc(Top(c).out, Top(c).open \cup {<<lbl, Top(c).out>>}, FALSE)), c.nv, c.vs)

TestedIs(c, lbl, d) ==
  /\ d.st = "undef" /\ d.sp = c.sp /\ d.cl = c.cl /\ d.n = c.n /\ d.nv = c.nv /\ d.vs = c.vs
  /\ Top(d).out = Top(c).out /\ Top(d).open = Top(c).open \cup {<<lbl, Top(c).out>>}
  /\ ~Top(d).blank /\ \A i \in 1 .. (c.n - 1) : d.pc[i] = c.pc[i]

LEMMA TestedOf ==
  ASSUME NEW c, c.n \in Nat, c.n >= 1, NEW lbl
  PROVE  TestedIs(c, lbl, Tested(c, lbl))
<1> DEFINE m == c.n
           x == Pc(Top(c).out, Top(c).open \cup {<<lbl, Top(c).out>>}, FALSE)
           d == Tested(c, lbl)
<1>1. m \in Nat /\ m >= 1
  OBVIOUS
<1>2. d.st = "undef" /\ d.sp = c.sp /\ d.cl = c.cl /\ d.n = m /\ d.pc = With(c.pc, m, x)
      /\ d.nv = c.nv /\ d.vs = c.vs
  BY DEF Tested, Config
<1>3. x.out = Top(c).out /\ x.open = Top(c).open \cup {<<lbl, Top(c).out>>} /\ ~x.blank
  BY DEF Pc
<1> HIDE DEF d, x
<1>4. d.pc[m] = x /\ \A i \in 1 .. (m - 1) : d.pc[i] = c.pc[i]
  BY <1>1, <1>2, WithAt
<1>5. Top(d) = x
  BY <1>2, <1>4 DEF Top
<1> QED
  BY <1>1, <1>2, <1>3, <1>4, <1>5 DEF TestedIs, d

LEMMA TermParts ==
  ASSUME NEW t, PlainTrees(t), NEW x, x.t = "term", NEW c, c.n \in Nat, c.cl \in Nat, c.sp \in Int,
         c.nv \in Nat, Top(c).out \in Shapes, NEW d, StepLogic(t, x, c, d), NEW lbl
  PROVE  \E b : StepExpr(t, x.e.a[x.i], Tested(c, lbl), b)
                /\ StepLogic(t, Loop("drop", x.e, lbl, x.i), b, d)
<1> DEFINE e == x.e
           y == e.a[x.i]
           z == Loop("drop", x.e, lbl, x.i)
           c1 == Tested(c, lbl)
<1>1. /\ e \in t.all /\ e.k \in {"and", "or"} /\ c.n >= 1 /\ c.st = "ax" /\ d.st = "ax"
      /\ x.i \in Nat /\ x.i >= 2 /\ x.i <= Len(e.a) /\ c.nv >= 1 /\ c.vs[c.nv] = Plainly
      /\ Below(c, d, c.n) /\ Lowered(c, d) /\ (e \in t.temps => d.cl = 0)
      /\ SameValues(c, d, c.nv)
      /\ d.sp = c.sp /\ Top(d).out = Top(c).out /\ Top(d).open \subseteq Top(c).open /\ ~Top(d).blank
  <2>1. Truth(x.t = "drop") = 0
    BY DEF Truth
  <2>2. 1 + 0 = 1 /\ c.nv - 0 = c.nv
    OBVIOUS
  <2> QED
    BY <2>1, <2>2 DEF StepLogic
<1>2. /\ y \in t.all /\ y \notin t.const /\ ~Procedure(y) /\ (y \in t.temps => e \in t.temps)
      /\ y \notin t.lead /\ y.k # "call" /\ ~IsTemp(y)
  <2>1. Len(e.a) \in Nat /\ x.i \in 1 .. Len(e.a) /\ x.i \in 2 .. Len(e.a)
    <3>1. Len(e.a) \in Nat
      BY <1>1, LogicTree
    <3> HIDE DEF e
    <3> QED
      BY <1>1, <3>1
  <2> HIDE DEF e
  <2> QED
    BY <1>1, <2>1, LogicTree
<1>3. TestedIs(c, lbl, c1)
  BY <1>1, TestedOf
<1> HIDE DEF c1
<1>4. /\ c1.st = "undef" /\ c1.sp = c.sp /\ c1.cl = c.cl /\ c1.n = c.n /\ c1.nv = c.nv /\ c1.vs = c.vs
      /\ Top(c1).out = Top(c).out /\ Top(c1).open = Top(c).open \cup {<<lbl, Top(c).out>>}
      /\ ~Top(c1).blank /\ \A i \in 1 .. (c.n - 1) : c1.pc[i] = c.pc[i]
  BY <1>3 DEF TestedIs
<1> DEFINE b == After(t, y, c1, d.cl)
           m == Adds(t, y, c1)
<1>5. d.cl \in Nat /\ d.cl <= c1.cl
  BY <1>1, <1>4 DEF Lowered
<1>6. c1.n \in Nat /\ c1.n >= 1 /\ c1.sp \in Int /\ c1.nv \in Nat /\ Top(c1).out \in Shapes
  BY <1>1, <1>4
<1>7. y \in t.empty => y \in t.lead \/ ~Top(c1).blank
  BY <1>4
<1> HIDE DEF e, y
<1>8. StepExpr(t, y, c1, b)
  BY <1>1, <1>2, <1>4, <1>5, <1>6, AfterStep
<1>9. Grown(t, y, c1, b) /\ b.cl = d.cl
  BY <1>2, <1>6, AfterGrown
<1>10. m = 0
  BY <1>2, <1>4 DEF Adds, Truth, Held
<1>11. z.t = "drop" /\ z.e = e /\ z.n = lbl /\ z.i = x.i
  BY DEF Loop, e
<1>12. Shown(t, y) = Plainly
  BY <1>2, ShownOf
<1> HIDE DEF b, m, z
<1>13. /\ b.st = "ax" /\ b.sp = c1.sp + 0 /\ b.n = c1.n /\ b.nv = c1.nv + 1
       /\ Top(b).out = Top(c1).out ++ Nums(0) /\ Top(b).open = Top(c1).open
       /\ \A i \in 1 .. (c1.n - 1) : b.pc[i] = c1.pc[i]
       /\ b.vs[c1.nv + 1] = Plainly /\ \A i \in 1 .. c1.nv : b.vs[i] = c1.vs[i]
  BY <1>2, <1>9, <1>10, <1>12 DEF Grown, m
<1>14. /\ b.st = "ax" /\ b.sp = c.sp /\ b.n = c.n /\ b.nv = c.nv + 1
       /\ Top(b).out = Top(c).out /\ Top(b).open = Top(c1).open
       /\ \A i \in 1 .. (c.n - 1) : b.pc[i] = c.pc[i]
       /\ b.vs[c.nv + 1] = Plainly /\ \A i \in 1 .. c.nv : b.vs[i] = c.vs[i]
  <2>1. Top(c1).out ++ Nums(0) = Top(c).out /\ c1.sp + 0 = c.sp
    BY <1>4, <1>6, ShapeNone
  <2> QED
    BY <1>4, <1>13, <2>1
<1>15. Below(b, d, b.n) /\ Lowered(b, d) /\ SameValues(b, d, b.nv - 1)
  <2>1. b.nv - 1 = c.nv
    BY <1>14
  <2> QED
    BY <1>1, <1>5, <1>9, <1>14, <2>1 DEF Below, Lowered, SameValues
<1>16. StepLogic(t, z, b, d)
  <2>1. b.n >= 1 /\ b.nv >= 1 + 1 /\ c.nv \in 1 .. c.nv /\ b.nv - 1 = c.nv
    BY <1>1, <1>14
  <2>2. Truth(z.t = "drop") = 1
    BY <1>11 DEF Truth
  <2>3. <<z.n, Top(b).out>> \in Top(b).open /\ Top(d).open \subseteq Top(b).open
    BY <1>1, <1>4, <1>11, <1>14
  <2>4. b.vs[b.nv] = Plainly /\ b.vs[b.nv - 1] = Plainly
    BY <1>1, <1>14, <2>1
  <2> QED
    BY <1>1, <1>11, <1>14, <1>15, <2>1, <2>2, <2>3, <2>4 DEF StepLogic
<1> QED
  BY <1>8, <1>16 DEF c1, e, y, z

JumpIns(jump, lbl) == Ins(jump, "", lbl)

LEMMA JumpMade ==
  ASSUME NEW a, IsSeq(a), NEW q, NEW st, NEW k, NEW sp \in Int, NEW l, NEW jump \in {"jz", "jnz"}, NEW lbl
  PROVE  EmitJump(G(st, a, q, k, sp, l), jump, lbl) = G("undef", a, q ## JumpIns(jump, lbl), k, sp, l)
<1> DEFINE i == Ins(jump, "", lbl)
           g == G(st, a, q, k, sp, l)
<1>1. i.op \in {"jz", "jnz"}
  BY DEF Ins
<1> HIDE DEF i
<1>2. Growth(i) = 0
  BY <1>1, GrowthOf
<1>3. Emit(g, i) = G(st, a, q ## i, k, sp + Growth(i), l)
  BY EmitMade
<1>4. sp + Growth(i) = sp
  BY <1>2
<1> HIDE DEF g
<1>5. At(Emit(g, i), "undef") = G("undef", a, q ## i, k, sp, l)
  BY <1>3, <1>4, AtMade
<1> QED
  BY <1>5 DEF EmitJump, i, g, JumpIns

\* A jump, or the label, behind the current piece.
LEMMA MarkOn ==
  ASSUME NEW g, NEW c, Matches(g, c), c.n >= 1, NEW l \in Nat, g.labels <= l, NEW i, Marking(i),
         NEW n, n = i.n, n \in (g.labels + 1) .. l \/ <<n, Top(c).out>> \in Top(c).open,
         NEW d, Below(c, d, c.n), Lowered(c, d), d.sp \in Int,
         Top(d).out = Top(c).out, Top(d).open \subseteq Top(c).open \cup {<<n, Top(c).out>>}
  PROVE  Matches(G(d.st, Under(g, c), g.arg[c.n] ## i, g.clean, d.sp, l), d)
<1> DEFINE p == g.arg[c.n]
           q == p ## i
           out == Top(c).out
           open == Top(c).open
<1>1. /\ c.n \in Nat /\ g.labels \in Nat /\ Piece(p, out, open) /\ out \in Shapes
      /\ Labels(p) \subseteq 1 .. g.labels /\ Empty(g.clean, c.cl)
  BY MatchesForm
<1> HIDE DEF p, out, open
<1>2. n \in Nat /\ (n \notin Labels(p) \/ <<n, out>> \in open)
  <2>1. CASE n \in (g.labels + 1) .. l
    <3>1. n \in Nat /\ n \notin 1 .. g.labels
      BY <1>1, <2>1
    <3> QED
      BY <1>1, <3>1
  <2>2. CASE <<n, out>> \in open
    <3>1. PICK B : Path(p, B) /\ Meets(p, B) /\ Opens(p, B, open) /\ B[Len(p)] = out
      BY <1>1 DEF Piece
    <3> DEFINE o == <<n, out>>
    <3>2. o[1] = n
      OBVIOUS
    <3> HIDE DEF o
    <3>3. o \in open
      BY <2>2 DEF o
    <3>4. o[1] \in Labels(p)
      BY <3>1, <3>3 DEF Opens
    <3>5. n \in 1 .. g.labels
      BY <1>1, <3>2, <3>4
    <3>6. n \in Nat
      BY <1>1, <3>5
    <3> QED
      BY <2>2, <3>6
  <2> QED
    BY <2>1, <2>2 DEF out, open
<1>3. /\ Piece(Append(p, i), out, open \cup {<<i.n, out>>})
      /\ Labels(Append(p, i)) = Labels(p) \cup {i.n}
  BY <1>1, <1>2, PieceMark
<1>4. Piece(q, out, open \cup {<<n, out>>}) /\ Labels(q) = Labels(p) \cup {n}
  BY <1>3 DEF ##
<1>5. q # << >>
  BY <1>1, PieceIsSeq, SeqSnoc
<1> HIDE DEF q
<1>6. Piece(q, Top(d).out, Top(d).open)
  BY <1>4, PieceCloses DEF out, open
<1>7. c.n >= 1 /\ c.n <= c.n + 1 /\ c.n \in c.n .. c.n
  BY <1>1
<1>8. Empty(g.clean, d.cl)
  BY <1>1, EmptyLowered
<1>9. \A x \in Labels(q) :
         x \in (g.labels + 1) .. l \/ \E j \in c.n .. c.n : x \in Labels(g.arg[j])
  <2>1. CASE n \in (g.labels + 1) .. l
    BY <1>4, <1>7, <2>1 DEF p
  <2>2. CASE <<n, out>> \in open
    <3>1. PICK B : Opens(p, B, open)
      BY <1>1 DEF Piece
    <3> DEFINE o == <<n, out>>
    <3>2. o[1] = n
      OBVIOUS
    <3> HIDE DEF o
    <3>3. o \in open
      BY <2>2 DEF o
    <3>4. n \in Labels(p)
      BY <3>1, <3>2, <3>3 DEF Opens
    <3> QED
      BY <1>4, <1>7, <3>4 DEF p
  <2> QED
    BY <2>1, <2>2 DEF out, open
<1>10. Matches(G(d.st, SubSeq(g.arg, 1, c.n - 1), q, g.clean, d.sp, l), d)
  BY <1>1, <1>5, <1>6, <1>7, <1>8, <1>9, MatchesFrom
<1> QED
  BY <1>10 DEF Under, q, p

\* LogTerm
LabelOf(x, g) == IF x.i = 2 THEN g.labels + 1 ELSE x.n

LEMMA TermCode ==
  ASSUME NEW t, NEW x, x.t = "term", NEW g, NEW c, Matches(g, c), NEW d, StepLogic(t, x, c, d),
         NEW jump \in {"jz", "jnz"}, NEW lbl, lbl = LabelOf(x, g)
  PROVE  Matches(EmitJump(IF x.i = 2 THEN [g EXCEPT !.labels = lbl] ELSE g, jump, lbl), Tested(c, lbl))
<1> DEFINE b == Tested(c, lbl)
           l == IF x.i = 2 THEN lbl ELSE g.labels
           i == Ins(jump, "", lbl)
           h == IF x.i = 2 THEN [g EXCEPT !.labels = lbl] ELSE g
           a == Under(g, c)
           p == g.arg[c.n]
<1>1. c.n >= 1 /\ c.st = "ax" /\ (x.i = 2 \/ <<x.n, Top(c).out>> \in Top(c).open)
  BY DEF StepLogic
<1>2. /\ g = G(c.st, a, p, g.clean, c.sp, g.labels) /\ IsSeq(a)
      /\ c.n \in Nat /\ c.sp \in Int /\ g.labels \in Nat /\ c.cl \in Nat
  BY <1>1, MatchesForm
<1>3. TestedIs(c, lbl, b)
  BY <1>1, <1>2, TestedOf
<1>4. Marking(i) /\ i.n = lbl
  BY DEF Marking, i, Ins
<1> HIDE DEF a, p, i, b
<1>5. h = G(c.st, a, p, g.clean, c.sp, l)
  <2>1. CASE x.i = 2
    <3> DEFINE s == a ## p
               k == g.clean
               l0 == g.labels
    <3>1. [Made(c.st, s, k, c.sp, l0) EXCEPT !.labels = lbl] = Made(c.st, s, k, c.sp, lbl)
      BY MadeLabels
    <3>2. g = Made(c.st, s, k, c.sp, l0)
      BY <1>2 DEF G
    <3> HIDE DEF s, k, l0
    <3> QED
      BY <2>1, <3>1, <3>2 DEF s, k, G
  <2>2. CASE x.i # 2
    BY <1>2, <2>2
  <2> QED
    BY <2>1, <2>2
<1>6. l \in Nat /\ g.labels <= l /\ (lbl \in (g.labels + 1) .. l \/ <<lbl, Top(c).out>> \in Top(c).open)
  BY <1>1, <1>2 DEF LabelOf
<1>7. Below(c, b, c.n) /\ Lowered(c, b) /\ b.sp = c.sp /\ b.st = "undef"
      /\ Top(b).out = Top(c).out /\ Top(b).open \subseteq Top(c).open \cup {<<lbl, Top(c).out>>}
  BY <1>2, <1>3 DEF TestedIs, Below, Lowered
<1> HIDE DEF l, h
<1>8. Matches(G(b.st, Under(g, c), g.arg[c.n] ## i, g.clean, b.sp, l), b)
  BY <1>1, <1>2, <1>4, <1>6, <1>7, MarkOn
<1>9. EmitJump(h, jump, lbl) = G("undef", a, p ## i, g.clean, c.sp, l)
  <2> DEFINE k == g.clean
             sp == c.sp
             st == c.st
  <2>1. sp \in Int /\ IsSeq(a)
    BY <1>2
  <2> HIDE DEF k, sp, st
  <2>2. EmitJump(G(st, a, p, k, sp, l), jump, lbl) = G("undef", a, p ## JumpIns(jump, lbl), k, sp, l)
    BY <2>1, JumpMade
  <2> QED
    BY <1>5, <2>2 DEF i, k, sp, st, JumpIns
<1> QED
  BY <1>7, <1>8, <1>9 DEF a, p, h, b

LEMMA LastMeans ==
  ASSUME NEW w, NEW c, Means(w, c), c.nv >= 1
  PROVE  Shows(Last(w), c.vs[c.nv]) /\ Front(w) = SubSeq(w, 1, c.nv - 1)
<1>1. c.nv \in Nat /\ Len(w) = c.nv /\ c.nv \in 1 .. c.nv
  BY DEF Means
<1> QED
  BY <1>1 DEF Means, Last, Front

LEMMA MeansFront ==
  ASSUME NEW w, NEW c, Means(w, c), c.nv >= 1, NEW d, SameValues(c, d, c.nv - 1)
  PROVE  Means(Front(w), d)
<1> DEFINE k == Len(w) - 1
<1>1. k \in Nat /\ k <= c.nv /\ k = c.nv - 1
  BY DEF Means
<1>2. Front(w) = SubSeq(w, 1, k)
  BY DEF Front
<1> HIDE DEF k
<1>3. SameValues(c, d, k)
  BY <1>1
<1>4. Means(SubSeq(w, 1, k), d)
  BY <1>1, <1>3, MeansCut
<1> QED
  BY <1>2, <1>4

LEMMA PlainlyShown ==
  ASSUME NEW v, Shows(v, Plainly)
  PROVE  v.const = FALSE
  BY DEF Shows, Plainly

LEMMA TermStep ==
  ASSUME NEW t, PlainTrees(t), NEW x, x.t = "term", NEW g, NEW c, Matches(g, c), NEW d,
         StepLogic(t, x, c, d), NEW w, Means(w, c), NEW jump \in {"jz", "jnz"},
         NEW lbl, lbl = LabelOf(x, g), NEW h,
         h = IF x.i = 2 THEN [g EXCEPT !.labels = lbl] ELSE g
  PROVE  /\ Last(w).const = FALSE
         /\ \E b, b1 : /\ Matches(EmitJump(h, jump, lbl), b) /\ Means(w, b)
                       /\ StepExpr(t, x.e.a[x.i], b, b1)
                       /\ StepLogic(t, Loop("drop", x.e, lbl, x.i), b1, d)
<1> DEFINE b == Tested(c, lbl)
<1>1. c.n >= 1 /\ c.nv >= 1 /\ c.vs[c.nv] = Plainly
  <2>1. Truth(x.t = "drop") = 0
    BY DEF Truth
  <2> QED
    BY <2>1 DEF StepLogic
<1>2. Last(w).const = FALSE
  BY <1>1, LastMeans, PlainlyShown
<1>3. Matches(EmitJump(h, jump, lbl), b)
  BY TermCode
<1>4. c.n \in Nat /\ c.cl \in Nat /\ c.sp \in Int /\ Top(c).out \in Shapes
  BY <1>1, MatchesForm
<1>5. c.nv \in Nat
  BY DEF Means
<1>6. TestedIs(c, lbl, b)
  BY <1>1, <1>4, TestedOf
<1>7. Means(w, b)
  <2>1. SameValues(c, b, c.nv)
    BY <1>6 DEF TestedIs, SameValues
  <2> QED
    BY <2>1, MeansSame
<1>8. \E b1 : StepExpr(t, x.e.a[x.i], b, b1) /\ StepLogic(t, Loop("drop", x.e, lbl, x.i), b1, d)
  BY <1>4, <1>5, TermParts
<1> QED
  BY <1>2, <1>3, <1>7, <1>8

\* DropOperand
AfterDrop(x) == Loop(IF x.i < Len(x.e.a) THEN "term" ELSE "label", x.e, x.n, x.i + 1)

LEMMA DropStep ==
  ASSUME NEW t, NEW x, x.t = "drop", NEW g, NEW c, Matches(g, c), NEW d, StepLogic(t, x, c, d),
         NEW w, Means(w, c), NEW y, y = AfterDrop(x), Len(x.e.a) \in Nat
  PROVE  \E b : Matches(g, b) /\ Means(Front(w), b) /\ StepLogic(t, y, b, d)
<1> DEFINE b == Config(c.st, c.sp, c.cl, c.n, c.pc, c.nv - 1, c.vs)
           m == Len(x.e.a)
<1>1. /\ x.e \in t.all /\ x.e.k \in {"and", "or"} /\ c.n >= 1 /\ c.st = "ax" /\ d.st = "ax"
      /\ x.i \in Nat /\ x.i >= 2 /\ x.i <= m /\ c.nv >= 2 /\ c.vs[c.nv] = Plainly
      /\ <<x.n, Top(c).out>> \in Top(c).open
      /\ Below(c, d, c.n) /\ Lowered(c, d) /\ (x.e \in t.temps => d.cl = 0)
      /\ SameValues(c, d, c.nv - 1) /\ c.vs[c.nv - 1] = Plainly
      /\ d.sp = c.sp /\ Top(d).out = Top(c).out /\ Top(d).open \subseteq Top(c).open /\ ~Top(d).blank
  <2>1. Truth(x.t = "drop") = 1
    BY DEF Truth
  <2>2. 1 + 1 = 2
    OBVIOUS
  <2> QED
    BY <2>1, <2>2 DEF StepLogic
<1>2. c.nv \in Nat /\ m \in Nat
  BY DEF Means
<1>3. /\ b.st = c.st /\ b.sp = c.sp /\ b.cl = c.cl /\ b.n = c.n /\ b.pc = c.pc /\ b.nv = c.nv - 1
      /\ b.vs = c.vs /\ Top(b) = Top(c)
  BY DEF Config, Top
<1> HIDE DEF b, m
<1>4. Matches(g, b)
  <2>1. c.cl \in Nat
    BY <1>1, MatchesForm
  <2>2. Below(c, b, c.n) /\ Lowered(c, b)
    BY <1>3, <2>1 DEF Below, Lowered
  <2> QED
    BY <1>1, <1>3, <2>2, MatchesStays
<1>5. Means(Front(w), b)
  <2>1. SameValues(c, b, c.nv - 1) /\ c.nv >= 1
    BY <1>1, <1>2, <1>3 DEF SameValues
  <2> QED
    BY <2>1, MeansFront
<1>6. /\ y.e = x.e /\ y.n = x.n /\ y.i = x.i + 1 /\ y.t \in {"term", "label"}
      /\ y.t = "term" => x.i < m
  BY DEF Loop, m, AfterDrop
<1>7. /\ y.i \in Nat /\ y.i >= 2 /\ (y.t # "label" => y.i <= m)
  BY <1>1, <1>2, <1>6
<1>8. Truth(y.t = "drop") = 0 /\ c.nv - 1 - 0 = c.nv - 1 /\ c.nv - 1 >= 1 + 0
  <2>1. Truth(y.t = "drop") = 0
    BY <1>6 DEF Truth
  <2> QED
    BY <1>1, <1>2, <2>1
<1>9. Below(b, d, b.n) /\ Lowered(b, d) /\ SameValues(b, d, b.nv)
  BY <1>1, <1>3 DEF Below, Lowered, SameValues
<1>10. StepLogic(t, y, b, d)
  BY <1>1, <1>3, <1>6, <1>7, <1>8, <1>9 DEF StepLogic, m
<1> QED
  BY <1>4, <1>5, <1>10

\* EndLogic
LEMMA LabelStep ==
  ASSUME NEW t, NEW x, x.t = "label", NEW g, NEW c, Matches(g, c), NEW d, StepLogic(t, x, c, d),
         NEW w, Means(w, c)
  PROVE  Matches(Emit(g, Ins("label", "", x.n)), d) /\ Means(w, d)
<1> DEFINE i == Ins("label", "", x.n)
           a == Under(g, c)
           p == g.arg[c.n]
           n == x.n
<1>1. /\ c.n >= 1 /\ c.st = "ax" /\ d.st = "ax" /\ x.i \in Nat /\ x.i >= 2
      /\ <<n, Top(c).out>> \in Top(c).open
      /\ Below(c, d, c.n) /\ Lowered(c, d) /\ SameValues(c, d, c.nv)
      /\ d.sp = c.sp /\ Top(d).out = Top(c).out /\ Top(d).open \subseteq Top(c).open
  <2>1. Truth(x.t = "drop") = 0
    BY DEF Truth
  <2>2. c.nv \in Nat
    BY DEF Means
  <2>3. c.nv - 0 = c.nv
    BY <2>2
  <2> QED
    BY <2>1, <2>3 DEF StepLogic
<1>2. /\ g = G(c.st, a, p, g.clean, c.sp, g.labels) /\ IsSeq(a)
      /\ c.n \in Nat /\ c.sp \in Int /\ g.labels \in Nat
  BY <1>1, MatchesForm
<1>3. Marking(i) /\ n = i.n /\ i.op = "label"
  BY DEF Marking, Ins
<1> HIDE DEF i, a, p, n
<1>4. Growth(i) = 0
  BY <1>3, GrowthOf
<1>5. Matches(G(d.st, Under(g, c), g.arg[c.n] ## i, g.clean, d.sp, g.labels), d)
  <2>1. g.labels <= g.labels /\ d.sp \in Int
    BY <1>1, <1>2
  <2>2. Top(d).open \subseteq Top(c).open \cup {<<n, Top(c).out>>}
    BY <1>1
  <2> QED
    BY <1>1, <1>2, <1>3, <2>1, <2>2, MarkOn
<1>6. Emit(g, i) = G(d.st, a, p ## i, g.clean, d.sp, g.labels)
  <2> DEFINE k == g.clean
             l == g.labels
             sp == c.sp
             st == c.st
  <2>1. IsSeq(a) /\ g = G(st, a, p, k, sp, l) /\ sp + Growth(i) = d.sp /\ st = d.st
    <3>1. sp \in Int
      BY <1>2
    <3> QED
      BY <1>1, <1>2, <1>4
  <2> HIDE DEF k, l, sp, st
  <2>2. Emit(G(st, a, p, k, sp, l), i) = G(st, a, p ## i, k, sp + Growth(i), l)
    BY <2>1, EmitMade
  <2> QED
    BY <2>1, <2>2 DEF k, l
<1>7. Means(w, d)
  BY <1>1, MeansSame
<1> QED
  BY <1>5, <1>6, <1>7 DEF i, a, p

-----------------------------------------------------------------------------
(* Calls.                                                                  *)

\* ParseFuncCall
LEMMA CallBegins ==
  ASSUME NEW t, PlainTrees(t), NEW e, e.k = "call", NEW c, c.n \in Nat, c.cl \in Nat,
         NEW d, StepExpr(t, e, c, d), NEW h, h = Held(c)
  PROVE  StepArgument(t, Argument(e, h, 1), c, d)
<1> DEFINE x == Argument(e, h, 1)
           r == Len(Left(e))
<1>1. /\ e \in t.all /\ c.n >= 1 /\ c.sp \in Int /\ c.nv \in Nat
      /\ e \in t.lead => Top(c).out = << >> /\ Top(c).open = {}
      /\ e \in t.empty /\ Top(c).blank => c.n = 1
      /\ Procedure(e) => c.st # "ax"
      /\ Below(c, d, c.n) /\ Lowered(c, d) /\ (e \in t.temps => d.cl = 0)
      /\ IF Procedure(e) THEN SameValues(c, d, c.nv) ELSE Yields(c, d, c.nv, Shown(t, e))
  BY DEF StepExpr
<1>2. e \notin t.const /\ e \in t.lead /\ (e.a = << >> => e \in t.empty) /\ Len(e.a) \in Nat
  BY <1>1, TreeKind, TreeSets, TreeOperands
<1>3. /\ d.st = IF Procedure(e) /\ e.a = << >> THEN c.st ELSE "sp"
      /\ d.sp = c.sp + h + r
      /\ Top(d) = Pc((Top(c).out ++ Nums(h)) ++ Left(e), Top(c).open, FALSE)
  BY <1>2 DEF StepExpr
<1>4. h \in {0, 1} /\ (c.st # "ax" => h = 0) /\ r \in Nat
  BY LeftIs DEF Held, Truth
<1>5. x.e = e /\ x.n = h /\ x.i = 1 /\ (x.t = "arg" <=> 1 <= Len(e.a))
  BY DEF Argument, Loop
<1> HIDE DEF x, r
<1>6. Top(d) = Pc(Nums(h) ++ Left(e), {}, FALSE)
  <2>1. Nums(h) \in Shapes
    BY <1>4, NumsType
  <2>2. Top(c).out ++ Nums(h) = Nums(h)
    BY <1>1, <1>2, <2>1, ShapeEmpty
  <2> QED
    BY <1>1, <1>2, <1>3, <2>2
<1>7. FirstPiece(c, 0) = c.n
  BY DEF FirstPiece
<1>8. 0 \in 0 .. Len(e.a) /\ 1 - 1 = 0 /\ 1 \in 1 .. (Len(e.a) + 1) /\ c.nv - 0 = c.nv
      /\ c.sp - 0 + h + r = c.sp + h + r /\ 0 <= c.nv /\ 0 <= c.cl /\ \A j : j \in 1 .. 0 => FALSE
  BY <1>1, <1>2, <1>4
<1>9. Argued(t, e, h, 0, c, d)
  <2> DEFINE none == 0
  <2>1. none = 0
    OBVIOUS
  <2>2. \A j : j \in 1 .. none => FALSE
    BY <1>8
  <2>3. none \in 0 .. Len(e.a) /\ c.nv - none = c.nv /\ c.sp - none + h + r = d.sp
        /\ none <= c.nv /\ none <= c.cl /\ FirstPiece(c, none) = c.n
    BY <1>3, <1>7, <1>8
  <2> HIDE DEF none
  <2>4. Argued(t, e, h, none, c, d)
    BY <1>1, <1>2, <1>3, <1>4, <1>6, <2>1, <2>2, <2>3 DEF Argued, r
  <2> QED
    BY <2>4 DEF none
<1>10. StepArgument(t, x, c, d)
  <2> DEFINE m == x.i - 1
  <2>1. x.i \in 1 .. (Len(e.a) + 1) /\ (x.t = "arg" <=> x.i <= Len(e.a)) /\ m = 0
    BY <1>5, <1>8
  <2> HIDE DEF m
  <2>2. Argued(t, x.e, x.n, m, c, d)
    BY <1>5, <1>9, <2>1
  <2> QED
    BY <1>5, <2>1, <2>2 DEF StepArgument, m
<1> QED
  BY <1>10 DEF x

\* Another argument lies on the stack.
WordFor(e) == WordOf(IF IsTemp(e) THEN "str" ELSE "int")

Laid(t, y, i, c, b) ==
  /\ b.st = "sp" /\ b.sp = c.sp + 1 /\ b.n = (IF i > 1 THEN c.n + 1 ELSE c.n)
  /\ \A k \in 1 .. (b.n - 1) : b.pc[k] = c.pc[k]
  /\ Top(b).out = <<WordFor(y)>> /\ Top(b).open = {}
  /\ b.nv = c.nv + 1 /\ b.vs[c.nv + 1] = Shown(t, y) /\ \A k \in 1 .. c.nv : b.vs[k] = c.vs[k]
  /\ b.cl \in Nat /\ i <= b.cl

ArguedPieces(t, e, m, c) ==
  /\ \A j \in 1 .. m : LET p == c.pc[FirstPiece(c, m) + j - 1] IN p.out = <<WordFor(e.a[j])>> /\ p.open = {}
  /\ m <= c.nv /\ \A j \in 1 .. m : c.vs[c.nv - m + j] = Shown(t, e.a[j])

LEMMA LaidPieces ==
  ASSUME NEW t, NEW e, NEW i \in Nat, i >= 1, NEW c, c.n \in Nat, c.nv \in Nat,
         ArguedPieces(t, e, i - 1, c), NEW b, Laid(t, e.a[i], i, c, b), FirstPiece(c, i - 1) >= 1
  PROVE  ArguedPieces(t, e, i, b) /\ FirstPiece(b, i) = FirstPiece(c, i - 1)
<1> DEFINE m == i - 1
           f == FirstPiece(c, m)
<1>1. m \in Nat /\ i = m + 1
  OBVIOUS
<1> HIDE DEF m
<1>2. f = c.n - (IF m > 1 THEN m ELSE 1) + 1 /\ f >= 1
  BY DEF FirstPiece, m
<1>3. FirstPiece(b, i) = b.n - (IF i > 1 THEN i ELSE 1) + 1 /\ b.n = (IF i > 1 THEN c.n + 1 ELSE c.n)
  BY DEF FirstPiece, Laid
<1> HIDE DEF f
<1>4. FirstPiece(b, i) = f /\ b.n \in Nat /\ f \in Nat /\ b.n >= 1
  BY <1>1, <1>2, <1>3
<1>5. f + i - 1 = b.n
  BY <1>1, <1>2, <1>3
<1>6. \A j \in 1 .. m : LET p == c.pc[f + j - 1] IN p.out = <<WordFor(e.a[j])>> /\ p.open = {}
  BY DEF ArguedPieces, m, f
<1>7. m <= c.nv /\ \A j \in 1 .. m : c.vs[c.nv - m + j] = Shown(t, e.a[j])
  BY DEF ArguedPieces, m
<1>8. ASSUME NEW j \in 1 .. i
      PROVE  LET p == b.pc[f + j - 1] IN p.out = <<WordFor(e.a[j])>> /\ p.open = {}
  <2>1. CASE j = i
    BY <1>5, <2>1 DEF Laid, Top
  <2>2. CASE j # i
    <3> DEFINE k == f + j - 1
    <3>1. j \in 1 .. m /\ k \in 1 .. (b.n - 1)
      BY <1>1, <1>2, <1>4, <1>5, <2>2
    <3> HIDE DEF k
    <3>2. b.pc[k] = c.pc[k]
      BY <3>1 DEF Laid
    <3>3. c.pc[k].out = <<WordFor(e.a[j])>> /\ c.pc[k].open = {}
      BY <1>6, <3>1 DEF k
    <3> QED
      BY <3>2, <3>3 DEF k
  <2> QED
    BY <2>1, <2>2
<1>9. b.nv = c.nv + 1 /\ i <= b.nv
  BY <1>1, <1>7 DEF Laid
<1>10. ASSUME NEW j \in 1 .. i
       PROVE  b.vs[b.nv - i + j] = Shown(t, e.a[j])
  <2>1. CASE j = i
    <3>1. b.nv - i + j = c.nv + 1
      BY <1>9, <2>1
    <3> QED
      BY <2>1, <3>1 DEF Laid
  <2>2. CASE j # i
    <3> DEFINE k == c.nv - m + j
    <3>1. j \in 1 .. m /\ k \in 1 .. c.nv /\ b.nv - i + j = k
      BY <1>1, <1>7, <1>9, <2>2
    <3> HIDE DEF k
    <3>2. b.vs[k] = c.vs[k]
      BY <3>1 DEF Laid
    <3>3. c.vs[k] = Shown(t, e.a[j])
      BY <1>7, <3>1 DEF k
    <3> QED
      BY <3>1, <3>2, <3>3
  <2> QED
    BY <2>1, <2>2
<1> QED
  BY <1>4, <1>8, <1>9, <1>10 DEF ArguedPieces, f, m

\* The rest of what Argued says.
ArguedRest(t, e, h, m, c, d) ==
  /\ e \in t.all /\ e.k = "call" /\ m \in 0 .. Len(e.a) /\ h \in {0, 1}
  /\ IF m = 0 THEN /\ h = Held(c) /\ Top(c).out = << >> /\ Top(c).open = {}
                   /\ e.a = << >> /\ Top(c).blank => c.n = 1
              ELSE c.st = "sp"
  /\ m <= c.cl /\ Lowered(c, d) /\ (e \in t.temps => d.cl = 0)
  /\ Below(c, d, FirstPiece(c, m)) /\ FirstPiece(c, m) >= 1
  /\ IF Procedure(e) THEN h = 0 /\ SameValues(c, d, c.nv - m)
     ELSE Yields(c, d, c.nv - m, Shown(t, e))
  /\ d.st = IF Procedure(e) /\ e.a = << >> THEN c.st ELSE "sp"
  /\ d.sp = c.sp - m + h + Len(Left(e))
  /\ Top(d) = Pc(Nums(h) ++ Left(e), {}, FALSE)

LEMMA ArguedSplit ==
  \A t, e, h, m, c, d : Argued(t, e, h, m, c, d) <=> ArguedRest(t, e, h, m, c, d) /\ ArguedPieces(t, e, m, c)
<1> SUFFICES ASSUME NEW t, NEW e, NEW h, NEW m, NEW c, NEW d
             PROVE  Argued(t, e, h, m, c, d) <=> ArguedRest(t, e, h, m, c, d) /\ ArguedPieces(t, e, m, c)
  OBVIOUS
<1> QED
  BY DEF Argued, ArguedRest, ArguedPieces, WordFor

LEMMA LaidRest ==
  ASSUME NEW t, NEW e, NEW h, NEW i \in 1 .. Len(e.a), Len(e.a) \in Nat, NEW c, NEW d,
         c.n \in Nat, c.nv \in Nat, c.sp \in Int, NEW m, m = i - 1, ArguedRest(t, e, h, m, c, d), m <= c.nv,
         NEW b, Laid(t, e.a[i], i, c, b), d.cl <= b.cl, FirstPiece(b, i) = FirstPiece(c, m)
  PROVE  ArguedRest(t, e, h, i, b, d)
<1> DEFINE f == FirstPiece(c, m)
           r == Len(Left(e))
<1>1. /\ e \in t.all /\ e.k = "call" /\ h \in {0, 1}
      /\ Lowered(c, d) /\ (e \in t.temps => d.cl = 0) /\ Below(c, d, f) /\ f >= 1
      /\ IF Procedure(e) THEN h = 0 /\ SameValues(c, d, c.nv - m) ELSE Yields(c, d, c.nv - m, Shown(t, e))
      /\ d.st = IF Procedure(e) /\ e.a = << >> THEN c.st ELSE "sp"
      /\ d.sp = c.sp - m + h + r
      /\ Top(d) = Pc(Nums(h) ++ Left(e), {}, FALSE)
  BY DEF ArguedRest
<1>2. e.a # << >> /\ i \in Nat /\ i >= 1 /\ i # 0 /\ i \in 0 .. Len(e.a)
  BY SeqOfNone
<1>3. /\ b.st = "sp" /\ b.sp = c.sp + 1 /\ b.n = (IF i > 1 THEN c.n + 1 ELSE c.n)
      /\ \A k \in 1 .. (b.n - 1) : b.pc[k] = c.pc[k]
      /\ b.nv = c.nv + 1 /\ \A k \in 1 .. c.nv : b.vs[k] = c.vs[k]
      /\ b.cl \in Nat /\ i <= b.cl
  BY DEF Laid
<1>4. f = c.n - (IF m > 1 THEN m ELSE 1) + 1
  BY DEF FirstPiece
<1>5. r \in Nat
  BY LeftIs
<1> HIDE DEF f, r
<1>a. m \in Nat /\ i = m + 1 /\ m <= c.nv
  BY <1>2
<1>6. f - 1 <= b.n - 1 /\ f \in Int /\ b.n \in Nat
  <2>1. b.n = IF i > 1 THEN c.n + 1 ELSE c.n
    BY <1>3
  <2>2. CASE m > 1
    <3> DEFINE p == c.n
               q == b.n
    <3>1. f = p - m + 1 /\ q = p + 1 /\ p \in Nat
      BY <1>4, <1>a, <2>1, <2>2
    <3>2. m \in Nat /\ m > 1
      BY <1>a, <2>2
    <3> HIDE DEF p, q
    <3>3. f - 1 <= q - 1
      BY <3>1, <3>2
    <3>4. f \in Int /\ q \in Nat
      BY <3>1, <3>2
    <3> QED
      BY <3>3, <3>4 DEF q
  <2>3. CASE ~(m > 1)
    <3> DEFINE p == c.n
               q == b.n
    <3>1. f = p - 1 + 1 /\ q \in {p, p + 1} /\ p \in Nat
      BY <1>4, <2>1, <2>3
    <3> HIDE DEF p, q
    <3>2. f - 1 <= q - 1 /\ f \in Int /\ q \in Nat
      BY <3>1
    <3> QED
      BY <3>2 DEF q
  <2> QED
    BY <2>2, <2>3
<1>7. b.nv - i = c.nv - m /\ b.sp - i + h + r = c.sp - m + h + r /\ c.nv - m <= c.nv
      /\ c.nv - m \in Nat
  <2>1. h \in Int /\ b.sp = c.sp + 1 /\ b.nv = c.nv + 1
    BY <1>1, <1>3
  <2>2. b.nv - i = c.nv - m /\ c.nv - m <= c.nv /\ c.nv - m \in Nat
    BY <1>a, <2>1
  <2>3. b.sp - i + h + r = c.sp - m + h + r
    BY <1>5, <1>a, <2>1
  <2> QED
    BY <2>2, <2>3
<1>8. Below(b, d, f)
  <2>1. \A k \in 1 .. (f - 1) : k \in 1 .. (b.n - 1)
    BY <1>6
  <2> QED
    BY <1>1, <1>3, <2>1 DEF Below
<1> DEFINE j == c.nv - m
<1>9. \A k \in 1 .. j : k \in 1 .. c.nv
  BY <1>7
<1>10. j = b.nv - i
  BY <1>7
<1> HIDE DEF j
<1>11. IF Procedure(e) THEN h = 0 /\ SameValues(b, d, j) ELSE Yields(b, d, j, Shown(t, e))
  <2>1. IF Procedure(e) THEN h = 0 /\ SameValues(c, d, j) ELSE Yields(c, d, j, Shown(t, e))
    BY <1>1 DEF j
  <2> QED
    BY <1>3, <1>9, <2>1 DEF SameValues, Yields
<1>12. Lowered(b, d)
  BY <1>1 DEF Lowered
<1>13. d.sp = b.sp - i + h + r
  BY <1>1, <1>7
<1> QED
  BY <1>1, <1>2, <1>3, <1>8, <1>10, <1>11, <1>12, <1>13 DEF ArguedRest, f, r

\* The piece in which the code of an argument begins.
Opened(c, f) ==
  Config("undef", c.sp, c.cl, f, With(c.pc, f, Pc(<< >>, {}, FALSE)), c.nv, c.vs)

OpenedIs(c, f, d) ==
  /\ d.st = "undef" /\ d.sp = c.sp /\ d.cl = c.cl /\ d.n = f /\ d.nv = c.nv /\ d.vs = c.vs
  /\ Top(d).out = << >> /\ Top(d).open = {} /\ ~Top(d).blank
  /\ \A i \in 1 .. (f - 1) : d.pc[i] = c.pc[i]

LEMMA OpenedOf ==
  ASSUME NEW c, NEW f \in Nat, f >= 1
  PROVE  OpenedIs(c, f, Opened(c, f))
<1> DEFINE x == Pc(<< >>, {}, FALSE)
           d == Opened(c, f)
<1>2. d.st = "undef" /\ d.sp = c.sp /\ d.cl = c.cl /\ d.n = f /\ d.pc = With(c.pc, f, x)
      /\ d.nv = c.nv /\ d.vs = c.vs
  BY DEF Opened, Config
<1>3. x.out = << >> /\ x.open = {} /\ ~x.blank
  BY DEF Pc
<1> HIDE DEF d, x
<1>4. d.pc[f] = x /\ \A i \in 1 .. (f - 1) : d.pc[i] = c.pc[i]
  BY <1>2, WithAt
<1>5. Top(d) = x
  BY <1>2, <1>4 DEF Top
<1> QED
  BY <1>2, <1>3, <1>4, <1>5 DEF OpenedIs, d

\* The argument is pushed.
PassedTo(y, c) ==
  Config("sp", c.sp + Truth(y.k # "call"), c.cl + 1, c.n,
         With(c.pc, c.n, Pc(<<WordFor(y)>>, {}, FALSE)), c.nv, c.vs)

PassedIs(y, c, d) ==
  /\ d.st = "sp" /\ d.sp = c.sp + Truth(y.k # "call") /\ d.cl = c.cl + 1 /\ d.n = c.n
  /\ d.nv = c.nv /\ d.vs = c.vs /\ Top(d) = Pc(<<WordFor(y)>>, {}, FALSE)
  /\ Top(d).out = <<WordFor(y)>> /\ Top(d).open = {}
  /\ \A i \in 1 .. (c.n - 1) : d.pc[i] = c.pc[i]

LEMMA PassedOf ==
  ASSUME NEW y, NEW c, c.n \in Nat, c.n >= 1
  PROVE  PassedIs(y, c, PassedTo(y, c))
<1> DEFINE f == c.n
           x == Pc(<<WordFor(y)>>, {}, FALSE)
           d == PassedTo(y, c)
<1>1. f \in Nat /\ f >= 1
  OBVIOUS
<1>2. d.st = "sp" /\ d.sp = c.sp + Truth(y.k # "call") /\ d.cl = c.cl + 1 /\ d.n = f
      /\ d.pc = With(c.pc, f, x) /\ d.nv = c.nv /\ d.vs = c.vs
  BY DEF PassedTo, Config
<1>3. x.out = <<WordFor(y)>> /\ x.open = {}
  BY DEF Pc
<1> HIDE DEF d, x, f
<1>4. d.pc[f] = x /\ \A i \in 1 .. (f - 1) : d.pc[i] = c.pc[i]
  BY <1>1, <1>2, WithAt
<1>5. Top(d) = x
  BY <1>2, <1>4 DEF Top
<1> QED
  BY <1>2, <1>3, <1>4, <1>5 DEF PassedIs, d, x, f

LEMMA ArgumentTree ==
  ASSUME NEW t, PlainTrees(t), NEW e \in t.all, e.k = "call", NEW i \in 1 .. Len(e.a)
  PROVE  /\ e.a[i] \in t.all /\ ~Procedure(e.a[i]) /\ (e.a[i] \in t.temps => e \in t.temps)
         /\ IsTemp(e.a[i]) => e \in t.temps
         /\ e.a[i] \in t.temps => i = 1
         /\ \A j \in 1 .. Len(e.a) : IsTemp(e.a[i]) /\ IsTemp(e.a[j]) => i = j
<1>1. PlainOperands(t, e) /\ Len(e.a) \in Nat
  BY TreeOperands
<1>2. /\ \A k, j \in 1 .. Len(e.a) : IsTemp(e.a[k]) /\ IsTemp(e.a[j]) => k = j
      /\ \A k \in 2 .. Len(e.a) : e.a[k] \notin t.temps
  BY <1>1 DEF PlainOperands
<1>3. i # 1 => i \in 2 .. Len(e.a)
  BY <1>1
<1> QED
  BY <1>2, <1>3, TreeOperands, TreeSets

\* An argument brings one word, with the push behind it.
Came(t, y, c, cl, d) ==
  /\ d.st = (IF y \in t.const THEN "undef" ELSE IF y.k = "call" THEN "sp" ELSE "ax")
  /\ d.sp + Truth(y.k # "call") = c.sp + 1 /\ d.cl = cl /\ d.n = c.n
  /\ \A i \in 1 .. (c.n - 1) : d.pc[i] = c.pc[i]
  /\ Top(d).out = Left(y) /\ Top(d).open = {}
  /\ d.nv = c.nv + 1 /\ d.vs[c.nv + 1] = Shown(t, y) /\ \A i \in 1 .. c.nv : d.vs[i] = c.vs[i]

LEMMA ArgumentGrown ==
  ASSUME NEW t, PlainTrees(t), NEW y \in t.all, ~Procedure(y), NEW c, NEW cl \in Nat,
         c.st = "undef", c.n \in Nat, c.n >= 1, c.sp \in Int, c.nv \in Nat,
         Top(c).out = << >>, Top(c).open = {}
  PROVE  Came(t, y, c, cl, After(t, y, c, cl))
<1> DEFINE d == After(t, y, c, cl)
           n == c.n
           m == c.nv + 1
           x == IF y \in t.const THEN Top(c)
                ELSE Pc((Top(c).out ++ Nums(Held(c))) ++ Left(y), Top(c).open, FALSE)
           s == Shown(t, y)
<1>1. n \in Nat /\ n >= 1 /\ m \in Nat /\ m >= 1 /\ m - 1 = c.nv
  OBVIOUS
<1>2. /\ d.st = (IF y \in t.const THEN c.st ELSE IF y.k = "call" THEN "sp" ELSE "ax")
      /\ d.sp = (IF y \in t.const THEN c.sp ELSE c.sp + Held(c) + Len(Left(y)))
      /\ d.cl = cl /\ d.n = n /\ d.pc = With(c.pc, n, x) /\ d.nv = m /\ d.vs = With(c.vs, m, s)
  BY DEF After, Config
<1>3. Held(c) = 0
  BY DEF Held, Truth
<1>4. Left(y) \in Shapes /\ (y.k # "call" => Left(y) = << >> /\ Len(Left(y)) = 0)
      /\ (y.k = "call" => Len(Left(y)) = 1) /\ (y \in t.const => y.k # "call")
  BY LeftIs, TreeKind
<1>5. x.out = Left(y) /\ x.open = {}
  <2>1. CASE y \in t.const
    BY <1>4, <2>1
  <2>2. CASE y \notin t.const
    <3>1. (Top(c).out ++ Nums(Held(c))) ++ Left(y) = Left(y)
      <4>1. Top(c).out ++ Nums(Held(c)) = << >>
        BY <1>3, NoNums, ShapeEmpty
      <4> QED
        BY <1>4, <4>1, ShapeEmpty
    <3> QED
      BY <2>2, <3>1 DEF Pc
  <2> QED
    BY <2>1, <2>2
<1> HIDE DEF d, x, s, n, m
<1>6. d.pc[n] = x /\ \A i \in 1 .. (n - 1) : d.pc[i] = c.pc[i]
  BY <1>1, <1>2, WithAt
<1>7. d.vs[m] = s /\ \A i \in 1 .. (m - 1) : d.vs[i] = c.vs[i]
  BY <1>1, <1>2, WithAt
<1>8. Top(d) = x
  BY <1>2, <1>6 DEF Top
<1>9. d.sp + Truth(y.k # "call") = c.sp + 1
  <2>1. CASE y.k = "call"
    <3>1. Truth(y.k # "call") = 0 /\ y \notin t.const
      BY <1>4, <2>1 DEF Truth
    <3>2. d.sp = c.sp + 0 + 1
      BY <1>2, <1>3, <1>4, <2>1, <3>1
    <3> QED
      BY <3>1, <3>2
  <2>2. CASE y.k # "call"
    <3>1. Truth(y.k # "call") = 1
      BY <2>2 DEF Truth
    <3>2. d.sp = c.sp \/ d.sp = c.sp + 0 + 0
      BY <1>2, <1>3, <1>4, <2>2
    <3> QED
      BY <3>1, <3>2
  <2> QED
    BY <2>1, <2>2
<1>10. \A i \in 1 .. c.nv : d.vs[i] = c.vs[i]
  BY <1>1, <1>7
<1> QED
  BY <1>2, <1>5, <1>6, <1>7, <1>8, <1>9, <1>10 DEF d, s, n, m, Came

\* BeginArgument
LEMMA ArgumentParts ==
  ASSUME NEW t, PlainTrees(t), NEW e, NEW h, NEW i \in 1 .. Len(e.a), NEW c,
         c.n \in Nat, c.sp \in Int, c.nv \in Nat, c.cl \in Nat,
         NEW d, Argued(t, e, h, i - 1, c, d), NEW f, f = (IF i > 1 THEN c.n + 1 ELSE c.n)
  PROVE  \E b1 : /\ StepExpr(t, e.a[i], Opened(c, f), b1)
                 /\ StepPass(t, Loop("pass", e, h, i), b1, d)
<1> DEFINE y == e.a[i]
           m == i - 1
           b0 == Opened(c, f)
           cl == IF i > 1 THEN c.cl ELSE d.cl
           b1 == After(t, y, b0, cl)
           b == PassedTo(y, b1)
           x == Loop("pass", e, h, i)
<1>1. ArguedRest(t, e, h, m, c, d) /\ ArguedPieces(t, e, m, c)
  BY ArguedSplit
<1>2. x.e = e /\ x.n = h /\ x.i = i
  BY DEF Loop
<1> HIDE DEF x, b, b1, b0, y
<1>3. /\ e \in t.all /\ e.k = "call" /\ m <= c.cl /\ Lowered(c, d) /\ (e \in t.temps => d.cl = 0)
      /\ FirstPiece(c, m) >= 1
  BY <1>1 DEF ArguedRest
<1>4. Len(e.a) \in Nat /\ m \in Nat /\ i \in Nat /\ m <= c.nv
  <2>1. Len(e.a) \in Nat
    BY <1>3, TreeOperands
  <2>2. m <= c.nv
    BY <1>1 DEF ArguedPieces
  <2> QED
    BY <2>1, <2>2
<1>5. f \in Nat /\ f >= 1
  <2>1. FirstPiece(c, m) = c.n - (IF m > 1 THEN m ELSE 1) + 1
    BY DEF FirstPiece
  <2> HIDE DEF m
  <2> QED
    BY <1>3, <1>4, <2>1
<1>6. /\ y \in t.all /\ ~Procedure(y) /\ (y \in t.temps => e \in t.temps) /\ (y \in t.temps => i = 1)
  BY <1>3, ArgumentTree DEF y
<1>7. cl \in Nat /\ cl <= c.cl /\ (y \in t.temps => cl = 0) /\ d.cl <= cl + 1 /\ i <= cl + 1
  BY <1>3, <1>4, <1>6 DEF Lowered
<1> HIDE DEF cl, m
<1>8. OpenedIs(c, f, b0)
  BY <1>5, OpenedOf DEF b0
<1>9. /\ b0.st = "undef" /\ b0.sp = c.sp /\ b0.cl = c.cl /\ b0.n = f /\ b0.nv = c.nv /\ b0.vs = c.vs
      /\ Top(b0).out = << >> /\ Top(b0).open = {} /\ ~Top(b0).blank
      /\ \A k \in 1 .. (f - 1) : b0.pc[k] = c.pc[k]
  BY <1>8 DEF OpenedIs
<1>10. << >> \in Shapes
  BY ShapeEmpty
<1>11. StepExpr(t, y, b0, b1)
  BY <1>5, <1>6, <1>7, <1>9, <1>10, AfterStep DEF b1
<1>12. /\ b1.st = (IF y \in t.const THEN "undef" ELSE IF y.k = "call" THEN "sp" ELSE "ax")
       /\ b1.sp + Truth(y.k # "call") = c.sp + 1 /\ b1.cl = cl /\ b1.n = f
       /\ \A k \in 1 .. (f - 1) : b1.pc[k] = b0.pc[k]
       /\ Top(b1).out = Left(y) /\ Top(b1).open = {}
       /\ b1.nv = c.nv + 1 /\ b1.vs[c.nv + 1] = Shown(t, y) /\ \A k \in 1 .. c.nv : b1.vs[k] = c.vs[k]
  <2> DEFINE z == After(t, y, b0, cl)
  <2>1. b0.n \in Nat /\ b0.n >= 1 /\ b0.sp \in Int /\ b0.nv \in Nat
    BY <1>5, <1>9
  <2>2. Came(t, y, b0, cl, z)
    BY <1>6, <1>7, <1>9, <2>1, ArgumentGrown
  <2> HIDE DEF z
  <2>3. b1 = z
    BY DEF b1, z
  <2> QED
    BY <1>9, <2>2, <2>3 DEF Came
<1>13. PassedIs(y, b1, b)
  BY <1>5, <1>12, PassedOf DEF b
<1>14. Passed(t, y, b1, b)
  <2>1. b1.nv >= 1 /\ b1.n >= 1 /\ b1.vs[b1.nv] = Shown(t, y)
    BY <1>5, <1>12
  <2>2. Below(b1, b, b1.n) /\ SameValues(b1, b, b1.nv)
    BY <1>13 DEF PassedIs, Below, SameValues
  <2> QED
    BY <1>6, <1>12, <1>13, <2>1, <2>2 DEF Passed, PassedIs, WordFor
<1>15. Laid(t, y, i, c, b)
  <2>1. /\ b.st = "sp" /\ b.sp = c.sp + 1 /\ b.cl = cl + 1 /\ b.n = f
        /\ b.nv = c.nv + 1 /\ b.vs = b1.vs
        /\ Top(b).out = <<WordFor(y)>> /\ Top(b).open = {}
        /\ \A k \in 1 .. (f - 1) : b.pc[k] = b1.pc[k]
    BY <1>12, <1>13 DEF PassedIs
  <2>2. b.cl \in Nat /\ i <= b.cl
    BY <1>7, <2>1
  <2> QED
    BY <1>9, <1>12, <2>1, <2>2 DEF Laid
<1>16. ArguedPieces(t, e, i, b) /\ FirstPiece(b, i) = FirstPiece(c, m)
  <2>1. i >= 1
    OBVIOUS
  <2> QED
    BY <1>1, <1>3, <1>4, <1>15, <2>1, LaidPieces DEF m, y
<1>17. d.cl <= b.cl
  BY <1>7, <1>12, <1>13 DEF PassedIs
<1>18. ArguedRest(t, e, h, i, b, d)
  BY <1>1, <1>4, <1>15, <1>16, <1>17, LaidRest DEF m, y
<1>19. Argued(t, e, h, i, b, d)
  BY <1>16, <1>18, ArguedSplit
<1>20. StepPass(t, x, b1, d)
  BY <1>2, <1>14, <1>19 DEF StepPass, y
<1> QED
  BY <1>11, <1>20 DEF b0, x, y

\* A new piece that is q.
LEMMA MatchesNewPiece ==
  ASSUME NEW g, NEW c, Matches(g, c), NEW d, Below(c, d, c.n + 1), Lowered(c, d), d.sp \in Int,
         NEW q, Piece(q, Top(d).out, Top(d).open), q = << >> => Top(d).blank, Labels(q) = {}
  PROVE  Matches(G(d.st, g.arg, q, g.clean, d.sp, g.labels), d)
<1> DEFINE f == c.n + 1
<1>1. c.n \in Nat /\ IsSeq(g.arg) /\ Len(g.arg) = c.n /\ g.labels \in Nat /\ Empty(g.clean, c.cl)
  BY DEF Matches
<1>2. SubSeq(g.arg, 1, f - 1) = g.arg
  <2>1. f - 1 = c.n
    BY <1>1
  <2> HIDE DEF f
  <2> QED
    BY <1>1, <2>1, SeqWhole
<1>3. Empty(g.clean, d.cl)
  BY <1>1, EmptyLowered
<1>5. f \in Nat /\ f >= 1 /\ f <= c.n + 1 /\ g.labels <= g.labels
  BY <1>1
<1>6. \A x \in Labels(q) :
         x \in (g.labels + 1) .. g.labels \/ \E i \in f .. c.n : x \in Labels(g.arg[i])
  OBVIOUS
<1>8. Below(c, d, f)
  OBVIOUS
<1> HIDE DEF f
<1>7. Matches(G(d.st, SubSeq(g.arg, 1, f - 1), q, g.clean, d.sp, g.labels), d)
  BY <1>1, <1>3, <1>5, <1>6, <1>8, MatchesFrom
<1> QED
  BY <1>2, <1>7

Comment == Ins("comment", "", 0)

LEMMA CommentMade ==
  ASSUME NEW a, IsSeq(a), NEW q, NEW st, NEW k, NEW sp \in Int, NEW l
  PROVE  Emit(At(G(st, a, q, k, sp, l), "undef"), Comment) = G("undef", a, q ## Comment, k, sp, l)
<1> DEFINE i == Comment
           to == "undef"
<1>1. i.op = "comment"
  BY DEF Ins, Comment
<1> HIDE DEF i, to
<1>2. Growth(i) = 0
  BY <1>1, GrowthOf
<1>3. At(G(st, a, q, k, sp, l), to) = G(to, a, q, k, sp, l)
  BY AtMade
<1>4. Emit(G(to, a, q, k, sp, l), i) = G(to, a, q ## i, k, sp + Growth(i), l)
  BY EmitMade
<1>5. sp + Growth(i) = sp
  BY <1>2
<1> QED
  BY <1>3, <1>4, <1>5 DEF i, to

LEMMA CommentPiece ==
  ASSUME NEW p, NEW out, NEW open, Piece(p, out, open)
  PROVE  Piece(p ## Comment, out, open) /\ Labels(p ## Comment) = Labels(p) /\ p ## Comment # << >>
<1> DEFINE i == Comment
<1>1. i.op = "comment"
  BY DEF Ins, Comment
<1> HIDE DEF i
<1>2. Piece(p ## i, out, open) /\ Labels(p ## i) = Labels(p) /\ p ## i # << >>
  BY <1>1, PieceStays
<1> QED
  BY <1>2 DEF i

LEMMA ArgumentCode ==
  ASSUME NEW g, NEW c, Matches(g, c), NEW f, f = c.n \/ f = c.n + 1, f >= 1,
         f = c.n => Top(c).out = << >> /\ Top(c).open = {}
  PROVE  Matches(Emit(At(IF f = c.n THEN g ELSE NewArgCode(g), "undef"), Comment), Opened(c, f))
<1> DEFINE d == Opened(c, f)
<1>1. c.n \in Nat /\ c.sp \in Int /\ c.cl \in Nat /\ IsSeq(g.arg)
  BY DEF Matches, Empty
<1>2. OpenedIs(c, f, d)
  BY <1>1, OpenedOf
<1> HIDE DEF d
<1>3. /\ d.st = "undef" /\ d.sp = c.sp /\ Lowered(c, d) /\ Below(c, d, f)
      /\ Top(d).out = << >> /\ Top(d).open = {}
  BY <1>1, <1>2 DEF OpenedIs, Lowered, Below
<1>4. CASE f = c.n
  <2> DEFINE a == Under(g, c)
             p == g.arg[c.n]
             k == g.clean
             l == g.labels
             st == c.st
             sp == c.sp
  <2>1. g = G(st, a, p, k, sp, l) /\ IsSeq(a) /\ sp \in Int /\ Piece(p, Top(c).out, Top(c).open)
    BY <1>4, MatchesForm
  <2>2. Piece(p, << >>, {})
    BY <1>4, <2>1
  <2> HIDE DEF a, p, k, l, st, sp
  <2>3. Emit(At(G(st, a, p, k, sp, l), "undef"), Comment) = G("undef", a, p ## Comment, k, sp, l)
    BY <2>1, CommentMade
  <2>4. Piece(p ## Comment, << >>, {}) /\ Labels(p ## Comment) = Labels(p) /\ p ## Comment # << >>
    BY <2>2, CommentPiece
  <2>5. Matches(G(d.st, Under(g, c), p ## Comment, g.clean, d.sp, g.labels), d)
    <3>1. c.n >= 1 /\ Below(c, d, c.n) /\ d.sp \in Int
      BY <1>1, <1>3, <1>4
    <3> QED
      BY <1>3, <2>4, <3>1, MatchesOn DEF p
  <2>6. d.sp = sp
    BY <1>3 DEF sp
  <2>7. Emit(At(g, "undef"), Comment) = G(d.st, a, p ## Comment, k, d.sp, l)
    BY <1>3, <2>1, <2>3, <2>6
  <2>8. Matches(Emit(At(g, "undef"), Comment), d)
    BY <2>5, <2>7 DEF a, k, l
  <2> QED
    BY <1>4, <2>8 DEF d
<1>5. CASE f = c.n + 1
  <2> DEFINE a == g.arg
             k == g.clean
             l == g.labels
             st == c.st
             sp == c.sp
             none == << >>
  <2>1. NewArgCode(g) = G(st, a, none, k, sp, l) /\ IsSeq(a) /\ sp \in Int
    BY <1>1, NewArg
  <2>2. Piece(none, none, {}) /\ Labels(none) = {}
    BY PieceOfNone
  <2> HIDE DEF a, k, l, st, sp, none
  <2>3. Emit(At(G(st, a, none, k, sp, l), "undef"), Comment) = G("undef", a, none ## Comment, k, sp, l)
    BY <2>1, CommentMade
  <2>4. Piece(none ## Comment, none, {}) /\ Labels(none ## Comment) = {} /\ none ## Comment # << >>
    BY <2>2, CommentPiece
  <2>5. Matches(G(d.st, g.arg, none ## Comment, g.clean, d.sp, g.labels), d)
    <3>1. Below(c, d, c.n + 1) /\ d.sp \in Int
      BY <1>1, <1>3, <1>5
    <3>2. Top(d).out = none
      BY <1>3 DEF none
    <3> QED
      BY <1>3, <2>4, <3>1, <3>2, MatchesNewPiece
  <2>6. f # c.n
    BY <1>1, <1>5
  <2>7. d.sp = sp
    BY <1>3 DEF sp
  <2>8. Emit(At(NewArgCode(g), "undef"), Comment) = G(d.st, a, none ## Comment, k, d.sp, l)
    BY <1>3, <2>1, <2>3, <2>7
  <2>9. Matches(Emit(At(NewArgCode(g), "undef"), Comment), d)
    BY <2>5, <2>8 DEF a, k, l
  <2> QED
    BY <2>6, <2>9 DEF d
<1> QED
  BY <1>4, <1>5 DEF d

\* BeginArgument
LEMMA ArgumentStep ==
  ASSUME NEW t, PlainTrees(t), NEW x, x.t = "arg", NEW g, NEW c, Matches(g, c), NEW d,
         StepArgument(t, x, c, d), NEW w, Means(w, c)
  PROVE  \E b, b1 : /\ Matches(Emit(At(IF x.i > 1 THEN NewArgCode(g) ELSE g, "undef"), Comment), b)
                    /\ Means(w, b) /\ StepExpr(t, x.e.a[x.i], b, b1)
                    /\ StepPass(t, Loop("pass", x.e, x.n, x.i), b1, d)
<1> DEFINE e == x.e
           i == x.i
           m == i - 1
           f == IF i > 1 THEN c.n + 1 ELSE c.n
           b == Opened(c, f)
<1>1. Argued(t, e, x.n, m, c, d) /\ i \in 1 .. (Len(e.a) + 1) /\ i <= Len(e.a)
  BY DEF StepArgument
<1>2. ArguedRest(t, e, x.n, m, c, d)
  BY <1>1, ArguedSplit
<1>3. e \in t.all /\ FirstPiece(c, m) >= 1 /\ (m = 0 => Top(c).out = << >> /\ Top(c).open = {})
  BY <1>2 DEF ArguedRest
<1>4. Len(e.a) \in Nat
  BY <1>3, TreeOperands
<1>5. i \in 1 .. Len(e.a) /\ (i > 1 \/ m = 0)
  <2> HIDE DEF e
  <2> QED
    BY <1>1, <1>4
<1>6. c.n \in Nat /\ c.sp \in Int /\ c.cl \in Nat
  BY DEF Matches, Empty
<1>7. c.nv \in Nat
  BY DEF Means
<1>8. f >= 1 /\ (f = c.n <=> ~(i > 1)) /\ (f = c.n \/ f = c.n + 1)
  <2>1. FirstPiece(c, m) = c.n - (IF m > 1 THEN m ELSE 1) + 1
    BY DEF FirstPiece
  <2>2. m = 0 => c.n >= 1
    BY <1>3, <1>6, <2>1
  <2> HIDE DEF m
  <2> QED
    BY <1>5, <1>6, <2>2
<1> HIDE DEF b, f, e, m
<1>9. Matches(Emit(At(IF f = c.n THEN g ELSE NewArgCode(g), "undef"), Comment), b)
  BY <1>3, <1>5, <1>8, ArgumentCode DEF b
<1>10. (IF f = c.n THEN g ELSE NewArgCode(g)) = (IF i > 1 THEN NewArgCode(g) ELSE g)
  BY <1>8
<1>11. Means(w, b)
  <2>1. OpenedIs(c, f, b)
    BY <1>6, <1>8, OpenedOf DEF b
  <2>2. SameValues(c, b, c.nv)
    BY <2>1 DEF OpenedIs, SameValues
  <2> QED
    BY <2>2, MeansSame
<1>12. \E b1 : StepExpr(t, e.a[i], b, b1) /\ StepPass(t, Loop("pass", e, x.n, i), b1, d)
  BY <1>1, <1>5, <1>6, <1>7, ArgumentParts DEF b, f, m
<1> QED
  BY <1>9, <1>10, <1>11, <1>12 DEF e

LEMMA PieceNotNone ==
  ASSUME NEW p, NEW out, NEW open, Piece(p, out, open), out # << >>
  PROVE  p # << >>
<1>1. PICK B : Path(p, B) /\ B[Len(p)] = out
  BY DEF Piece
<1>2. B[0] = << >>
  BY <1>1 DEF Path
<1>3. ASSUME p = << >> PROVE FALSE
  <2>1. Len(p) = 0
    BY <1>3, SeqOfNone
  <2> QED
    BY <1>1, <1>2, <2>1
<1> QED
  BY <1>3

\* A literal is put on the stack.
LitIns(v) == Ins("const", "", IF v.typ = "str" THEN v.lit ELSE v.n)

LEMMA PushConstantMade ==
  ASSUME NEW a, IsSeq(a), NEW q, NEW k, NEW sp \in Int, NEW l, NEW v, NEW st, st # "ax"
  PROVE  PushConstant(G(st, a, q, k, sp, l), v) = G("ax", a, q ## LitIns(v), k, sp, l)
<1> DEFINE i == LitIns(v)
           g == G(st, a, q, k, sp, l)
<1>1. i.op \in {"load", "const"}
  BY DEF Ins, LitIns
<1>2. PushConstant(g, v) = At(Emit(EmitFlushRax(g), i), "ax")
  BY DEF PushConstant, EmitPushConst, LitIns
<1> HIDE DEF i
<1>3. At(Emit(EmitFlushRax(g), i), "ax") = G("ax", a, Loaded1(st, q, i), k, sp + Truth(st = "ax"), l)
  BY <1>1, LoadMade
<1>4. Loaded1(st, q, i) = q ## i /\ sp + Truth(st = "ax") = sp
  BY DEF Loaded1, Truth
<1> QED
  BY <1>2, <1>3, <1>4 DEF i

LEMMA LitPiece ==
  ASSUME NEW p, NEW out, NEW open, Piece(p, out, open), NEW v
  PROVE  Piece(p ## LitIns(v), out, open) /\ Labels(p ## LitIns(v)) = Labels(p)
<1> DEFINE i == LitIns(v)
<1>1. i.op = "const"
  BY DEF Ins, LitIns
<1> HIDE DEF i
<1>2. Piece(p ## i, out, open) /\ Labels(p ## i) = Labels(p)
  BY <1>1, PieceStays
<1> QED
  BY <1>2 DEF i

\* The clean-up code gets a new entry.
LEMMA EmptyMore ==
  ASSUME NEW k, NEW cl, Empty(k, cl)
  PROVE  Empty(k ## << >>, cl + 1)
<1> DEFINE s == k ## << >>
           n == Len(k)
           none == << >>
<1>1. IsSeq(k) /\ cl \in Nat /\ cl <= n /\ \A i \in (n - cl + 1) .. n : k[i] = none
  BY DEF Empty
<1>2. IsSeq(s) /\ n \in Nat /\ Len(s) = n + 1 /\ s[n + 1] = none /\ \A i \in 1 .. n : s[i] = k[i]
  BY <1>1, SeqSnoc
<1> HIDE DEF s, n, none
<1>3. cl + 1 \in Nat /\ cl + 1 <= Len(s) /\ Len(s) - (cl + 1) + 1 = n - cl + 1
  BY <1>1, <1>2
<1>4. ASSUME NEW i \in (n - cl + 1) .. (n + 1) PROVE s[i] = none
  <2>1. CASE i = n + 1
    BY <1>2, <2>1
  <2>2. CASE i # n + 1
    <3>1. i \in (n - cl + 1) .. n /\ i \in 1 .. n
      BY <1>1, <1>2, <2>2
    <3> QED
      BY <1>1, <1>2, <3>1
  <2> QED
    BY <2>1, <2>2
<1>5. Empty(s, cl + 1)
  BY <1>2, <1>3, <1>4 DEF Empty, none
<1> QED
  BY <1>5 DEF s

LEMMA CleanMade ==
  ASSUME NEW a, NEW q, NEW k, NEW sp, NEW l, NEW st
  PROVE  PushCleanupCode(G(st, a, q, k, sp, l)) = G(st, a, q, k ## << >>, sp, l)
<1> DEFINE s == a ## q
           u == k ## << >>
           g == Made(st, s, k, sp, l)
<1>1. g.clean = k /\ [g EXCEPT !.clean = u] = Made(st, s, u, sp, l)
  BY MadeFields, MadeClean
<1> HIDE DEF g, s, u
<1>2. PushCleanupCode(g) = [g EXCEPT !.clean = u]
  BY <1>1 DEF PushCleanupCode, u, ##
<1> QED
  BY <1>1, <1>2 DEF G, g, s, u

LEMMA MatchesOnClean ==
  ASSUME NEW g, NEW c, Matches(g, c), c.n >= 1, NEW q, NEW d, NEW k,
         Below(c, d, c.n), Empty(k, d.cl), d.sp \in Int,
         Piece(q, Top(d).out, Top(d).open), q = << >> => Top(d).blank,
         Labels(q) = Labels(g.arg[c.n])
  PROVE  Matches(G(d.st, Under(g, c), q, k, d.sp, g.labels), d)
<1>1. c.n \in Nat /\ g.labels \in Nat
  BY MatchesForm
<1>3. \A x \in Labels(q) :
         x \in (g.labels + 1) .. g.labels \/ \E i \in c.n .. c.n : x \in Labels(g.arg[i])
  <2>1. c.n \in c.n .. c.n
    BY <1>1
  <2> QED
    BY <2>1
<1>4. c.n <= c.n + 1 /\ g.labels <= g.labels
  BY <1>1
<1> QED
  BY <1>1, <1>3, <1>4, MatchesFrom DEF Under

\* The code that passes a value.
PassCode(g, v) == EmitPushTos(IF v.const THEN PushConstant(PushCleanupCode(g), v) ELSE PushCleanupCode(g))

LEMMA PassedCode ==
  ASSUME NEW t, PlainTrees(t), NEW y, NEW g, NEW c, Matches(g, c), NEW d, Passed(t, y, c, d),
         NEW v, Shows(v, Shown(t, y))
  PROVE  Matches(PassCode(g, v), d)
<1> DEFINE a == Under(g, c)
           p == g.arg[c.n]
           k == g.clean ## << >>
           l == g.labels
           st == c.st
           sp == c.sp
           h == G(st, a, p, k, sp, l)
<1>1. /\ y \in t.all /\ ~Procedure(y) /\ c.n >= 1 /\ Below(c, d, c.n) /\ d.cl = c.cl + 1
      /\ st = IF y \in t.const THEN "undef" ELSE IF y.k = "call" THEN "sp" ELSE "ax"
      /\ d.st = "sp" /\ d.sp = sp + Truth(y.k # "call")
      /\ Top(c).out = Left(y) /\ Top(c).open = {}
      /\ Top(d) = Pc(<<WordFor(y)>>, {}, FALSE)
  BY DEF Passed, WordFor
<1>2. /\ g = G(st, a, p, g.clean, sp, l) /\ IsSeq(a) /\ sp \in Int /\ Empty(g.clean, c.cl)
      /\ Piece(p, Left(y), {})
  <2>1. c.n >= 1 /\ Top(c).out = Left(y) /\ Top(c).open = {}
    BY <1>1
  <2>2. /\ g = G(st, a, p, g.clean, sp, l) /\ IsSeq(a) /\ sp \in Int /\ Empty(g.clean, c.cl)
        /\ Piece(p, Top(c).out, Top(c).open)
    BY <2>1, MatchesForm
  <2> QED
    BY <2>1, <2>2
<1>3. Empty(k, d.cl)
  BY <1>1, <1>2, EmptyMore
<1>4. Top(d).out = <<WordFor(y)>> /\ Top(d).open = {}
  BY <1>1 DEF Pc
<1>5. (v.const => y \in t.const) /\ (~v.const => y \notin t.const)
  BY ShownOf DEF Shows
<1> HIDE DEF h
<1>6. PushCleanupCode(g) = h
  <2> DEFINE k0 == g.clean
  <2> HIDE DEF a, p, l, st, sp, k0
  <2>1. PushCleanupCode(G(st, a, p, k0, sp, l)) = G(st, a, p, k0 ## << >>, sp, l)
    BY CleanMade
  <2> QED
    BY <1>2, <2>1 DEF h, k0
<1> HIDE DEF a, k, l, st, sp
<1>7. Left(y) \in Shapes /\ (y \in t.const => y.k # "call")
  BY <1>1, LeftIs, TreeKind
<1>8. ASSUME y.k # "call"
      PROVE  Left(y) = << >> /\ WordFor(y) = "num" /\ Truth(y.k # "call") = 1
  BY <1>8, LeftIs DEF WordFor, WordOf, IsTemp, Truth
<1>9. ASSUME NEW q, Piece(q, <<WordFor(y)>>, {}), q # << >>, Labels(q) = Labels(p),
             PassCode(g, v) = G("sp", a, q, k, d.sp, l)
      PROVE  Matches(PassCode(g, v), d)
  <2>1. d.sp \in Int
    BY <1>1, <1>2 DEF Truth
  <2>2. Piece(q, Top(d).out, Top(d).open)
    BY <1>4, <1>9
  <2> HIDE DEF p
  <2>3. Labels(q) = Labels(g.arg[c.n])
    BY <1>9 DEF p
  <2>4. Matches(G(d.st, Under(g, c), q, k, d.sp, g.labels), d)
    BY <1>1, <1>3, <1>9, <2>1, <2>2, <2>3, MatchesOnClean
  <2> QED
    BY <1>1, <1>9, <2>4 DEF a, l
<1> HIDE DEF p
<1>10. ASSUME NEW r, Piece(r, << >>, {})
       PROVE  Piece(r ## Push, <<"num">>, {}) /\ Labels(r ## Push) = Labels(r) /\ r ## Push # << >>
  <2> DEFINE none == << >>
  <2>1. none ++ Nums(1) = <<"num">>
    <3>1. Nums(1) \in Shapes
      BY NumsType
    <3> QED
      BY <3>1, ShapeEmpty, OneNum
  <2> HIDE DEF none
  <2>2. Piece(r, none, {})
    BY <1>10 DEF none
  <2> QED
    BY <2>1, <2>2, PiecePush
<1>11. CASE y \in t.const
  <2> DEFINE r == p ## LitIns(v)
             q == r ## Push
  <2>1. st = "undef" /\ v.const /\ y.k # "call"
    BY <1>1, <1>5, <1>7, <1>11
  <2>2. Piece(r, << >>, {}) /\ Labels(r) = Labels(p)
    BY <1>2, <1>8, <2>1, LitPiece
  <2>3. PushConstant(h, v) = G("ax", a, r, k, sp, l)
    BY <1>2, <2>1, PushConstantMade DEF h
  <2> HIDE DEF r
  <2>4. EmitPushTos(G("ax", a, r, k, sp, l)) = G("sp", a, r ## Push, k, sp + 1, l)
    BY <1>2, PushMade
  <2>5. Piece(q, <<"num">>, {}) /\ Labels(q) = Labels(r) /\ q # << >>
    BY <1>10, <2>2
  <2>6. PassCode(g, v) = G("sp", a, q, k, d.sp, l)
    BY <1>1, <1>6, <1>8, <2>1, <2>3, <2>4 DEF PassCode
  <2> QED
    BY <1>8, <1>9, <2>1, <2>2, <2>5, <2>6
<1>12. CASE y \notin t.const /\ y.k # "call"
  <2> DEFINE q == p ## Push
  <2>1. st = "ax" /\ ~v.const
    BY <1>1, <1>5, <1>12
  <2>2. EmitPushTos(G("ax", a, p, k, sp, l)) = G("sp", a, p ## Push, k, sp + 1, l)
    BY <1>2, PushMade
  <2>3. Piece(q, <<"num">>, {}) /\ Labels(q) = Labels(p) /\ q # << >>
    BY <1>2, <1>8, <1>10, <1>12
  <2>4. PassCode(g, v) = G("sp", a, q, k, d.sp, l)
    BY <1>1, <1>6, <1>8, <1>12, <2>1, <2>2 DEF PassCode, h
  <2> QED
    BY <1>8, <1>9, <1>12, <2>3, <2>4
<1>13. CASE y.k = "call"
  <2>1. st = "sp" /\ ~v.const
    BY <1>1, <1>5, <1>7, <1>13
  <2>2. EmitPushTos(G("sp", a, p, k, sp, l)) = G("sp", a, p, k, sp, l)
    BY <1>2, PushMade
  <2>3. Left(y) = <<WordFor(y)>>
    BY <1>1, <1>13 DEF Left, WordFor, IsTemp, WordOf
  <2>4. Piece(p, <<WordFor(y)>>, {}) /\ p # << >>
    <3>1. <<WordFor(y)>> # << >>
      OBVIOUS
    <3> QED
      BY <1>2, <2>3, <3>1, PieceNotNone
  <2>5. d.sp = sp
    <3>1. Truth(y.k # "call") = 0
      BY <1>13 DEF Truth
    <3> QED
      BY <1>1, <1>2, <3>1
  <2>6. PassCode(g, v) = G("sp", a, p, k, d.sp, l)
    BY <1>6, <2>1, <2>2, <2>5 DEF PassCode, h
  <2> QED
    BY <1>9, <2>4, <2>6
<1> QED
  BY <1>11, <1>12, <1>13

\* PassArgument
NextArgument(x) == Argument(x.e, x.n, x.i + 1)

LEMMA PassStep ==
  ASSUME NEW t, PlainTrees(t), NEW x, x.t = "pass", NEW g, NEW c, Matches(g, c), NEW d,
         StepPass(t, x, c, d), NEW w, Means(w, c)
  PROVE  \E b : /\ Matches(PassCode(g, Last(w)), b) /\ Means(w, b)
                /\ StepArgument(t, NextArgument(x), b, d)
<1> DEFINE e == x.e
           i == x.i
           y == e.a[i]
           v == Last(w)
           z == NextArgument(x)
<1>1. PICK b : Passed(t, y, c, b) /\ Argued(t, e, x.n, i, b, d) /\ i \in 1 .. Len(e.a)
  BY DEF StepPass
<1>2. z.e = e /\ z.n = x.n /\ z.i = i + 1 /\ z.t = IF i + 1 <= Len(e.a) THEN "arg" ELSE "call"
  BY DEF NextArgument, Argument, Loop
<1> HIDE DEF e, i, y, v, z
<1>3. e \in t.all /\ i \in 0 .. Len(e.a)
  BY <1>1 DEF Argued
<1>4. Len(e.a) \in Nat
  BY <1>3, TreeOperands
<1>5. z.i \in 1 .. (Len(e.a) + 1) /\ (z.t = "arg" <=> z.i <= Len(e.a)) /\ z.i - 1 = i
  BY <1>1, <1>2, <1>4
<1>6. StepArgument(t, z, b, d)
  BY <1>1, <1>2, <1>5 DEF StepArgument
<1>7. c.nv >= 1 /\ c.vs[c.nv] = Shown(t, y) /\ SameValues(c, b, c.nv)
  BY <1>1 DEF Passed
<1>8. Shows(v, Shown(t, y))
  BY <1>7, LastMeans DEF v
<1>9. Matches(PassCode(g, v), b)
  BY <1>1, <1>8, PassedCode
<1>10. Means(w, b)
  BY <1>7, MeansSame
<1> QED
  BY <1>6, <1>9, <1>10 DEF v, z

-----------------------------------------------------------------------------
(* The call itself: the words of its j last arguments, the last one first. *)

ArgWords(e, j) == [i \in 1 .. j |-> WordFor(e.a[Len(e.a) + 1 - i])]

LEMMA WordForType == \A e : WordFor(e) \in Words /\ (IsTemp(e) => WordFor(e) = "tmp") /\ (~IsTemp(e) => WordFor(e) = "num")
  BY DEF WordFor, WordOf, Words

LEMMA ArgWordsType ==
  ASSUME NEW e, NEW j \in Nat
  PROVE  /\ ArgWords(e, j) \in Shapes /\ Len(ArgWords(e, j)) = j
         /\ \A i \in 1 .. j : ArgWords(e, j)[i] = WordFor(e.a[Len(e.a) + 1 - i])
<1>1. \A i \in 1 .. j : WordFor(e.a[Len(e.a) + 1 - i]) \in Words
  BY WordForType
<1>2. ArgWords(e, j) \in [1 .. j -> Words]
  BY <1>1 DEF ArgWords
<1>3. ArgWords(e, j) \in Seq(Words)
  BY <1>2
<1>4. Len(ArgWords(e, j)) = j
  BY <1>2, <1>3
<1> QED
  BY <1>3, <1>4 DEF ArgWords, Shapes

LEMMA ArgWordsMore ==
  ASSUME NEW e, Len(e.a) \in Nat, NEW j \in Nat
  PROVE  ArgWords(e, j + 1) = ArgWords(e, j) ++ <<WordFor(e.a[Len(e.a) - j])>>
<1> DEFINE x == WordFor(e.a[Len(e.a) - j])
           s == ArgWords(e, j + 1)
           u == ArgWords(e, j)
           v == u ++ <<x>>
<1>1. s \in Shapes /\ Len(s) = j + 1 /\ \A i \in 1 .. (j + 1) : s[i] = WordFor(e.a[Len(e.a) + 1 - i])
  <2>1. j + 1 \in Nat
    OBVIOUS
  <2> QED
    BY <2>1, ArgWordsType
<1>2. u \in Shapes /\ Len(u) = j /\ \A i \in 1 .. j : u[i] = WordFor(e.a[Len(e.a) + 1 - i])
  BY ArgWordsType
<1>3. <<x>> \in Shapes /\ Len(<<x>>) = 1 /\ <<x>>[1] = x
  BY WordForType DEF Shapes
<1> HIDE DEF s, u
<1>4. v \in Shapes /\ Len(v) = j + 1 /\ \A i \in 1 .. j : v[i] = u[i]
  BY <1>2, <1>3, ShapeConcat, ShapeAt
<1>5. v[j + 1] = x
  <2> DEFINE o == <<x>>
  <2>1. o \in Shapes /\ Len(o) = 1 /\ o[1] = x
    BY <1>3
  <2> HIDE DEF o
  <2>2. \A i \in 1 .. Len(o) : (u ++ o)[Len(u) + i] = o[i]
    BY <1>2, <2>1, ShapeAt
  <2>3. (u ++ o)[j + 1] = x
    BY <1>2, <2>1, <2>2
  <2> QED
    BY <2>3 DEF o
<1>6. s[j + 1] = x
  <2>1. j + 1 \in 1 .. (j + 1)
    OBVIOUS
  <2>2. s[j + 1] = WordFor(e.a[Len(e.a) + 1 - (j + 1)])
    BY <1>1, <2>1
  <2> DEFINE n == Len(e.a)
  <2>3. n \in Nat
    OBVIOUS
  <2> HIDE DEF n
  <2>4. n + 1 - (j + 1) = n - j
    BY <2>3
  <2> QED
    BY <2>2, <2>4 DEF n, x
<1> HIDE DEF v, x
<1>7. \A i \in 1 .. Len(s) : s[i] = v[i]
  <2> SUFFICES ASSUME NEW i \in 1 .. Len(s) PROVE s[i] = v[i]
    OBVIOUS
  <2>1. i = j + 1 \/ (i \in 1 .. j /\ i \in 1 .. (j + 1))
    BY <1>1
  <2> QED
    BY <1>1, <1>2, <1>4, <1>5, <1>6, <2>1
<1>8. IsSeq(s) /\ IsSeq(v)
  BY <1>1, <1>4, ShapeIsSeq
<1>9. s = v
  BY <1>1, <1>4, <1>7, <1>8, SeqSame
<1> QED
  BY <1>9 DEF s, v, u, x

\* The words of a call: its arguments lie above what it leaves.
LEMMA CallFlow ==
  ASSUME NEW e, e.k = "call", NEW n \in Nat, NEW h \in Nat, Procedure(e) => h = 0, NEW w \in Shapes, Len(w) = n,
         NEW i, i.op = "call", i.s = e.s, i.n = n
  PROVE  /\ Flow(i, Nums(h + Len(Left(e))) ++ w, (Nums(h) ++ Left(e)) ++ w)
         /\ (Nums(h) ++ Left(e)) ++ w \in Shapes /\ Nums(h) ++ Left(e) \in Shapes
<1> DEFINE u == Nums(h)
           l == Left(e)
           s == Nums(h + Len(l)) ++ w
           v == (u ++ l) ++ w
<1>1. u \in Shapes /\ l \in Shapes
  BY NumsType, LeftIs
<1> HIDE DEF u, l
<1>2. u ++ l \in Shapes
  BY <1>1, ShapeConcat
<1>3. v \in Shapes
  BY <1>2, ShapeConcat
<1>4. CASE Procedure(e)
  <2>1. l = << >> /\ Len(l) = 0 /\ h = 0 /\ u = << >>
    BY <1>4, LeftIs, NoNums DEF l, u
  <2>2. s = w
    <3>1. h + Len(l) = 0
      BY <2>1
    <3>2. Nums(0) ++ w = w
      BY NoNums, ShapeEmpty
    <3> QED
      BY <3>1, <3>2
  <2>3. v = w
    BY <2>1, ShapeEmpty
  <2>4. Funcs[i.s] = "none" /\ i.n <= Len(w)
    BY <1>4 DEF Procedure
  <2> HIDE DEF s, v
  <2>5. Flow(i, s, v)
    BY <2>2, <2>3, <2>4 DEF Flow
  <2> QED
    BY <1>2, <1>3, <2>5 DEF s, v, u, l
<1>5. CASE ~Procedure(e)
  <2>1. Len(l) = 1 /\ l = <<WordOf(Funcs[e.s])>> /\ Funcs[i.s] # "none"
    BY <1>5, LeftIs DEF l, Left, Procedure
  <2>2. s = (u ++ Nums(1)) ++ w
    <3>1. Nums(h) ++ Nums(1) = Nums(h + 1)
      BY NumsAdd
    <3> QED
      BY <2>1, <3>1 DEF u
  <2>3. v = (u ++ <<WordOf(Funcs[i.s])>>) ++ w
    BY <2>1
  <2> HIDE DEF s, v
  <2>4. Flow(i, s, v)
    BY <1>1, <2>1, <2>2, <2>3 DEF Flow
  <2> QED
    BY <1>2, <1>3, <2>4 DEF s, v, u, l
<1> QED
  BY <1>4, <1>5

\* The one temporary among the arguments is freed.
LEMMA FreeFlow ==
  ASSUME NEW e, NEW n \in Nat, n = Len(e.a), NEW j \in 1 .. n, IsTemp(e.a[j]),
         \A k \in 1 .. n : IsTemp(e.a[k]) => k = j,
         NEW x \in Shapes, NEW i, i.op = "free", i.n = j
  PROVE  Flow(i, x ++ ArgWords(e, n), x ++ Nums(n))
<1> DEFINE w == ArgWords(e, n)
           m == n - j + 1
           u == Nums(n)
           v == [w EXCEPT ![m] = "num"]
<1>1. /\ w \in Shapes /\ Len(w) = n /\ \A k \in 1 .. n : w[k] = WordFor(e.a[n + 1 - k])
      /\ m \in 1 .. n /\ n + 1 - m = j
  BY ArgWordsType
<1>2. u \in Shapes /\ Len(u) = n /\ \A k \in 1 .. n : u[k] = "num"
  BY NumsType
<1>3. w[m] = "tmp"
  BY <1>1, WordForType
<1>4. \A k \in 1 .. n : k # m => w[k] = "num"
  <2> SUFFICES ASSUME NEW k \in 1 .. n, k # m PROVE w[k] = "num"
    OBVIOUS
  <2> DEFINE l == n + 1 - k
  <2>1. l \in 1 .. n /\ l # j
    OBVIOUS
  <2> HIDE DEF m, w
  <2>2. ~IsTemp(e.a[l])
    BY <2>1
  <2>3. w[k] = WordFor(e.a[l])
    BY <1>1
  <2> QED
    BY <2>2, <2>3, WordForType
<1> HIDE DEF w, m, u
<1>5. IsSeq(v) /\ Len(v) = n /\ \A k \in 1 .. n : v[k] = IF k = m THEN "num" ELSE w[k]
  <2>1. w = [k \in 1 .. n |-> w[k]]
    BY <1>1, ShapeIsSeq, SeqLen
  <2>2. v = [k \in 1 .. n |-> IF k = m THEN "num" ELSE w[k]]
    BY <1>1, <2>1
  <2> HIDE DEF v
  <2>3. \A k \in 1 .. n : v[k] = IF k = m THEN "num" ELSE w[k]
    BY <2>2
  <2>4. v = [k \in 1 .. n |-> v[k]]
    BY <2>2, <2>3
  <2>5. IsSeq(v) /\ Len(v) = n
    BY <2>4, SeqMade
  <2> QED
    BY <2>3, <2>5
<1>6. v = u
  <2> HIDE DEF v
  <2>1. \A k \in 1 .. Len(v) : v[k] = u[k]
    BY <1>2, <1>4, <1>5
  <2> QED
    BY <1>2, <1>5, <2>1, ShapeIsSeq, SeqSame
<1>7. Len(w) - i.n + 1 = m /\ i.n \in 1 .. Len(w)
  BY <1>1 DEF m
<1>8. Flow(i, w, u)
  <2>1. i.op = "free" /\ i.n \in 1 .. Len(w) /\ w[Len(w) - i.n + 1] = "tmp"
    BY <1>3, <1>7
  <2>2. u = [w EXCEPT ![Len(w) - i.n + 1] = "num"]
    BY <1>6, <1>7
  <2> QED
    BY <2>1, <2>2 DEF Flow
<1>9. Flow(i, x ++ w, x ++ u)
  BY <1>1, <1>2, <1>8, FlowAbove
<1> QED
  BY <1>9 DEF w, u

LEMMA NoTempWords ==
  ASSUME NEW e, NEW n \in Nat, n = Len(e.a), \A k \in 1 .. n : ~IsTemp(e.a[k])
  PROVE  ArgWords(e, n) = Nums(n)
<1> DEFINE w == ArgWords(e, n)
           u == Nums(n)
<1>1. w \in Shapes /\ Len(w) = n /\ \A k \in 1 .. n : w[k] = WordFor(e.a[n + 1 - k])
  BY ArgWordsType
<1>2. u \in Shapes /\ Len(u) = n /\ \A k \in 1 .. n : u[k] = "num"
  BY NumsType
<1> HIDE DEF w, u
<1>3. \A k \in 1 .. Len(w) : w[k] = u[k]
  <2> SUFFICES ASSUME NEW k \in 1 .. n PROVE w[k] = u[k]
    BY <1>1
  <2> DEFINE l == n + 1 - k
  <2>1. l \in 1 .. n
    OBVIOUS
  <2> HIDE DEF l
  <2>2. ~IsTemp(e.a[l])
    BY <2>1
  <2>3. w[k] = WordFor(e.a[l])
    BY <1>1 DEF l
  <2> QED
    BY <1>2, <2>2, <2>3, WordForType
<1>4. w = u
  BY <1>1, <1>2, <1>3, ShapeIsSeq, SeqSame
<1> QED
  BY <1>4 DEF w, u

-----------------------------------------------------------------------------
(* The clean-up of the arguments.                                          *)

LEMMA SeqReverse ==
  ASSUME NEW s, IsSeq(s)
  PROVE  /\ IsSeq(Reverse(s)) /\ Len(Reverse(s)) = Len(s)
         /\ \A i \in 1 .. Len(s) : Reverse(s)[i] = s[Len(s) - i + 1]
<1> DEFINE n == Len(s)
           v == Reverse(s)
<1>1. n \in Nat
  BY SeqLen
<1>2. v = [i \in 1 .. n |-> s[(n - i) + 1]]
  BY DEF Reverse
<1> HIDE DEF v, n
<1>3. \A i \in 1 .. n : v[i] = s[(n - i) + 1]
  BY <1>2
<1>4. v = [i \in 1 .. n |-> v[i]]
  BY <1>2, <1>3
<1>5. IsSeq(v) /\ Len(v) = n
  BY <1>1, <1>4, SeqMade
<1> QED
  BY <1>3, <1>5 DEF v, n

LEMMA FlattenNone ==
  ASSUME NEW s, IsSeq(s), Len(s) = 0
  PROVE  FlattenSeq(s) = << >>
<1>1. s = << >>
  BY SeqEmpty
<1>2. FlattenSeq(s) = s
  BY DEF FlattenSeq
<1> QED
  BY <1>1, <1>2

CleanText(k, n) == FlattenSeq(Reverse(SubSeq(k, Len(k) - n + 1, Len(k))))

\* Of the last n entries only the last one is not empty.
LEMMA CleanTextIs ==
  ASSUME NEW k, IsSeq(k), NEW n \in Nat, n <= Len(k), NEW u, IsSeq(u),
         n = 0 => u = << >>, n # 0 => k[Len(k)] = u,
         \A i \in (Len(k) - n + 1) .. Len(k) : i # Len(k) => k[i] = << >>
  PROVE  CleanText(k, n) = u
<1> DEFINE m == Len(k)
           lo == m - n + 1
           s == SubSeq(k, lo, m)
           v == Reverse(s)
           none == << >>
<1>1. m \in Nat /\ n <= m /\ lo \in Int /\ 1 <= lo /\ lo <= m + 1 /\ m - lo + 1 = n
  <2>1. m \in Nat
    BY SeqLen
  <2> HIDE DEF m
  <2>2. n <= m
    BY DEF m
  <2> QED
    BY <2>1, <2>2
<1> HIDE DEF lo, m
<1>2. IsSeq(s) /\ Len(s) = n /\ \A i \in 1 .. n : s[i] = k[lo + i - 1]
  <2>1. m <= Len(k) /\ m \in Int
    BY <1>1 DEF m
  <2>2. IsSeq(s) /\ Len(s) = m - lo + 1 /\ \A i \in 1 .. (m - lo + 1) : s[i] = k[lo + i - 1]
    BY <1>1, <2>1, SeqSub
  <2> HIDE DEF s
  <2> QED
    BY <1>1, <2>2
<1> HIDE DEF s
<1>3. IsSeq(v) /\ Len(v) = n /\ \A i \in 1 .. n : v[i] = s[n - i + 1]
  BY <1>2, SeqReverse
<1>4. CleanText(k, n) = FlattenSeq(v)
  BY DEF CleanText, v, s, lo, m
<1> HIDE DEF v
<1>5. CASE n = 0
  BY <1>3, <1>4, <1>5, FlattenNone
<1>6. CASE n # 0
  <2>1. 1 \in 1 .. n /\ n - 1 + 1 = n /\ n \in 1 .. n /\ lo + n - 1 = m
    BY <1>1, <1>6
  <2>2. v[1] = u
    <3>1. v[1] = s[n] /\ s[n] = k[m]
      BY <1>2, <1>3, <2>1
    <3> QED
      BY <1>6, <3>1 DEF m
  <2>3. \A i \in lo .. m : i # m => k[i] = none
    BY DEF lo, m
  <2> HIDE DEF none
  <2>4. \A i \in 1 .. n : i # 1 => v[i] = none
    <3> SUFFICES ASSUME NEW i \in 1 .. n, i # 1 PROVE v[i] = none
      OBVIOUS
    <3> DEFINE j == n - i + 1
               l == lo + j - 1
    <3>1. j \in 1 .. n /\ j # n
      OBVIOUS
    <3>2. v[i] = s[j]
      BY <1>3
    <3> HIDE DEF j
    <3>3. s[j] = k[l]
      BY <1>2, <3>1
    <3>4. l \in lo .. m /\ l # m
      BY <1>1, <2>1, <3>1
    <3> HIDE DEF l
    <3> QED
      BY <2>3, <3>2, <3>3, <3>4
  <2>5. \A i \in 1 .. n : IsSeq(v[i])
    <3>1. IsSeq(none)
      BY SeqOfNone DEF none
    <3> QED
      BY <2>2, <2>4, <3>1
  <2>6. n >= 1
    BY <1>6
  <2>7. FlattenSeq(v) = v[1]
    BY <1>3, <2>4, <2>5, <2>6, FlattenFirst DEF none
  <2> QED
    BY <1>4, <2>2, <2>7
<1> QED
  BY <1>5, <1>6

Freed(e, n, u) ==
  \/ u = << >> /\ \A k \in 1 .. n : ~IsTemp(e.a[k])
  \/ \E j \in 1 .. n : /\ IsTemp(e.a[j]) /\ (\A k \in 1 .. n : IsTemp(e.a[k]) => k = j)
                       /\ u = <<Ins("free", "", j)>>

LEMMA SetLast ==
  ASSUME NEW k, IsSeq(k), Len(k) >= 1, NEW u
  PROVE  /\ IsSeq([k EXCEPT ![Len(k)] = u]) /\ Len([k EXCEPT ![Len(k)] = u]) = Len(k)
         /\ [k EXCEPT ![Len(k)] = u][Len(k)] = u
         /\ \A i \in 1 .. Len(k) : i # Len(k) => [k EXCEPT ![Len(k)] = u][i] = k[i]
<1> DEFINE n == Len(k)
           v == [k EXCEPT ![n] = u]
<1>1. n \in Nat /\ n >= 1 /\ k = [i \in 1 .. n |-> k[i]] /\ n \in 1 .. n
  BY SeqLen
<1> HIDE DEF n
<1>2. v = [i \in 1 .. n |-> IF i = n THEN u ELSE k[i]]
  BY <1>1
<1> HIDE DEF v
<1>3. \A i \in 1 .. n : v[i] = IF i = n THEN u ELSE k[i]
  BY <1>2
<1>4. v = [i \in 1 .. n |-> v[i]]
  BY <1>2, <1>3
<1>5. IsSeq(v) /\ Len(v) = n
  BY <1>1, <1>4, SeqMade
<1> QED
  BY <1>1, <1>3, <1>5 DEF v, n

\* z is the clean-up code for these arguments, u its text.
CleanupIs(e, n, args, st, s, k, sp, l, z, u) ==
  /\ CleanupArgs(Made(st, s, k, sp, l), args) = Made(st, s, z, sp, l)
  /\ IsSeq(z) /\ CleanText(z, n) = u /\ Freed(e, n, u)
  /\ (\A i \in 1 .. n : ~IsTemp(e.a[i])) => z = k

LEMMA CleanupMade ==
  ASSUME NEW n \in Nat, NEW e, NEW args, Len(args) = n,
         \A i \in 1 .. n : (args[i].temp => IsTemp(e.a[i])) /\ (IsTemp(e.a[i]) => args[i].temp),
         \A i, j \in 1 .. n : IsTemp(e.a[i]) /\ IsTemp(e.a[j]) => i = j,
         NEW k, Empty(k, n), NEW st, NEW s, NEW sp, NEW l
  PROVE  \E z, u : CleanupIs(e, n, args, st, s, k, sp, l, z, u)
<1> DEFINE temps == {i \in 1 .. Len(args) : args[i].temp}
           x == CHOOSE i \in temps : \A j \in temps : j <= i
           g == Made(st, s, k, sp, l)
           m == Len(k)
<1>1. IsSeq(k) /\ m \in Nat /\ n <= m /\ \A i \in (m - n + 1) .. m : k[i] = << >>
  BY SeqLen DEF Empty
<1>2. temps = {i \in 1 .. n : IsTemp(e.a[i])}
  OBVIOUS
<1>3. CleanupArgs(g, args) = IF temps = {} THEN g ELSE SetCleanupCode(g, <<Ins("free", "", x)>>)
  BY DEF CleanupArgs
<1> HIDE DEF temps, x, g, m
<1>4. CASE temps = {}
  <2>1. \A i \in 1 .. n : ~IsTemp(e.a[i])
    BY <1>2, <1>4
  <2> DEFINE none == << >>
  <2>2. \A i \in (m - n + 1) .. m : i # m => k[i] = none
    BY <1>1
  <2>3. n # 0 => k[m] = none
    <3>1. n # 0 => m \in (m - n + 1) .. m
      BY <1>1
    <3> QED
      BY <1>1, <3>1
  <2>4. IsSeq(none)
    BY SeqOfNone
  <2> HIDE DEF none
  <2>5. CleanText(k, n) = none
    <3>1. n = 0 => none = << >>
      BY DEF none
    <3>2. \A i \in (Len(k) - n + 1) .. Len(k) : i # Len(k) => k[i] = << >>
      BY <2>2 DEF m, none
    <3>3. n # 0 => k[Len(k)] = none
      BY <2>3 DEF m
    <3>4. n <= Len(k)
      BY <1>1 DEF m
    <3> QED
      BY <1>1, <2>4, <3>1, <3>2, <3>3, <3>4, CleanTextIs
  <2>6. Freed(e, n, none)
    BY <2>1 DEF Freed, none
  <2> QED
    BY <1>1, <1>3, <1>4, <2>5, <2>6 DEF g, CleanupIs
<1>5. CASE temps # {}
  <2>1. PICK y \in temps : TRUE
    BY <1>5
  <2>2. y \in 1 .. n /\ IsTemp(e.a[y]) /\ \A i \in temps : i = y
    BY <1>2, <2>1
  <2>3. x = y
    <3>1. \A j \in temps : j <= y
      BY <2>2
    <3>2. x \in temps
      BY <2>1, <3>1 DEF x
    <3> QED
      BY <2>2, <3>2
  <2> DEFINE i0 == Ins("free", "", y)
             u == <<i0>>
             z == [k EXCEPT ![m] = u]
  <2>4. m >= 1 /\ n >= 1
    BY <1>1, <2>2
  <2>5. IsSeq(u) /\ u # << >>
    BY SeqOne
  <2>13. Freed(e, n, u)
    <3>1. \A i \in 1 .. n : IsTemp(e.a[i]) => i = y
      BY <2>2
    <3> QED
      BY <2>2, <3>1 DEF Freed
  <2> HIDE DEF u
  <2>6. /\ IsSeq(z) /\ Len(z) = m /\ z[m] = u /\ \A i \in 1 .. m : i # m => z[i] = k[i]
    <3>1. Len(k) >= 1
      BY <2>4 DEF m
    <3> QED
      BY <1>1, <3>1, SetLast DEF m
  <2>7. CleanupArgs(g, args) = Made(st, s, z, sp, l)
    <3>1. g.clean = k
      BY MadeFields DEF g
    <3>2. SetCleanupCode(g, u) = [g EXCEPT !.clean[m] = u]
      BY <2>5, <3>1 DEF SetCleanupCode, m
    <3>3. [g EXCEPT !.clean[m] = u] = [g EXCEPT !.clean = [g.clean EXCEPT ![m] = u]]
      OBVIOUS
    <3>4. [g EXCEPT !.clean = z] = Made(st, s, z, sp, l)
      <4> HIDE DEF z
      <4> QED
        BY MadeClean DEF g
    <3> QED
      BY <1>3, <1>5, <2>3, <3>1, <3>2, <3>3, <3>4 DEF u
  <2> HIDE DEF z
  <2>8. \A i \in (m - n + 1) .. m : i # m => z[i] = << >>
    <3> SUFFICES ASSUME NEW i \in (m - n + 1) .. m, i # m PROVE z[i] = << >>
      OBVIOUS
    <3>1. i \in 1 .. m
      BY <1>1
    <3>2. k[i] = << >>
      BY <1>1
    <3> QED
      BY <2>6, <3>1, <3>2
  <2>9. CleanText(z, n) = u
    <3>1. n <= Len(z) /\ n # 0
      BY <1>1, <2>4, <2>6
    <3>2. z[Len(z)] = u
      BY <2>6
    <3>3. \A i \in (Len(z) - n + 1) .. Len(z) : i # Len(z) => z[i] = << >>
      BY <2>6, <2>8
    <3> QED
      BY <2>5, <2>6, <3>1, <3>2, <3>3, CleanTextIs
  <2>10. ~(\A i \in 1 .. n : ~IsTemp(e.a[i]))
    BY <2>2
  <2> QED
    BY <2>6, <2>7, <2>9, <2>10, <2>13 DEF g, CleanupIs
<1> QED
  BY <1>4, <1>5

-----------------------------------------------------------------------------
\* The pieces of a call: q, behind it the m last pieces, the last one first.

LastPiecesOf(b, q, m, z) ==
  /\ IsSeq(z) /\ Len(z) = m + 1 /\ z[1] = q
  /\ \A i \in 1 .. (m + 1) : i # 1 => z[i] = b[Len(b) + 2 - i]

JoinedLast(b, q, m) == Joined(b ## q, Len(b) + 1, m + 1, TRUE)

LEMMA Reversed ==
  ASSUME NEW b, IsSeq(b), NEW m \in Nat, m <= Len(b), NEW q
  PROVE  \E z : JoinedLast(b, q, m) = FlattenSeq(z) /\ LastPiecesOf(b, q, m, z)
<1> DEFINE n == Len(b)
           s == b ## q
           M == n + 1
           lo == M - (m + 1) + 1
           last == SubSeq(s, lo, M)
           z == Reverse(last)
           k == m + 1
<1>1. IsSeq(s) /\ Len(s) = M /\ s[M] = q /\ \A i \in 1 .. n : s[i] = b[i]
  BY SeqSnoc
<1>n. n \in Nat /\ m <= n
  BY SeqLen
<1> HIDE DEF n
<1>2. M \in Nat /\ lo \in Int /\ 1 <= lo /\ lo <= M + 1 /\ M - lo + 1 = k /\ k \in Nat /\ k >= 1
      /\ M = n + 1 /\ k = m + 1 /\ lo + k - 1 = M
  BY <1>n
<1>3. Joined(s, M, k, TRUE) = FlattenSeq(z)
  BY DEF Joined
<1> HIDE DEF s, lo, M, k
<1>4. IsSeq(last) /\ Len(last) = k /\ \A i \in 1 .. k : last[i] = s[lo + i - 1]
  <2>1. M \in Int /\ M <= Len(s)
    BY <1>1, <1>2
  <2>2. IsSeq(last) /\ Len(last) = M - lo + 1 /\ \A i \in 1 .. (M - lo + 1) : last[i] = s[lo + i - 1]
    BY <1>1, <1>2, <2>1, SeqSub
  <2> HIDE DEF last
  <2> QED
    BY <1>2, <2>2
<1> HIDE DEF last
<1>5. IsSeq(z) /\ Len(z) = k /\ \A i \in 1 .. k : z[i] = last[k - i + 1]
  BY <1>4, SeqReverse
<1> HIDE DEF z
<1>6. ASSUME NEW i \in 1 .. k PROVE z[i] = s[M + 1 - i]
  <2> DEFINE j == k - i + 1
  <2>1. j \in 1 .. k /\ lo + j - 1 = M + 1 - i
    BY <1>2
  <2>2. z[i] = last[j]
    BY <1>5
  <2> HIDE DEF j
  <2>3. last[j] = s[lo + j - 1]
    BY <1>4, <2>1
  <2> QED
    BY <2>1, <2>2, <2>3
<1>7. z[1] = q
  <2>1. 1 \in 1 .. k /\ M + 1 - 1 = M
    BY <1>2
  <2>2. z[1] = s[M + 1 - 1]
    BY <1>6, <2>1
  <2> QED
    BY <1>1, <2>1, <2>2
<1>8. ASSUME NEW i \in 1 .. k, i # 1 PROVE z[i] = b[n + 2 - i]
  <2> DEFINE j == n + 2 - i
  <2>1. M + 1 - i = j /\ j \in 1 .. n
    BY <1>2, <1>8, <1>n
  <2>2. z[i] = s[j]
    BY <1>6, <2>1
  <2> HIDE DEF j
  <2>3. z[i] = b[j]
    BY <1>1, <2>1, <2>2
  <2> QED
    BY <2>3 DEF j
<1>9. JoinedLast(b, q, m) = FlattenSeq(z)
  BY <1>3 DEF s, M, k, n, JoinedLast
<1>10. LastPiecesOf(b, q, m, z)
  <2>1. /\ IsSeq(z) /\ Len(z) = m + 1 /\ z[1] = q
        /\ \A i \in 1 .. (m + 1) : i # 1 => z[i] = b[n + 2 - i]
    BY <1>5, <1>7, <1>8 DEF k
  <2> QED
    BY <2>1 DEF n, LastPiecesOf
<1> QED
  BY <1>9, <1>10

Stacked(s, o, T) ==
  /\ IsSeq(s) /\ Len(s) >= 1 /\ T[1] = o[1] /\ Apart(s)
  /\ \A i \in 1 .. Len(s) : Piece(s[i], o[i], {})
  /\ \A i \in 1 .. Len(s) : i # 1 => T[i] = T[i - 1] ++ o[i]

LEMMA StackedPiece ==
  ASSUME NEW s, NEW o, NEW T, Stacked(s, o, T)
  PROVE  Piece(FlattenSeq(s), T[Len(s)], {}) /\ Labels(FlattenSeq(s)) = AllLabels(s)
<1> DEFINE open == {}
<1>1. IsSeq(s) /\ Len(s) >= 1 /\ T[1] = o[1] /\ Apart(s)
      /\ \A i \in 1 .. Len(s) : i # 1 => T[i] = T[i - 1] ++ o[i]
  BY DEF Stacked
<1>2. \A i \in 1 .. Len(s) : Piece(s[i], o[i], {})
  BY DEF Stacked
<1>3. Len(s) \in Nat /\ 1 \in 1 .. Len(s)
  BY <1>1, SeqLen
<1>4. Piece(s[1], o[1], open) /\ \A i \in 1 .. Len(s) : i # 1 => Piece(s[i], o[i], {})
  BY <1>2, <1>3
<1>5. open = {}
  OBVIOUS
<1> HIDE DEF open
<1>6. Piece(FlattenSeq(s), T[Len(s)], open) /\ Labels(FlattenSeq(s)) = AllLabels(s)
  BY <1>1, <1>4, PieceFlatten, Zenon
<1> QED
  BY <1>5, <1>6

LEMMA CallJoin ==
  ASSUME NEW g, NEW c, Matches(g, c), NEW m \in Nat, m <= c.n, NEW q, NEW T, Piece(q, T[0], {}), Labels(q) = {},
         \A j \in 1 .. m : c.pc[c.n + 1 - j].open = {} /\ T[j] = T[j - 1] ++ c.pc[c.n + 1 - j].out
  PROVE  /\ Piece(JoinedLast(g.arg, q, m), T[m], {})
         /\ \A x \in Labels(JoinedLast(g.arg, q, m)) :
               \E i \in (c.n - m + 1) .. c.n : x \in Labels(g.arg[i])
<1> DEFINE b == g.arg
           n == c.n
           k == m + 1
           r == JoinedLast(b, q, m)
           o == [i \in 1 .. k |-> IF i = 1 THEN T[0] ELSE c.pc[n + 2 - i].out]
           U == [i \in 1 .. k |-> T[i - 1]]
<1>1. IsSeq(b) /\ n \in Nat /\ Len(b) = n /\ Apart(b)
      /\ \A i \in 1 .. n : Piece(b[i], c.pc[i].out, c.pc[i].open)
  BY DEF Matches
<1>14. m <= n /\ m \in Nat
  OBVIOUS
<1>2. PICK z : /\ r = FlattenSeq(z) /\ IsSeq(z) /\ Len(z) = k /\ z[1] = q
               /\ \A i \in 1 .. k : i # 1 => z[i] = b[n + 2 - i]
  <2> HIDE DEF b
  <2>1. IsSeq(b) /\ m <= Len(b)
    BY <1>1, <1>14
  <2>2. PICK z : JoinedLast(b, q, m) = FlattenSeq(z) /\ LastPiecesOf(b, q, m, z)
    BY <2>1, Reversed
  <2>3. Len(b) = n
    BY <1>1
  <2> HIDE DEF n
  <2> QED
    BY <2>2, <2>3 DEF LastPiecesOf
<1> HIDE DEF r
<1>3. k \in Nat /\ k >= 1 /\ 1 \in 1 .. k /\ k \in 1 .. k /\ k - 1 = m /\ 1 - 1 = 0
  OBVIOUS
<1>4. ASSUME NEW i \in 1 .. k, i # 1
      PROVE  /\ n + 2 - i \in (n - m + 1) .. n /\ n + 2 - i \in 1 .. n
             /\ i - 1 \in 1 .. m /\ i - 1 \in 1 .. k /\ n + 1 - (i - 1) = n + 2 - i
  <2>1. m <= n
    OBVIOUS
  <2> HIDE DEF n
  <2> QED
    BY <1>1, <1>4, <2>1
<1>5. /\ \A i \in 1 .. k : i # 1 => o[i] = c.pc[n + 2 - i].out
      /\ o[1] = T[0] /\ \A i \in 1 .. k : U[i] = T[i - 1]
  BY <1>3
<1>13. m <= n /\ Piece(q, T[0], {}) /\ Labels(q) = {}
       /\ \A j \in 1 .. m : c.pc[n + 1 - j].open = {} /\ T[j] = T[j - 1] ++ c.pc[n + 1 - j].out
  OBVIOUS
<1> HIDE DEF b, o, U, n, k
<1>6. Piece(z[1], o[1], {})
  BY <1>2, <1>5, <1>13
<1>7. ASSUME NEW i \in 1 .. k, i # 1
      PROVE  Piece(z[i], o[i], {}) /\ U[i] = U[i - 1] ++ o[i]
  <2> DEFINE j == n + 2 - i
             l == i - 1
  <2>1. j \in 1 .. n /\ l \in 1 .. m /\ l \in 1 .. k /\ n + 1 - l = j
    BY <1>4, <1>7
  <2>2. z[i] = b[j] /\ o[i] = c.pc[j].out /\ U[i] = T[l]
    BY <1>2, <1>5, <1>7
  <2>3. U[l] = T[l - 1]
    BY <1>5, <2>1
  <2> HIDE DEF j, l
  <2>4. c.pc[j].open = {} /\ T[l] = T[l - 1] ++ c.pc[j].out
    BY <1>13, <2>1
  <2>5. Piece(b[j], c.pc[j].out, c.pc[j].open)
    BY <1>1, <2>1
  <2>6. Piece(z[i], o[i], {}) /\ U[i] = U[l] ++ o[i]
    BY <2>2, <2>3, <2>4, <2>5
  <2> QED
    BY <2>6 DEF l
<1>8. U[1] = o[1]
  BY <1>3, <1>5
<1>9. Apart(z)
  <2> SUFFICES ASSUME NEW i \in 1 .. k, NEW j \in 1 .. k, i # j
               PROVE  Labels(z[i]) \cap Labels(z[j]) = {}
    BY <1>2 DEF Apart
  <2>1. i = 1 => Labels(z[i]) = {}
    BY <1>2, <1>13
  <2>2. j = 1 => Labels(z[j]) = {}
    BY <1>2, <1>13
  <2>3. CASE i # 1 /\ j # 1
    <3> DEFINE x == n + 2 - i
               y == n + 2 - j
    <3>1. x \in 1 .. n /\ y \in 1 .. n
      BY <1>4, <2>3
    <3>2. x # y
      BY <1>1, <1>3, <2>3
    <3>3. z[i] = b[x] /\ z[j] = b[y]
      BY <1>2, <2>3
    <3> HIDE DEF x, y
    <3> QED
      BY <1>1, <3>1, <3>2, <3>3 DEF Apart
  <2> QED
    BY <2>1, <2>2, <2>3
<1>10. Piece(FlattenSeq(z), U[Len(z)], {}) /\ Labels(FlattenSeq(z)) = AllLabels(z)
  <2>1. Len(z) >= 1 /\ \A i \in 1 .. Len(z) : Piece(z[i], o[i], {})
    BY <1>2, <1>3, <1>6, <1>7
  <2>2. \A i \in 1 .. Len(z) : i # 1 => U[i] = U[i - 1] ++ o[i]
    BY <1>2, <1>7
  <2>3. Stacked(z, o, U)
    BY <1>2, <1>8, <1>9, <2>1, <2>2 DEF Stacked
  <2> QED
    BY <2>3, StackedPiece
<1>11. U[k] = T[m]
  BY <1>3, <1>5
<1>12. ASSUME NEW x \in Labels(r) PROVE \E i \in (n - m + 1) .. n : x \in Labels(b[i])
  <2>1. PICK i \in 1 .. k : x \in Labels(z[i])
    BY <1>2, <1>10 DEF AllLabels
  <2>2. i # 1
    BY <1>2, <1>13, <2>1
  <2> DEFINE j == n + 2 - i
  <2>3. j \in (n - m + 1) .. n
    BY <1>4, <2>2
  <2>4. z[i] = b[j]
    BY <1>2, <2>2
  <2> HIDE DEF j
  <2> QED
    BY <2>1, <2>3, <2>4
<1> QED
  BY <1>2, <1>10, <1>11, <1>12 DEF r, b, n

-----------------------------------------------------------------------------
(* The code of a call, one part after the other.                           *)

ReserveIns == Ins("reserve", "", 1)

\* The piece that saves rax and makes room for the result.
Room(st, r) ==
  IF r = 1 THEN (IF st = "ax" THEN << >> ## Push ELSE << >>) ## ReserveIns
  ELSE IF st = "ax" THEN << >> ## Push ELSE << >>

Flushed(st) == IF st = "ax" THEN "undef" ELSE st

LEMMA RoomMade ==
  ASSUME NEW b, IsSeq(b), NEW st, NEW k, NEW sp \in Int, NEW l, NEW r \in {0, 1}
  PROVE  EmitAddToSp(EmitFlushRax(G(st, b, << >>, k, sp, l)), r) =
           G(Flushed(st), b, Room(st, r), k, (sp + Truth(st = "ax")) + r, l)
<1> DEFINE none == << >>
           q == IF st = "ax" THEN none ## Push ELSE none
           sp1 == sp + Truth(st = "ax")
<1> HIDE DEF none
<1>1. EmitFlushRax(G(st, b, none, k, sp, l)) = G(Flushed(st), b, q, k, sp1, l)
  <2>1. CASE st = "ax"
    <3>1. EmitFlushRax(G(st, b, none, k, sp, l)) = G("undef", b, none ## Push, k, sp + 1, l)
      BY <2>1, FlushMade
    <3>2. sp1 = sp + 1 /\ q = none ## Push /\ Flushed(st) = "undef"
      BY <2>1 DEF Truth, Flushed
    <3> QED
      BY <3>1, <3>2
  <2>2. CASE st # "ax"
    <3>1. EmitFlushRax(G(st, b, none, k, sp, l)) = G(st, b, none, k, sp, l)
      BY <2>2, FlushMade
    <3>2. sp1 = sp /\ q = none /\ Flushed(st) = st
      BY <2>2 DEF Truth, Flushed
    <3> QED
      BY <3>1, <3>2
  <2> QED
    BY <2>1, <2>2
<1>2. sp1 \in Int
  BY DEF Truth
<1>3. Room(st, r) = IF r = 1 THEN q ## ReserveIns ELSE q
  BY DEF Room, none
<1> HIDE DEF q, sp1
<1>4. EmitAddToSp(G(Flushed(st), b, q, k, sp1, l), r) = G(Flushed(st), b, Room(st, r), k, sp1 + r, l)
  <2>1. CASE r = 1
    <3>1. EmitAddToSp(G(Flushed(st), b, q, k, sp1, l), r) = Emit(G(Flushed(st), b, q, k, sp1, l), ReserveIns)
      BY <2>1 DEF EmitAddToSp, ReserveIns
    <3>2. Growth(ReserveIns) = r
      BY <2>1, GrowthOf DEF ReserveIns
    <3> QED
      BY <2>1, <3>1, <3>2, <1>3, EmitMade
  <2>2. CASE r = 0
    <3>1. EmitAddToSp(G(Flushed(st), b, q, k, sp1, l), r) = G(Flushed(st), b, q, k, sp1, l)
      BY <2>2 DEF EmitAddToSp
    <3>2. sp1 + r = sp1
      BY <1>2, <2>2
    <3> QED
      BY <2>2, <3>1, <3>2, <1>3
  <2> QED
    BY <2>1, <2>2
<1> QED
  BY <1>1, <1>4 DEF none, sp1

LEMMA PieceReserve ==
  ASSUME NEW p, NEW out, NEW open, Piece(p, out, open)
  PROVE  Piece(p ## ReserveIns, out ++ Nums(1), open) /\ Labels(p ## ReserveIns) = Labels(p)
<1>1. out \in Shapes
  BY PieceIsSeq
<1>2. out ++ Nums(1) \in Shapes
  BY <1>1, NumsType, ShapeConcat
<1>3. ReserveIns.op = "reserve" /\ ReserveIns.n = 1
  BY DEF ReserveIns, Ins
<1> HIDE DEF ReserveIns
<1>4. Flow(ReserveIns, out, out ++ Nums(1)) /\ ~Marking(ReserveIns)
  BY <1>3 DEF Flow, Marking
<1> QED
  BY <1>2, <1>4, PieceMore

LEMMA RoomPiece ==
  ASSUME NEW st, NEW r \in {0, 1}
  PROVE  Piece(Room(st, r), Nums(Truth(st = "ax") + r), {}) /\ Labels(Room(st, r)) = {}
<1> DEFINE none == << >>
           no == {}
           q == IF st = "ax" THEN none ## Push ELSE none
           m == Truth(st = "ax")
<1>1. Piece(none, none, no) /\ Labels(none) = no /\ none = Nums(0)
  BY PieceOfNone, NoNums
<1>2. m \in {0, 1} /\ (m = 1 <=> st = "ax")
  BY DEF Truth
<1> HIDE DEF none, no
<1>3. Piece(q, Nums(m), no) /\ Labels(q) = no
  <2>1. CASE st = "ax"
    <3>1. Piece(none ## Push, none ++ Nums(1), no) /\ Labels(none ## Push) = no
      BY <1>1, PiecePush
    <3>2. none ++ Nums(1) = Nums(0 + 1)
      BY <1>1, NumsAdd
    <3>3. q = none ## Push /\ m = 1 /\ 0 + 1 = 1
      BY <2>1, <1>2
    <3> QED
      BY <3>1, <3>2, <3>3
  <2>2. CASE st # "ax"
    <3>1. q = none /\ m = 0
      BY <2>2, <1>2
    <3> QED
      BY <1>1, <3>1
  <2> QED
    BY <2>1, <2>2
<1>4. Room(st, r) = IF r = 1 THEN q ## ReserveIns ELSE q
  BY DEF Room, none
<1> HIDE DEF q, m
<1>5. Piece(Room(st, r), Nums(m + r), no) /\ Labels(Room(st, r)) = no
  <2>1. CASE r = 1
    <3>1. Piece(q ## ReserveIns, Nums(m) ++ Nums(1), no) /\ Labels(q ## ReserveIns) = no
      BY <1>3, PieceReserve
    <3>2. Nums(m) ++ Nums(1) = Nums(m + 1)
      BY <1>2, NumsAdd
    <3> QED
      BY <1>4, <2>1, <3>1, <3>2
  <2>2. CASE r = 0
    <3>1. m + r = m
      BY <2>2, <1>2
    <3> QED
      BY <1>3, <1>4, <2>2, <3>1
  <2> QED
    BY <2>1, <2>2
<1> QED
  BY <1>5 DEF no, m


-----------------------------------------------------------------------------
(* The pieces of the arguments become one with that of the call.           *)

LEMMA NoArgWords ==
  ASSUME NEW e
  PROVE  ArgWords(e, 0) = << >>
<1>1. ArgWords(e, 0) \in Shapes /\ Len(ArgWords(e, 0)) = 0
  BY ArgWordsType
<1> HIDE DEF ArgWords
<1> QED
  BY <1>1, ShapeIsSeq, SeqEmpty

\* There are as many pieces as arguments, and one for none.
PieceCount(n) == IF n > 1 THEN n ELSE 1

\* What the pieces of the arguments look like.
ArgPieces(e, n, c) ==
  /\ n \in Nat /\ n = Len(e.a) /\ PieceCount(n) <= c.n /\ FirstPiece(c, n) = c.n - PieceCount(n) + 1
  /\ n = 0 => Top(c).out = << >> /\ Top(c).open = {}
  /\ \A j \in 1 .. n : LET p == c.pc[c.n + 1 - j]
                       IN  p.out = <<WordFor(e.a[n + 1 - j])>> /\ p.open = {}

LEMMA PieceCountOf ==
  \A n \in Nat : \A j \in 1 .. n : PieceCount(n) = n /\ n + 1 - j \in 1 .. n
BY DEF PieceCount

LEMMA ArgPiecesOf ==
  ASSUME NEW t, PlainTrees(t), NEW e, NEW h, NEW n, n = Len(e.a), NEW c, c.n \in Nat, NEW d,
         Argued(t, e, h, n, c, d)
  PROVE  ArgPieces(e, n, c)
<1>1. ArguedRest(t, e, h, n, c, d) /\ ArguedPieces(t, e, n, c)
  BY ArguedSplit
<1>2. e \in t.all /\ n \in 0 .. Len(e.a) /\ FirstPiece(c, n) >= 1
      /\ (n = 0 => Top(c).out = << >> /\ Top(c).open = {})
  BY <1>1 DEF ArguedRest
<1>3. n \in Nat
  BY <1>2, TreeOperands
<1>4. FirstPiece(c, n) = c.n - PieceCount(n) + 1
  BY DEF FirstPiece, PieceCount
<1>5. PieceCount(n) \in Nat /\ (n > 1 => PieceCount(n) = n) /\ (n = 1 => PieceCount(n) = 1)
  BY <1>3 DEF PieceCount
<1> HIDE DEF PieceCount
<1>6. PieceCount(n) <= c.n
  BY <1>2, <1>4, <1>5
<1>7. ASSUME NEW j \in 1 .. n
      PROVE  c.pc[c.n + 1 - j].out = <<WordFor(e.a[n + 1 - j])>> /\ c.pc[c.n + 1 - j].open = {}
  <2> DEFINE i == n + 1 - j
  <2>1. i \in 1 .. n /\ PieceCount(n) = n
    BY <1>3, PieceCountOf
  <2>2. FirstPiece(c, n) + i - 1 = c.n + 1 - j
    BY <1>3, <1>4, <2>1
  <2> HIDE DEF i
  <2>3. c.pc[FirstPiece(c, n) + i - 1].out = <<WordFor(e.a[i])>> /\ c.pc[FirstPiece(c, n) + i - 1].open = {}
    BY <1>1, <2>1 DEF ArguedPieces
  <2> QED
    BY <2>2, <2>3 DEF i
<1> QED
  BY <1>2, <1>3, <1>4, <1>6, <1>7 DEF ArgPieces

LEMMA ArgJoin ==
  ASSUME NEW e, NEW n, NEW g, NEW c, Matches(g, c), ArgPieces(e, n, c),
         NEW q, NEW W, Piece(q, W, {}), Labels(q) = {}
  PROVE  /\ Piece(JoinedLast(g.arg, q, PieceCount(n)), W ++ ArgWords(e, n), {})
         /\ \A x \in Labels(JoinedLast(g.arg, q, PieceCount(n))) :
               \E i \in FirstPiece(c, n) .. c.n : x \in Labels(g.arg[i])
<1> DEFINE m == PieceCount(n)
           T == [j \in 0 .. m |-> IF n = 0 THEN W ELSE W ++ ArgWords(e, j)]
<1>1. n \in Nat /\ n = Len(e.a) /\ m <= c.n /\ FirstPiece(c, n) = c.n - m + 1
      /\ (n = 0 => Top(c).out = << >> /\ Top(c).open = {})
  BY DEF ArgPieces
<1>2. \A j \in 1 .. n : c.pc[c.n + 1 - j].out = <<WordFor(e.a[n + 1 - j])>> /\ c.pc[c.n + 1 - j].open = {}
  BY DEF ArgPieces
<1>3. m \in Nat /\ (n = 0 => m = 1) /\ (n # 0 => m = n) /\ 0 \in 0 .. m /\ m \in 0 .. m
  BY <1>1 DEF PieceCount
<1>4. W \in Shapes /\ c.n \in Nat
  BY PieceIsSeq DEF Matches
<1>5. W ++ ArgWords(e, 0) = W
  BY <1>4, NoArgWords, ShapeEmpty
<1>6. Piece(q, W, {}) /\ Labels(q) = {}
  OBVIOUS
<1> HIDE DEF m
<1>7. T[0] = W
  BY <1>3, <1>5
<1>8. T[m] = W ++ ArgWords(e, n)
  <2>1. CASE n = 0
    BY <1>3, <1>5, <2>1
  <2>2. CASE n # 0
    BY <1>3, <2>2
  <2> QED
    BY <2>1, <2>2
<1>9. ASSUME NEW j \in 1 .. m
      PROVE  c.pc[c.n + 1 - j].open = {} /\ T[j] = T[j - 1] ++ c.pc[c.n + 1 - j].out
  <2>1. j \in 0 .. m /\ j - 1 \in 0 .. m
    BY <1>3
  <2>2. CASE n = 0
    <3>1. j = 1 /\ c.n + 1 - j = c.n /\ j - 1 = 0
      BY <1>3, <1>4, <2>2
    <3>2. c.pc[c.n].open = {} /\ c.pc[c.n].out = << >>
      BY <1>1, <2>2 DEF Top
    <3>3. T[j] = W /\ W ++ << >> = W
      BY <1>4, <2>1, <2>2, ShapeEmpty
    <3> HIDE DEF T
    <3> QED
      BY <1>7, <3>1, <3>2, <3>3
  <2>3. CASE n # 0
    <3> DEFINE i == j - 1
               y == c.pc[c.n + 1 - j].out
    <3>1. T[j] = W ++ ArgWords(e, j) /\ T[i] = W ++ ArgWords(e, i)
      BY <2>1, <2>3
    <3>2. j \in 1 .. n /\ i \in Nat /\ j = i + 1 /\ n + 1 - j = Len(e.a) - i /\ Len(e.a) \in Nat
      BY <1>1, <1>3, <2>3
    <3>3. c.pc[c.n + 1 - j].open = {} /\ y = <<WordFor(e.a[n + 1 - j])>>
      BY <1>2, <3>2
    <3> HIDE DEF T, i, y
    <3>4. ArgWords(e, i + 1) = ArgWords(e, i) ++ <<WordFor(e.a[Len(e.a) - i])>>
      BY <3>2, ArgWordsMore
    <3>5. ArgWords(e, j) = ArgWords(e, i) ++ y
      BY <3>2, <3>3, <3>4
    <3>6. ArgWords(e, i) \in Shapes
      BY <3>2, ArgWordsType
    <3>7. y \in Shapes
      BY <3>3, WordForType DEF Shapes
    <3>8. (W ++ ArgWords(e, i)) ++ y = W ++ (ArgWords(e, i) ++ y)
      BY <1>4, <3>6, <3>7, ShapeAssoc
    <3>9. T[j] = T[i] ++ y
      BY <3>1, <3>5, <3>8
    <3> QED
      BY <3>3, <3>9 DEF i, y
  <2> QED
    BY <2>2, <2>3
<1> HIDE DEF T
<1>10. Piece(q, T[0], {})
  BY <1>6, <1>7
<1>11. m \in Nat /\ m <= c.n
  BY <1>1, <1>3
<1>12. /\ Piece(JoinedLast(g.arg, q, m), T[m], {})
       /\ \A x \in Labels(JoinedLast(g.arg, q, m)) :
             \E i \in (c.n - m + 1) .. c.n : x \in Labels(g.arg[i])
  BY <1>6, <1>9, <1>10, <1>11, CallJoin
<1> QED
  BY <1>1, <1>8, <1>12 DEF m


JoinedCall(g, c, e, n, W, p) ==
  /\ Piece(p, W ++ ArgWords(e, n), {})
  /\ \A x \in Labels(p) : \E i \in FirstPiece(c, n) .. c.n : x \in Labels(g.arg[i])

CallCount(n) == IF n = 0 THEN 2 ELSE n + 1

ConsCall(g, n) == ConsArgCode(g, CallCount(n), TRUE)

LEMMA ConsKept ==
  ASSUME NEW b, IsSeq(b), NEW n \in Nat, PieceCount(n) <= Len(b), NEW q,
         NEW st, NEW k, NEW sp, NEW l
  PROVE  ConsCall(G(st, b, q, k, sp, l), n) =
           G(st, SubSeq(b, 1, Len(b) - PieceCount(n)), JoinedLast(b, q, PieceCount(n)), k, sp, l)
<1> DEFINE m == PieceCount(n)
           s == b ## q
           M == Len(b) + 1
           count == m + 1
<1>1. CallCount(n) = count /\ m \in Nat /\ m >= 1
  BY DEF CallCount, PieceCount
<1>2. IsSeq(s) /\ Len(s) = M /\ Len(b) \in Nat
  BY SeqSnoc
<1>3. m <= Len(b)
  OBVIOUS
<1> HIDE DEF m
<1>4. M \in Nat /\ M >= 1 /\ count \in Nat /\ count >= 1 /\ count <= M /\ M - count = Len(b) - m
      /\ Len(b) - m \in Int /\ 0 <= Len(b) - m /\ Len(b) - m <= Len(b)
  BY <1>1, <1>2, <1>3
<1>5. Joined(s, M, count, TRUE) = JoinedLast(b, q, m)
  BY DEF JoinedLast
<1>6. SubSeq(s, 1, Len(b) - m) = SubSeq(b, 1, Len(b) - m)
  BY <1>4, SubSnoc
<1>7. G(st, b, q, k, sp, l) = Made(st, s, k, sp, l)
  BY DEF G
<1> HIDE DEF s, M, count
<1> DEFINE yes == TRUE
<1>8. yes = TRUE
  OBVIOUS
<1> HIDE DEF yes
<1>9. ConsArgCode(Made(st, s, k, sp, l), count, yes) =
        G(st, SubSeq(s, 1, M - count), Joined(s, M, count, yes), k, sp, l)
  BY <1>2, <1>4, ConsMade
<1>10. ConsArgCode(Made(st, s, k, sp, l), count, TRUE) =
         G(st, SubSeq(b, 1, Len(b) - m), JoinedLast(b, q, m), k, sp, l)
  BY <1>4, <1>5, <1>6, <1>8, <1>9
<1> QED
  BY <1>1, <1>7, <1>10 DEF m, ConsCall

LEMMA JoinedNone ==
  ASSUME NEW q, IsSeq(q)
  PROVE  JoinedLast(<< >>, q, 0) = q
<1> DEFINE b == << >>
           m == 0
<1>1. IsSeq(b) /\ m \in Nat /\ m <= Len(b) /\ Len(b) = 0
  BY SeqOfNone
<1>2. b = << >> /\ m = 0
  OBVIOUS
<1> HIDE DEF b, m
<1>3. PICK z : JoinedLast(b, q, m) = FlattenSeq(z) /\ LastPiecesOf(b, q, m, z)
  BY <1>1, Reversed
<1>4. IsSeq(z) /\ Len(z) = 1 /\ z[1] = q
  BY <1>2, <1>3 DEF LastPiecesOf
<1>5. \A i \in 1 .. Len(z) : IsSeq(z[i]) /\ (i # 1 => z[i] = << >>)
  BY <1>4
<1>6. Len(z) >= 1
  BY <1>4
<1>7. FlattenSeq(z) = z[1]
  BY <1>4, <1>5, <1>6, FlattenFirst
<1> QED
  BY <1>2, <1>3, <1>4, <1>7

LEMMA ConsDropped ==
  ASSUME NEW q, IsSeq(q), NEW st, NEW k, NEW sp, NEW l
  PROVE  ConsArgCode(G(st, << >>, q, k, sp, l), 2, TRUE) = G(st, << >>, q, k, sp, l)
<1> DEFINE none == << >>
           s == none ## q
           g == G(st, none, q, k, sp, l)
           yes == TRUE
<1>1. IsSeq(none) /\ Len(none) = 0 /\ none = << >> /\ yes = TRUE
  BY SeqOfNone
<1>n. JoinedLast(none, q, 0) = q
  BY JoinedNone
<1> HIDE DEF none, yes
<1>2. IsSeq(s) /\ Len(s) = 1 /\ s # << >>
  <2>1. IsSeq(s) /\ Len(s) = Len(none) + 1 /\ s # << >>
    BY <1>1, SeqSnoc
  <2> HIDE DEF s
  <2> QED
    BY <1>1, <2>1
<1>3. g = Made(st, s, k, sp, l) /\ g.arg = s
  BY MadeFields DEF G
<1>4. Joined(s, 1, 1, yes) = q
  <2>1. Len(none) + 1 = 1 /\ 0 + 1 = 1
    BY <1>1
  <2>2. Joined(s, Len(none) + 1, 0 + 1, TRUE) = q
    BY <1>n DEF JoinedLast
  <2> HIDE DEF s
  <2> QED
    BY <1>1, <2>1, <2>2
<1>5. SubSeq(s, 1, 0) = none
  BY <1>1, <1>2
<1> HIDE DEF s, g
<1>6. ConsArgCode(g, 2, yes) = ConsArgCode(g, 1, yes)
  <2> DEFINE A(n) == Len(g.arg) - (IF n < Len(g.arg) THEN n ELSE Len(g.arg))
             B(m) == [g EXCEPT !.arg = SubSeq(g.arg, 1, m)
                        \o << FlattenSeq(IF yes THEN Reverse(SubSeq(g.arg, m + 1, Len(g.arg)))
                                         ELSE SubSeq(g.arg, m + 1, Len(g.arg))) >>]
  <2>4. Len(g.arg) = 1
    BY <1>2, <1>3
  <2>1. A(1) = 0 /\ A(2) = 0
    BY <2>4
  <2>2. g.arg # << >>
    BY <1>2, <1>3
  <2>3. ConsArgCode(g, 1, yes) = B(A(1)) /\ ConsArgCode(g, 2, yes) = B(A(2))
    BY <2>2 DEF ConsArgCode
  <2> HIDE DEF A, B
  <2> QED
    BY <2>1, <2>3
<1> DEFINE one == 1
           m == 1
<1>7. one = 1 /\ one \in Nat /\ one >= 1 /\ one <= m /\ m \in Nat /\ m >= 1 /\ m = 1 /\ m - one = 0
  OBVIOUS
<1> HIDE DEF one, m
<1>8. ConsArgCode(Made(st, s, k, sp, l), one, yes) =
        G(st, SubSeq(s, 1, m - one), Joined(s, m, one, yes), k, sp, l)
  <2>1. Len(s) = m /\ IsSeq(s)
    BY <1>2, <1>7
  <2>2. one \in Nat /\ one >= 1 /\ one <= m /\ m \in Nat /\ m >= 1
    BY <1>7
  <2> QED
    BY <2>1, <2>2, ConsMade
<1> QED
  BY <1>1, <1>3, <1>4, <1>5, <1>6, <1>7, <1>8 DEF g

KeptPieces(g, n) == IF n = 0 /\ g.arg[Len(g.arg)] = << >> THEN << >> ELSE g.arg

\* The pieces of a call have become p.
ConsMakes(g, c, n, q, st, k, sp, l, p) ==
  ConsCall(G(st, KeptPieces(g, n), q, k, sp, l), n) = G(st, SubSeq(g.arg, 1, FirstPiece(c, n) - 1), p, k, sp, l)

LEMMA CallCons ==
  ASSUME NEW e, NEW n, NEW g, NEW c, Matches(g, c), ArgPieces(e, n, c),
         n = 0 /\ Top(c).blank => c.n = 1,
         NEW q, NEW W, Piece(q, W, {}), Labels(q) = {},
         NEW st, NEW k, NEW sp, NEW l
  PROVE  \E p : /\ ConsMakes(g, c, n, q, st, k, sp, l, p)
                /\ JoinedCall(g, c, e, n, W, p)
<1>1. IsSeq(g.arg) /\ Len(g.arg) = c.n /\ c.n \in Nat
      /\ \A i \in 1 .. c.n : g.arg[i] = << >> => c.pc[i].blank
  BY DEF Matches
<1>2. n \in Nat /\ PieceCount(n) <= c.n /\ FirstPiece(c, n) = c.n - PieceCount(n) + 1
  BY DEF ArgPieces
<1>3. PieceCount(n) \in Nat /\ PieceCount(n) >= 1 /\ (n = 0 => PieceCount(n) = 1)
  BY <1>2 DEF PieceCount
<1>4. Piece(q, W, {}) /\ Labels(q) = {} /\ IsSeq(q) /\ W \in Shapes
  BY PieceIsSeq
<1>5. CASE n = 0 /\ g.arg[Len(g.arg)] = << >>
  <2>1. c.n \in 1 .. c.n
    BY <1>1, <1>2, <1>3
  <2>2. Top(c).blank
    BY <1>1, <1>5, <2>1 DEF Top
  <2>3. c.n = 1
    BY <1>5, <2>2
  <2>4. FirstPiece(c, n) = 1
    BY <1>2, <1>3, <1>5, <2>3
  <2>5. SubSeq(g.arg, 1, FirstPiece(c, n) - 1) = << >>
    BY <1>1, <2>4
  <2>6. KeptPieces(g, n) = << >> /\ CallCount(n) = 2
    BY <1>5 DEF KeptPieces, CallCount
  <2>7. ConsArgCode(G(st, << >>, q, k, sp, l), 2, TRUE) = G(st, << >>, q, k, sp, l)
    BY <1>4, ConsDropped
  <2>8. ConsCall(G(st, KeptPieces(g, n), q, k, sp, l), n) =
          G(st, SubSeq(g.arg, 1, FirstPiece(c, n) - 1), q, k, sp, l)
    BY <2>5, <2>6, <2>7 DEF ConsCall
  <2>9. W ++ ArgWords(e, n) = W
    BY <1>4, <1>5, NoArgWords, ShapeEmpty
  <2>10. JoinedCall(g, c, e, n, W, q)
    BY <1>4, <2>9 DEF JoinedCall
  <2> QED
    BY <2>8, <2>10 DEF ConsMakes
<1>6. CASE ~(n = 0 /\ g.arg[Len(g.arg)] = << >>)
  <2>1. KeptPieces(g, n) = g.arg
    BY <1>6 DEF KeptPieces
  <2> DEFINE p == JoinedLast(g.arg, q, PieceCount(n))
             b == g.arg
  <2>2. JoinedCall(g, c, e, n, W, p)
    BY <1>4, ArgJoin DEF JoinedCall
  <2>3. IsSeq(b) /\ PieceCount(n) <= Len(b) /\ Len(b) - PieceCount(n) = FirstPiece(c, n) - 1
    BY <1>1, <1>2, <1>3
  <2> HIDE DEF b, p
  <2>4. ConsCall(G(st, b, q, k, sp, l), n) =
          G(st, SubSeq(b, 1, Len(b) - PieceCount(n)), JoinedLast(b, q, PieceCount(n)), k, sp, l)
    <3>1. IsSeq(b) /\ n \in Nat /\ PieceCount(n) <= Len(b)
      BY <1>2, <2>3
    <3> QED
      BY <3>1, ConsKept
  <2>5. ConsCall(G(st, b, q, k, sp, l), n) =
          G(st, SubSeq(b, 1, FirstPiece(c, n) - 1), JoinedLast(b, q, PieceCount(n)), k, sp, l)
    BY <2>3, <2>4
  <2>6. ConsCall(G(st, g.arg, q, k, sp, l), n) =
          G(st, SubSeq(g.arg, 1, FirstPiece(c, n) - 1), p, k, sp, l)
    BY <2>5 DEF b, p
  <2> QED
    BY <2>1, <2>2, <2>6 DEF ConsMakes
<1> QED
  BY <1>5, <1>6

-----------------------------------------------------------------------------
(* The instruction of a call and what is behind it.                        *)

CallIns(f, n) == Ins("call", f, n)
DropIns(n) == Ins("drop", "", n)

LEMMA EmitCallMade ==
  ASSUME NEW a, IsSeq(a), NEW q, NEW k, NEW sp \in Int, NEW l, NEW f, NEW n \in Nat, NEW st,
         n > 0 => st # "ax"
  PROVE  EmitCall(G(st, a, q, k, sp, l), f, n) = G(st, a, q ## CallIns(f, n), k, sp, l)
<1>1. G(st, a, q, k, sp, l).state = st
  BY AtMade
<1>2. EmitCall(G(st, a, q, k, sp, l), f, n) = Emit(G(st, a, q, k, sp, l), CallIns(f, n))
  BY <1>1 DEF EmitCall, CallIns
<1>3. CallIns(f, n).op = "call"
  BY DEF CallIns, Ins
<1> HIDE DEF CallIns
<1>4. Growth(CallIns(f, n)) = 0
  BY <1>3, GrowthOf
<1>5. sp + 0 = sp
  OBVIOUS
<1> QED
  BY <1>2, <1>4, <1>5, EmitMade

LEMMA CleanedMade ==
  ASSUME NEW a, IsSeq(a), NEW q, NEW st, NEW k, NEW sp, NEW l, NEW n
  PROVE  OutputCleanupCode(G(st, a, q, k, sp, l), n) = G(st, a, q \o CleanText(k, n), k, sp, l)
<1> DEFINE s == a ## q
           r == q \o CleanText(k, n)
           u == a ## r
           g == Made(st, s, k, sp, l)
           h == Made(st, u, k, sp, l)
<1>1. s[Len(s)] = q /\ [s EXCEPT ![Len(s)] = r] = u
  <2>1. s = a ## q
    OBVIOUS
  <2> HIDE DEF s, r
  <2> QED
    BY <2>1, SeqTop
<1>2. r = q \o CleanText(k, n)
  OBVIOUS
<1> HIDE DEF s, u, r
<1>3. g.arg = s /\ g.clean = k
  BY MadeFields
<1>4. [g EXCEPT !.arg = u] = h
  BY MadeArg
<1> HIDE DEF g, h
<1>5. OutputCleanupCode(g, n) = [g EXCEPT !.arg[Len(g.arg)] = @ \o CleanText(k, n)]
  BY <1>3 DEF OutputCleanupCode, CleanText
<1>6. [g EXCEPT !.arg[Len(g.arg)] = @ \o CleanText(k, n)]
        = [g EXCEPT !.arg = [s EXCEPT ![Len(s)] = s[Len(s)] \o CleanText(k, n)]]
  BY <1>3
<1>7. [s EXCEPT ![Len(s)] = s[Len(s)] \o CleanText(k, n)] = u
  BY <1>1, <1>2
<1>8. OutputCleanupCode(g, n) = h
  BY <1>4, <1>5, <1>6, <1>7
<1> QED
  BY <1>8 DEF g, h, s, u, r, G

Dropped(q, n) == IF n = 0 THEN q ELSE q ## DropIns(n)

LEMMA DropMade ==
  ASSUME NEW a, IsSeq(a), NEW q, NEW st, NEW k, NEW sp \in Int, NEW l, NEW n \in Nat
  PROVE  EmitAddToSp(G(st, a, q, k, sp, l), -n) = G(st, a, Dropped(q, n), k, sp - n, l)
<1> DEFINE g == G(st, a, q, k, sp, l)
<1>1. CASE n = 0
  <2>1. EmitAddToSp(g, -n) = g
    BY <1>1 DEF EmitAddToSp
  <2>2. sp - n = sp /\ Dropped(q, n) = q
    BY <1>1 DEF Dropped
  <2> QED
    BY <2>1, <2>2
<1>2. CASE n # 0
  <2>1. -n < 0 /\ ~(-n > 0) /\ -(-n) = n
    BY <1>2
  <2> HIDE DEF g
  <2>2. EmitAddToSp(g, -n) = Emit(g, DropIns(n))
    BY <2>1 DEF EmitAddToSp, DropIns
  <2>3. Growth(DropIns(n)) = -n
    BY GrowthOf DEF DropIns
  <2>4. sp + (-n) = sp - n
    OBVIOUS
  <2>5. Emit(g, DropIns(n)) = G(st, a, q ## DropIns(n), k, sp + Growth(DropIns(n)), l)
    BY EmitMade DEF g
  <2>6. Dropped(q, n) = q ## DropIns(n)
    BY <1>2 DEF Dropped
  <2>7. EmitAddToSp(g, -n) = G(st, a, Dropped(q, n), k, sp - n, l)
    BY <2>2, <2>3, <2>4, <2>5, <2>6
  <2> QED
    BY <2>7 DEF g
<1> QED
  BY <1>1, <1>2

LEMMA DropPiece ==
  ASSUME NEW p, p # << >>, NEW out \in Shapes, NEW open, NEW n \in Nat, Piece(p, out ++ Nums(n), open)
  PROVE  Piece(Dropped(p, n), out, open) /\ Labels(Dropped(p, n)) = Labels(p) /\ Dropped(p, n) # << >>
<1>1. CASE n = 0
  <2>1. out ++ Nums(n) = out
    BY <1>1, ShapeNone
  <2>2. Dropped(p, n) = p
    BY <1>1 DEF Dropped
  <2> QED
    BY <2>1, <2>2
<1>2. CASE n # 0
  <2>1. Dropped(p, n) = p ## DropIns(n)
    BY <1>2 DEF Dropped
  <2>2. DropIns(n).op = "drop" /\ DropIns(n).n = n
    BY DEF DropIns, Ins
  <2> HIDE DEF DropIns
  <2>3. Flow(DropIns(n), out ++ Nums(n), out) /\ ~Marking(DropIns(n))
    BY <2>2 DEF Flow, Marking
  <2> QED
    BY <2>1, <2>3, PieceMore
<1> QED
  BY <1>1, <1>2

\* The whole of a call behind the code of its arguments.
CallTail(e, p, n, u) == Dropped((p ## CallIns(e.s, n)) \o u, n)

TailWords(e, h, n) == Nums(h + Len(Left(e))) ++ ArgWords(e, n)

LEMMA TailPiece ==
  ASSUME NEW e, e.k = "call", NEW n \in Nat, n = Len(e.a), NEW h \in Nat, Procedure(e) => h = 0,
         NEW p, Piece(p, TailWords(e, h, n), {}), NEW u, Freed(e, n, u)
  PROVE  /\ Piece(CallTail(e, p, n, u), Nums(h) ++ Left(e), {})
         /\ Labels(CallTail(e, p, n, u)) = Labels(p) /\ CallTail(e, p, n, u) # << >>
<1> DEFINE i == CallIns(e.s, n)
           w == ArgWords(e, n)
           x == Nums(h) ++ Left(e)
           q == p ## i
           s == Nums(h + Len(Left(e))) ++ w
           no == {}
<1>1. w \in Shapes /\ Len(w) = n
  BY ArgWordsType
<1>2. i.op = "call" /\ i.s = e.s /\ i.n = n
  BY DEF CallIns, Ins
<1>3. Piece(p, s, no) /\ no = {}
  BY DEF TailWords
<1> HIDE DEF w, i, no
<1>4. Flow(i, s, x ++ w) /\ x ++ w \in Shapes /\ x \in Shapes
  BY <1>1, <1>2, CallFlow
<1>5. ~Marking(i)
  BY <1>2 DEF Marking
<1> HIDE DEF s, x
<1>6. Piece(q, x ++ w, no) /\ Labels(q) = Labels(p) /\ q # << >>
  BY <1>3, <1>4, <1>5, PieceMore
<1>7. IsSeq(q)
  BY <1>6, PieceIsSeq
<1> HIDE DEF q
<1>8. /\ Piece(q \o u, x ++ Nums(n), no)
      /\ Labels(q \o u) = Labels(p) /\ q \o u # << >>
  <2>1. CASE u = << >> /\ \A k \in 1 .. n : ~IsTemp(e.a[k])
    <3>1. w = Nums(n)
      BY <2>1, NoTempWords DEF w
    <3>2. q \o u = q
      BY <1>7, <2>1, ConcatNone
    <3> QED
      BY <1>6, <3>1, <3>2
  <2>2. ASSUME NEW j \in 1 .. n, IsTemp(e.a[j]), \A k \in 1 .. n : IsTemp(e.a[k]) => k = j,
               u = <<Ins("free", "", j)>>
        PROVE  Piece(q \o u, x ++ Nums(n), no) /\ Labels(q \o u) = Labels(p) /\ q \o u # << >>
    <3> DEFINE f == Ins("free", "", j)
    <3>1. f.op = "free" /\ f.n = j
      BY DEF Ins
    <3>2. u = <<f>>
      BY <2>2
    <3> HIDE DEF f
    <3>3. Flow(f, x ++ ArgWords(e, n), x ++ Nums(n))
      BY <1>4, <2>2, <3>1, FreeFlow
    <3>4. Flow(f, x ++ w, x ++ Nums(n))
      BY <3>3 DEF w
    <3>5. q \o u = q ## f
      BY <1>7, <3>2, SeqConcatOne
    <3>6. ~Marking(f)
      BY <3>1 DEF Marking
    <3>7. x ++ Nums(n) \in Shapes
      BY <1>4, NumsType, ShapeConcat
    <3>8. Piece(q ## f, x ++ Nums(n), no) /\ Labels(q ## f) = Labels(q) /\ q ## f # << >>
      BY <1>6, <3>4, <3>6, <3>7, PieceMore
    <3> QED
      BY <1>6, <3>5, <3>8
  <2> QED
    BY <2>1, <2>2 DEF Freed
<1> DEFINE v == q \o u
<1> HIDE DEF v
<1>9. Piece(v, x ++ Nums(n), no) /\ v # << >> /\ Labels(v) = Labels(p)
  BY <1>8 DEF v
<1>10. Piece(Dropped(v, n), x, no) /\ Labels(Dropped(v, n)) = Labels(v) /\ Dropped(v, n) # << >>
  BY <1>4, <1>9, DropPiece
<1>11. CallTail(e, p, n, u) = Dropped(v, n)
  BY DEF CallTail, v, q, i
<1> QED
  BY <1>3, <1>9, <1>10, <1>11 DEF x


-----------------------------------------------------------------------------
(* The code of a call.                                                     *)

LEMMA DropEmptyMade ==
  ASSUME NEW s, s # << >>, NEW st, NEW z, NEW sp, NEW l, NEW n, NEW g, g.arg = s, IsSeq(s),
         n = 0 /\ s[Len(s)] = << >> => Len(s) = 1
  PROVE  DropEmptyArg(Made(st, s, z, sp, l), n) = Made(st, KeptPieces(g, n), z, sp, l)
<1> DEFINE h == Made(st, s, z, sp, l)
<1>1. h.arg = s
  BY MadeFields
<1>2. [h EXCEPT !.arg = Front(s)] = Made(st, Front(s), z, sp, l)
  BY MadeArg
<1>3. g.arg = s /\ s # << >> /\ (n = 0 /\ s[Len(s)] = << >> => Len(s) = 1)
  OBVIOUS
<1> HIDE DEF h
<1>4. Last(s) = s[Len(s)]
  BY DEF Last
<1>5. CASE n = 0 /\ s[Len(s)] = << >>
  <2>1. DropEmptyArg(h, n) = [h EXCEPT !.arg = Front(@)]
    BY <1>1, <1>3, <1>4, <1>5 DEF DropEmptyArg
  <2>2. [h EXCEPT !.arg = Front(@)] = [h EXCEPT !.arg = Front(s)]
    BY <1>1
  <2>3. Len(s) = 1
    BY <1>3, <1>5
  <2>4. Len(s) - 1 = 0
    BY <2>3
  <2>5. Front(s) = SubSeq(s, 1, 0)
    BY <2>4 DEF Front
  <2>6. Front(s) = << >>
    BY <2>5
  <2>7. KeptPieces(g, n) = << >>
    BY <1>3, <1>5 DEF KeptPieces
  <2> QED
    BY <1>2, <2>1, <2>2, <2>6, <2>7 DEF h
<1>6. CASE ~(n = 0 /\ s[Len(s)] = << >>)
  <2>1. DropEmptyArg(h, n) = h
    BY <1>1, <1>3, <1>4, <1>6 DEF DropEmptyArg
  <2>2. KeptPieces(g, n) = s
    BY <1>3, <1>6 DEF KeptPieces
  <2> QED
    BY <2>1, <2>2 DEF h
<1> QED
  BY <1>5, <1>6

LEMMA HeldMade ==
  ASSUME NEW st, NEW b, NEW z, NEW sp, NEW l, NEW had \in BOOLEAN, NEW st2, st2 = IF had THEN "ax" ELSE st,
         NEW g, g = Made(st, b, z, sp, l)
  PROVE  NewArgCode(IF had THEN At(g, "ax") ELSE g) = G(st2, b, << >>, z, sp, l)
<1>1. (IF had THEN At(g, "ax") ELSE g) = Made(st2, b, z, sp, l)
  <2>1. At(g, "ax") = Made("ax", b, z, sp, l)
    BY MadeState DEF At
  <2> QED
    BY <2>1
<1>2. Made(st2, b, z, sp, l).arg = b
  BY MadeFields
<1>3. NewArgCode(Made(st2, b, z, sp, l)) = Made(st2, b ## << >>, z, sp, l)
  <2> DEFINE h == Made(st2, b, z, sp, l)
  <2>1. [h EXCEPT !.arg = b ## << >>] = Made(st2, b ## << >>, z, sp, l)
    BY MadeArg
  <2>2. h.arg = b
    BY <1>2
  <2> HIDE DEF h
  <2>3. NewArgCode(h) = [h EXCEPT !.arg = b ## << >>]
    BY <2>2 DEF NewArgCode, ##
  <2> QED
    BY <2>1, <2>3 DEF h
<1> QED
  BY <1>1, <1>3 DEF G

LEMMA ReturnWords ==
  ASSUME NEW e, e.k = "call"
  PROVE  Truth(Funcs[e.s] # "none") = Len(Left(e)) /\ Len(Left(e)) \in {0, 1}
<1>1. CASE Procedure(e)
  BY <1>1, LeftIs DEF Procedure, Truth
<1>2. CASE ~Procedure(e)
  BY <1>2, LeftIs DEF Procedure, Truth
<1> QED
  BY <1>1, <1>2

\* What the clean-up of the arguments is: z is the clean-up code, u its text.
CleanedUp(e, n, g, args, st, sp, z, u) ==
  /\ CleanupArgs(g, args) = Made(st, g.arg, z, sp, g.labels)
  /\ CleanText(z, n) = u /\ Freed(e, n, u)

\* The pieces of the call have become q.
CallMakes(e, h, n, g, c, args, had, z, q) ==
  /\ CallCode(g, e.s, args, had) =
       G(IF h = 1 THEN "undef" ELSE c.st, SubSeq(g.arg, 1, FirstPiece(c, n) - 1), q, z,
         ((c.sp + h) + Len(Left(e))) - n, g.labels)
  /\ Piece(q, Nums(h) ++ Left(e), {}) /\ q # << >>
  /\ \A x \in Labels(q) : \E i \in FirstPiece(c, n) .. c.n : x \in Labels(g.arg[i])

LEMMA CallCodeMade ==
  ASSUME NEW e, e.k = "call", NEW h \in {0, 1}, Procedure(e) => h = 0, NEW n,
         NEW g, NEW c, Matches(g, c), ArgPieces(e, n, c), n = 0 /\ Top(c).blank => c.n = 1,
         h = 1 => n # 0 \/ c.st = "ax", h = 0 => c.st # "ax", n > 0 => c.st = "sp",
         NEW args, Len(args) = n, NEW had \in BOOLEAN, had => h = 1, ~had => h = 0,
         NEW z, NEW u, CleanedUp(e, n, g, args, c.st, c.sp, z, u)
  PROVE  \E q : CallMakes(e, h, n, g, c, args, had, z, q)
<1> DEFINE st2 == IF had THEN "ax" ELSE c.st
           st3 == IF h = 1 THEN "undef" ELSE c.st
           l == g.labels
           a == g.arg
           b == KeptPieces(g, n)
           r == Len(Left(e))
           f == FirstPiece(c, n)
           g1 == DropEmptyArg(CleanupArgs(g, args), n)
           g2 == NewArgCode(IF had THEN At(g1, "ax") ELSE g1)
           g3 == EmitAddToSp(EmitFlushRax(g2), r)
           g4 == ConsCall(g3, n)
           g5 == EmitCall(g4, e.s, n)
           g6 == OutputCleanupCode(g5, n)
           q3 == Room(st2, r)
           W == Nums(h + r)
<1>1. CallCode(g, e.s, args, had) = EmitAddToSp(g6, -n)
  BY ReturnWords DEF CallCode, ConsCall, CallCount
<1>2. IsSeq(a) /\ Len(a) = c.n /\ c.n \in Nat /\ c.sp \in Int
      /\ \A i \in 1 .. c.n : a[i] = << >> => c.pc[i].blank
  BY DEF Matches
<1>3. n \in Nat /\ PieceCount(n) <= c.n /\ f = c.n - PieceCount(n) + 1
  BY DEF ArgPieces
<1>4. c.n >= 1 /\ f \in Nat /\ f >= 1 /\ f - 1 <= c.n
  BY <1>2, <1>3 DEF PieceCount
<1>5. r \in {0, 1} /\ h \in {0, 1}
  BY ReturnWords
<1>6. Flushed(st2) = st3 /\ Truth(st2 = "ax") = h
  BY DEF Flushed, Truth
<1>7. n > 0 => st3 # "ax"
  OBVIOUS
<1>8. n = 0 /\ Top(c).blank => c.n = 1
  OBVIOUS
<1>9. CleanupArgs(g, args) = Made(c.st, a, z, c.sp, l) /\ CleanText(z, n) = u /\ Freed(e, n, u)
  BY DEF CleanedUp
<1>s. st2 = IF had THEN "ax" ELSE c.st
  OBVIOUS
<1> HIDE DEF st2, st3, r
<1>10. g1 = Made(c.st, b, z, c.sp, l)
  <2>1. a # << >>
    BY <1>2, <1>4, SeqOfNone
  <2>2. n = 0 /\ a[Len(a)] = << >> => Len(a) = 1
    BY <1>2, <1>4, <1>8 DEF Top
  <2>3. DropEmptyArg(Made(c.st, a, z, c.sp, l), n) = Made(c.st, b, z, c.sp, l)
    <3> HIDE DEF b, l
    <3>1. b = KeptPieces(g, n) /\ g.arg = a
      BY DEF b
    <3>2. g.arg = a /\ IsSeq(a)
      BY <1>2
    <3> HIDE DEF a
    <3>3. DropEmptyArg(Made(c.st, a, z, c.sp, l), n) = Made(c.st, KeptPieces(g, n), z, c.sp, l)
      BY <2>1, <2>2, <3>2, DropEmptyMade
    <3> QED
      BY <3>1, <3>3
  <2> QED
    BY <1>9, <2>3
<1> HIDE DEF g1, b
<1>11. g2 = G(st2, b, << >>, z, c.sp, l)
  BY <1>10, <1>s, HeldMade
<1>12. IsSeq(b)
  BY <1>2, SeqOfNone DEF b, KeptPieces
<1> HIDE DEF g2
<1>13. g3 = G(st3, b, q3, z, (c.sp + h) + r, l)
  BY <1>2, <1>5, <1>6, <1>11, <1>12, RoomMade
<1>14. Piece(q3, W, {}) /\ Labels(q3) = {}
  BY <1>5, <1>6, RoomPiece
<1> HIDE DEF g3, q3, W
<1> DEFINE sp3 == (c.sp + h) + r
<1>15. sp3 \in Int
  BY <1>2, <1>5
<1> HIDE DEF sp3
<1>16. PICK p : /\ ConsMakes(g, c, n, q3, st3, z, sp3, l, p)
                /\ JoinedCall(g, c, e, n, W, p)
  <2> HIDE DEF l
  <2> QED
    BY <1>8, <1>14, CallCons
<1> DEFINE low == SubSeq(a, 1, f - 1)
<1>17. g4 = G(st3, low, p, z, sp3, l)
  BY <1>13, <1>16 DEF b, sp3, ConsMakes
<1>18. IsSeq(low)
  BY <1>2, <1>4, SeqSub
<1> HIDE DEF low, g4, l
<1>19. g5 = G(st3, low, p ## CallIns(e.s, n), z, sp3, l)
  BY <1>3, <1>7, <1>15, <1>17, <1>18, EmitCallMade
<1> HIDE DEF g5
<1>20. g6 = G(st3, low, (p ## CallIns(e.s, n)) \o u, z, sp3, l)
  BY <1>9, <1>18, <1>19, CleanedMade
<1> HIDE DEF g6
<1>21. EmitAddToSp(g6, -n) = G(st3, low, CallTail(e, p, n, u), z, sp3 - n, l)
  BY <1>3, <1>15, <1>18, <1>20, DropMade DEF CallTail
<1>22. Piece(p, W ++ ArgWords(e, n), {})
       /\ \A x \in Labels(p) : \E i \in f .. c.n : x \in Labels(a[i])
  BY <1>16 DEF JoinedCall
<1> DEFINE q == CallTail(e, p, n, u)
<1>23. Piece(q, Nums(h) ++ Left(e), {}) /\ Labels(q) = Labels(p) /\ q # << >>
  <2>1. Piece(p, TailWords(e, h, n), {})
    BY <1>22 DEF W, r, TailWords
  <2>2. h \in Nat
    BY <1>5
  <2> QED
    <3>1. n \in Nat /\ n = Len(e.a) /\ Freed(e, n, u) /\ (Procedure(e) => h = 0)
      BY <1>3, <1>9 DEF ArgPieces
    <3>2. Piece(CallTail(e, p, n, u), Nums(h) ++ Left(e), {})
          /\ Labels(CallTail(e, p, n, u)) = Labels(p) /\ CallTail(e, p, n, u) # << >>
      BY <2>1, <2>2, <3>1, TailPiece
    <3> QED
      BY <3>2
<1> HIDE DEF q
<1>24. CallCode(g, e.s, args, had) = G(st3, low, q, z, sp3 - n, l)
  BY <1>1, <1>21 DEF q
<1> QED
  BY <1>22, <1>23, <1>24 DEF st3, low, sp3, r, l, a, f, CallMakes

LEMMA ValueTemp ==
  ASSUME NEW typ, NEW c, NEW n, NEW l, NEW d, NEW b
  PROVE  [[typ |-> typ, const |-> c, n |-> n, lit |-> l, temp |-> d] EXCEPT !.temp = b]
           = [typ |-> typ, const |-> c, n |-> n, lit |-> l, temp |-> b]
OBVIOUS

LEMMA EmptyLess ==
  ASSUME NEW k, NEW cl, Empty(k, cl), NEW m \in Nat, m <= cl
  PROVE  Empty(k, m)
<1> DEFINE n == Len(k)
<1>1. IsSeq(k) /\ cl \in Nat /\ cl <= n /\ \A i \in (n - cl + 1) .. n : k[i] = << >>
  BY DEF Empty
<1>2. n \in Nat
  BY <1>1, SeqLen
<1> HIDE DEF n
<1>3. m <= n /\ \A i \in (n - m + 1) .. n : i \in (n - cl + 1) .. n
  BY <1>1, <1>2
<1> QED
  BY <1>1, <1>3 DEF Empty, n

\* CallFunction
CallArgs(e, w) == SubSeq(w, Len(w) - Len(e.a) + 1, Len(w))
CallRest(e, w) == SubSeq(w, 1, Len(w) - Len(e.a))
CallValue(e) == [ValueDef(Funcs[e.s]) EXCEPT !.temp = (Funcs[e.s] = "str")]
CallOut(x, g, w) == CallCode(g, x.e.s, CallArgs(x.e, w), x.n = 1)

LEMMA CallValueShows ==
  ASSUME NEW t, PlainTrees(t), NEW e \in t.all, e.k = "call", ~Procedure(e)
  PROVE  Shows(CallValue(e), Shown(t, e))
<1>1. e \notin t.const
  BY TreeKind
<1>2. IsTemp(e) <=> Funcs[e.s] = "str"
  BY DEF IsTemp
<1> DEFINE v == CallValue(e)
<1>3. v = [typ |-> Funcs[e.s], const |-> FALSE, n |-> 0, lit |-> 0, temp |-> (Funcs[e.s] = "str")]
  <2> DEFINE b == (Funcs[e.s] = "str")
             u == ValueDef(Funcs[e.s])
             no == FALSE
             nul == 0
  <2>1. u = [typ |-> Funcs[e.s], const |-> no, n |-> nul, lit |-> nul, temp |-> no]
    BY DEF ValueDef
  <2>2. v = [u EXCEPT !.temp = b]
    BY DEF CallValue
  <2> HIDE DEF b, u, v, no, nul
  <2>3. [[typ |-> Funcs[e.s], const |-> no, n |-> nul, lit |-> nul, temp |-> no] EXCEPT !.temp = b]
          = [typ |-> Funcs[e.s], const |-> no, n |-> nul, lit |-> nul, temp |-> b]
    BY ValueTemp
  <2>4. v = [typ |-> Funcs[e.s], const |-> no, n |-> nul, lit |-> nul, temp |-> b]
    BY <2>1, <2>2, <2>3
  <2> QED
    BY <2>4 DEF b, no, nul
<1>4. v.const = FALSE /\ v.temp = (Funcs[e.s] = "str") /\ IsValue(v)
  BY <1>3 DEF IsValue
<1> HIDE DEF v
<1>5. Shown(t, e).const = FALSE /\ (IsTemp(e) => Shown(t, e).temp = TRUE) /\ (~IsTemp(e) => Shown(t, e).temp = FALSE)
  BY <1>1, ShownOf
<1>6. v.temp = Shown(t, e).temp
  BY <1>2, <1>4, <1>5
<1> QED
  BY <1>4, <1>5, <1>6 DEF Shows, v

ArgsAre(t, e, n, c, w) ==
  /\ Len(CallArgs(e, w)) = n
  /\ \A i \in 1 .. n : Shows(CallArgs(e, w)[i], Shown(t, e.a[i]))
  /\ CallRest(e, w) = SubSeq(w, 1, c.nv - n) /\ c.nv - n \in Nat /\ c.nv - n <= c.nv

LEMMA CallArgsMeans ==
  ASSUME NEW t, NEW e, NEW n \in Nat, n = Len(e.a), NEW c, NEW w, Means(w, c), ArguedPieces(t, e, n, c)
  PROVE  ArgsAre(t, e, n, c, w)
<1>1. IsSeq(w) /\ c.nv \in Nat /\ Len(w) = c.nv /\ \A i \in 1 .. c.nv : Shows(w[i], c.vs[i])
  BY DEF Means
<1>2. n <= c.nv /\ \A j \in 1 .. n : c.vs[c.nv - n + j] = Shown(t, e.a[j])
  BY DEF ArguedPieces
<1> DEFINE m == c.nv
           lo == m - n + 1
           args == SubSeq(w, lo, m)
<1>3. CallArgs(e, w) = args /\ CallRest(e, w) = SubSeq(w, 1, m - n)
  BY <1>1 DEF CallArgs, CallRest
<1>a. m \in Nat /\ n <= m /\ Len(w) = m /\ lo = m - n + 1
  BY <1>1, <1>2
<1> HIDE DEF m, lo, args
<1>4. lo \in Int /\ m \in Int /\ 1 <= lo /\ lo <= m + 1 /\ m <= Len(w) /\ m - lo + 1 = n /\ m - n \in Nat /\ m - n <= m
  <2>1. m \in Nat /\ n <= m /\ lo = m - n + 1
    BY <1>a
  <2>2. m - n \in Nat /\ m - n <= m
    BY <2>1
  <2> DEFINE k == m - n
  <2>6. k \in Nat /\ k <= m /\ lo = k + 1 /\ m \in Nat
    BY <2>1, <2>2
  <2> HIDE DEF k
  <2>3. lo \in Int /\ m \in Int /\ 1 <= lo /\ lo <= m + 1
    BY <2>6
  <2>4. m - lo + 1 = n
    BY <2>1
  <2>5. m <= Len(w)
    BY <1>a
  <2> QED
    BY <2>2, <2>3, <2>4, <2>5
<1>5. \A i \in 1 .. n : lo + i - 1 = m - n + i /\ m - n + i \in 1 .. m
  BY <1>a
<1>6. Len(args) = m - lo + 1 /\ \A i \in 1 .. (m - lo + 1) : args[i] = w[lo + i - 1]
  BY <1>1, <1>4, SeqSub DEF args
<1>7. ASSUME NEW i \in 1 .. n PROVE Shows(args[i], Shown(t, e.a[i]))
  <2> DEFINE j == m - n + i
  <2>1. args[i] = w[j] /\ j \in 1 .. m
    BY <1>4, <1>5, <1>6
  <2>2. c.vs[j] = Shown(t, e.a[i])
    BY <1>2 DEF m
  <2> HIDE DEF j
  <2>3. Shows(w[j], c.vs[j])
    BY <1>1, <2>1 DEF m
  <2> QED
    BY <2>1, <2>2, <2>3
<1> QED
  BY <1>3, <1>4, <1>6, <1>7 DEF m, ArgsAre

LEMMA CallCleaned ==
  ASSUME NEW t, PlainTrees(t), NEW e \in t.all, e.k = "call", NEW n \in Nat, n = Len(e.a),
         NEW g, NEW c, Matches(g, c), n <= c.cl, NEW args, Len(args) = n,
         \A i \in 1 .. n : Shows(args[i], Shown(t, e.a[i])), NEW d, Lowered(c, d), e \in t.temps => d.cl = 0
  PROVE  \E z, u : CleanedUp(e, n, g, args, c.st, c.sp, z, u) /\ Empty(z, d.cl)
<1>1. g = Made(c.st, g.arg, g.clean, c.sp, g.labels) /\ Empty(g.clean, c.cl)
  BY DEF Matches
<1>2. Empty(g.clean, n)
  <2>1. n \in Nat /\ n <= c.cl
    OBVIOUS
  <2> QED
    BY <1>1, <2>1, EmptyLess
<1>3. ASSUME NEW i \in 1 .. n
      PROVE  (args[i].temp => IsTemp(e.a[i])) /\ (IsTemp(e.a[i]) => args[i].temp)
  <2>1. args[i].temp = Shown(t, e.a[i]).temp
    BY DEF Shows
  <2>2. (IsTemp(e.a[i]) => Shown(t, e.a[i]).temp = TRUE) /\ (~IsTemp(e.a[i]) => Shown(t, e.a[i]).temp = FALSE)
    BY ShownOf
  <2> QED
    BY <2>1, <2>2
<1>4. ASSUME NEW i \in 1 .. n
      PROVE  /\ \A j \in 1 .. n : IsTemp(e.a[i]) /\ IsTemp(e.a[j]) => i = j
             /\ IsTemp(e.a[i]) => e \in t.temps
  <2>1. i \in 1 .. Len(e.a)
    OBVIOUS
  <2> QED
    BY <2>1, ArgumentTree
<1>8. \A i, j \in 1 .. n : IsTemp(e.a[i]) /\ IsTemp(e.a[j]) => i = j
  BY <1>4
<1>9. PICK z, u : CleanupIs(e, n, args, c.st, g.arg, g.clean, c.sp, g.labels, z, u)
  BY <1>2, <1>3, <1>8, CleanupMade
<1>5. /\ CleanupArgs(Made(c.st, g.arg, g.clean, c.sp, g.labels), args) = Made(c.st, g.arg, z, c.sp, g.labels)
      /\ IsSeq(z) /\ CleanText(z, n) = u /\ Freed(e, n, u)
      /\ (\A i \in 1 .. n : ~IsTemp(e.a[i])) => z = g.clean
  BY <1>9 DEF CleanupIs
<1>6. CleanedUp(e, n, g, args, c.st, c.sp, z, u)
  BY <1>1, <1>5 DEF CleanedUp
<1>7. Empty(z, d.cl)
  <2>1. CASE \A i \in 1 .. n : ~IsTemp(e.a[i])
    <3>1. Empty(g.clean, d.cl)
      BY <1>1, EmptyLowered
    <3> QED
      BY <1>5, <2>1, <3>1
  <2>2. CASE \E i \in 1 .. n : IsTemp(e.a[i])
    <3>1. d.cl = 0
      BY <1>4, <2>2
    <3>2. IsSeq(z) /\ Len(z) \in Nat
      BY <1>5, SeqLen
    <3> QED
      BY <3>1, <3>2 DEF Empty
  <2> QED
    BY <2>1, <2>2
<1> QED
  BY <1>6, <1>7


\* What Argued says once the last argument has been compiled.
CallKnown(t, e, h, n, c, d) ==
  /\ e \in t.all /\ e.k = "call" /\ n \in Nat /\ h \in {0, 1} /\ (Procedure(e) => h = 0)
  /\ n = 0 /\ Top(c).blank => c.n = 1
  /\ (h = 1 => n # 0 \/ c.st = "ax") /\ (h = 0 => c.st # "ax") /\ (n > 0 => c.st = "sp")
  /\ n <= c.cl /\ Lowered(c, d) /\ (e \in t.temps => d.cl = 0)
  /\ Below(c, d, FirstPiece(c, n)) /\ FirstPiece(c, n) >= 1
  /\ Procedure(e) => SameValues(c, d, c.nv - n) /\ d.st = c.st /\ h = 0
  /\ ~Procedure(e) => Yields(c, d, c.nv - n, Shown(t, e)) /\ d.st = "sp"
  /\ d.sp = ((c.sp + h) + Len(Left(e))) - n /\ Top(d) = Pc(Nums(h) ++ Left(e), {}, FALSE)

LEMMA CallFacts ==
  ASSUME NEW t, PlainTrees(t), NEW e, NEW h, NEW n, n = Len(e.a), NEW c, NEW d,
         c.n \in Nat, c.sp \in Int, c.nv \in Nat, ArguedRest(t, e, h, n, c, d)
  PROVE  CallKnown(t, e, h, n, c, d)
<1>1. /\ e \in t.all /\ e.k = "call" /\ n \in 0 .. Len(e.a) /\ h \in {0, 1}
      /\ IF n = 0 THEN /\ h = Held(c) /\ (e.a = << >> /\ Top(c).blank => c.n = 1)
                  ELSE c.st = "sp"
      /\ n <= c.cl /\ Lowered(c, d) /\ (e \in t.temps => d.cl = 0)
      /\ Below(c, d, FirstPiece(c, n)) /\ FirstPiece(c, n) >= 1
      /\ IF Procedure(e) THEN h = 0 /\ SameValues(c, d, c.nv - n)
         ELSE Yields(c, d, c.nv - n, Shown(t, e))
      /\ d.st = (IF Procedure(e) /\ e.a = << >> THEN c.st ELSE "sp")
      /\ d.sp = c.sp - n + h + Len(Left(e))
      /\ Top(d) = Pc(Nums(h) ++ Left(e), {}, FALSE)
  BY DEF ArguedRest
<1>2. IsSeq(e.a) /\ n \in Nat
  BY <1>1, TreeOperands
<1>3. e.a = << >> <=> n = 0
  BY <1>2, SeqEmpty
<1>4. n = 0 => (h = 1 <=> c.st = "ax")
  BY <1>1 DEF Held, Truth
<1>5. d.sp = ((c.sp + h) + Len(Left(e))) - n
  BY <1>1, <1>2, LeftIs
<1>6. d.st = IF Procedure(e) THEN c.st ELSE "sp"
  BY <1>1, <1>3
<1>7. (h = 1 => n # 0 \/ c.st = "ax") /\ (h = 0 => c.st # "ax") /\ (n > 0 => c.st = "sp")
  <2>1. n # 0 => c.st = "sp"
    BY <1>1
  <2> QED
    BY <1>1, <1>2, <1>4, <2>1
<1> QED
  BY <1>1, <1>2, <1>3, <1>5, <1>6, <1>7 DEF CallKnown

LEMMA CallMatches ==
  ASSUME NEW t, PlainTrees(t), NEW e, NEW h, NEW n, n = Len(e.a), NEW g, NEW c, Matches(g, c), NEW d,
         Argued(t, e, h, n, c, d), NEW args, Len(args) = n,
         \A i \in 1 .. n : Shows(args[i], Shown(t, e.a[i])), c.nv \in Nat, NEW had \in BOOLEAN, had <=> h = 1
  PROVE  /\ Procedure(e) => Matches(CallCode(g, e.s, args, had), d)
         /\ ~Procedure(e) => Matches(At(CallCode(g, e.s, args, had), "sp"), d)
<1>1. ArguedRest(t, e, h, n, c, d) /\ ArguedPieces(t, e, n, c)
  BY ArguedSplit
<1>2. c.n \in Nat /\ c.sp \in Int /\ g.labels \in Nat
  BY DEF Matches
<1>3. /\ e \in t.all /\ e.k = "call" /\ n \in Nat /\ h \in {0, 1} /\ (Procedure(e) => h = 0)
      /\ n = 0 /\ Top(c).blank => c.n = 1
      /\ (h = 1 => n # 0 \/ c.st = "ax") /\ (h = 0 => c.st # "ax") /\ (n > 0 => c.st = "sp")
      /\ n <= c.cl /\ Lowered(c, d) /\ (e \in t.temps => d.cl = 0)
      /\ Below(c, d, FirstPiece(c, n)) /\ FirstPiece(c, n) >= 1
      /\ Procedure(e) => SameValues(c, d, c.nv - n) /\ d.st = c.st /\ h = 0
      /\ ~Procedure(e) => Yields(c, d, c.nv - n, Shown(t, e)) /\ d.st = "sp"
      /\ d.sp = ((c.sp + h) + Len(Left(e))) - n /\ Top(d) = Pc(Nums(h) ++ Left(e), {}, FALSE)
  <2>1. CallKnown(t, e, h, n, c, d)
    BY <1>1, <1>2, CallFacts
  <2> QED
    BY <2>1 DEF CallKnown
<1>4. ArgPieces(e, n, c)
  BY <1>2, ArgPiecesOf
<1>5. PICK z, u : CleanedUp(e, n, g, args, c.st, c.sp, z, u) /\ Empty(z, d.cl)
  BY <1>3, CallCleaned
<1> DEFINE f == FirstPiece(c, n)
           low == SubSeq(g.arg, 1, f - 1)
           st == IF h = 1 THEN "undef" ELSE c.st
<1>n. (had => h = 1) /\ (~had => h = 0)
  BY <1>3
<1>p. PICK q : CallMakes(e, h, n, g, c, args, had, z, q)
  BY <1>3, <1>4, <1>5, <1>n, CallCodeMade
<1>6. /\ CallCode(g, e.s, args, had) = G(st, low, q, z, ((c.sp + h) + Len(Left(e))) - n, g.labels)
      /\ Piece(q, Nums(h) ++ Left(e), {}) /\ q # << >>
      /\ \A x \in Labels(q) : \E i \in f .. c.n : x \in Labels(g.arg[i])
  BY <1>p DEF CallMakes
<1>7. f \in Nat /\ f >= 1 /\ f <= c.n + 1
  BY <1>2, <1>3, <1>4 DEF ArgPieces, PieceCount
<1>8. Matches(G(d.st, low, q, z, d.sp, g.labels), d)
  <2>1. d.sp \in Int
    BY <1>2, <1>3, LeftIs
  <2>2. Piece(q, Top(d).out, Top(d).open) /\ (q = << >> => Top(d).blank)
    BY <1>3, <1>6 DEF Pc
  <2>3. \A x \in Labels(q) : x \in (g.labels + 1) .. g.labels \/ \E i \in f .. c.n : x \in Labels(g.arg[i])
    BY <1>6
  <2>4. Below(c, d, f) /\ g.labels <= g.labels
    BY <1>2, <1>3
  <2> HIDE DEF f
  <2> DEFINE l == g.labels
  <2>5. l \in Nat /\ g.labels <= l /\ \A x \in Labels(q) : x \in (g.labels + 1) .. l \/ \E i \in f .. c.n : x \in Labels(g.arg[i])
    BY <1>2, <2>3
  <2> HIDE DEF l
  <2>6. Matches(G(d.st, SubSeq(g.arg, 1, f - 1), q, z, d.sp, l), d)
    BY <1>5, <1>7, <2>1, <2>2, <2>4, <2>5, MatchesFrom
  <2> QED
    BY <2>6 DEF l
<1>9. CallCode(g, e.s, args, had) = G(st, low, q, z, d.sp, g.labels)
  BY <1>3, <1>6
<1>10. CASE Procedure(e)
  <2>1. st = d.st
    BY <1>3, <1>10
  <2> QED
    BY <1>8, <1>9, <1>10, <2>1
<1>11. CASE ~Procedure(e)
  <2>1. d.st = "sp"
    BY <1>3, <1>11
  <2> HIDE DEF st, low
  <2>2. At(G(st, low, q, z, d.sp, g.labels), "sp") = G("sp", low, q, z, d.sp, g.labels)
    BY AtMade
  <2> QED
    BY <1>8, <1>9, <1>11, <2>1, <2>2
<1> QED
  BY <1>10, <1>11

LEMMA CallStep ==
  ASSUME NEW t, PlainTrees(t), NEW x, x.t = "call", NEW g, NEW c, Matches(g, c), NEW d,
         StepArgument(t, x, c, d), NEW w, Means(w, c)
  PROVE  /\ Procedure(x.e) => Matches(CallOut(x, g, w), d) /\ Means(CallRest(x.e, w), d)
         /\ ~Procedure(x.e) => /\ Matches(At(CallOut(x, g, w), "sp"), d)
                               /\ Means(Append(CallRest(x.e, w), CallValue(x.e)), d)
<1> DEFINE e == x.e
           h == x.n
           n == Len(e.a)
           args == CallArgs(e, w)
           had == (x.n = 1)
<1>1. x.i \in 1 .. (n + 1) /\ ~(x.i <= n) /\ Argued(t, e, h, x.i - 1, c, d)
  BY DEF StepArgument
<1>2. c.n \in Nat /\ c.sp \in Int /\ c.nv \in Nat
  BY DEF Matches, Means
<1>3. e \in t.all
  BY <1>1 DEF Argued
<1>4. n \in Nat
  BY <1>3, TreeOperands
<1>5. x.i - 1 = n
  BY <1>1, <1>4
<1>6. Argued(t, e, h, n, c, d)
  BY <1>1, <1>5
<1>7. ArguedRest(t, e, h, n, c, d) /\ ArguedPieces(t, e, n, c)
  BY <1>6, ArguedSplit
<1>8. /\ e.k = "call" /\ n \in Nat
      /\ Procedure(e) => SameValues(c, d, c.nv - n)
      /\ ~Procedure(e) => Yields(c, d, c.nv - n, Shown(t, e))
  <2>1. n = Len(e.a)
    OBVIOUS
  <2> HIDE DEF e, h, n
  <2>2. CallKnown(t, e, h, n, c, d)
    BY <1>2, <1>7, <2>1, CallFacts
  <2> QED
    BY <2>2 DEF CallKnown
<1>9. /\ Len(args) = n /\ \A i \in 1 .. n : Shows(args[i], Shown(t, e.a[i]))
      /\ CallRest(e, w) = SubSeq(w, 1, c.nv - n) /\ c.nv - n \in Nat /\ c.nv - n <= c.nv
  <2>1. n = Len(e.a)
    OBVIOUS
  <2> HIDE DEF e, n
  <2>2. ArgsAre(t, e, n, c, w)
    BY <1>4, <1>7, <2>1, CallArgsMeans
  <2> QED
    BY <2>2 DEF ArgsAre
<1>10. /\ Procedure(e) => Matches(CallCode(g, e.s, args, had), d)
       /\ ~Procedure(e) => Matches(At(CallCode(g, e.s, args, had), "sp"), d)
  <2>1. had \in BOOLEAN /\ (had <=> h = 1)
    OBVIOUS
  <2> HIDE DEF e, h, args, had
  <2> QED
    BY <1>2, <1>6, <1>9, <2>1, CallMatches
<1>11. Procedure(e) => Means(CallRest(e, w), d)
  <2> HIDE DEF e, n
  <2> QED
    BY <1>8, <1>9, MeansCut
<1>12. ~Procedure(e) => Means(Append(CallRest(e, w), CallValue(e)), d)
  <2> HIDE DEF e, n
  <2>1. ~Procedure(e) => Shows(CallValue(e), Shown(t, e))
    BY <1>3, <1>8, CallValueShows
  <2> QED
    BY <1>8, <1>9, <2>1, MeansInstead
<1> QED
  BY <1>10, <1>11, <1>12 DEF CallOut

-----------------------------------------------------------------------------
(* Variables and constants.                                                *)

\* LoadVariable
LEMMA LoadVariableStep ==
  ASSUME NEW t, PlainTrees(t), NEW e, e.k = "var", NEW g, NEW c, Matches(g, c), NEW d,
         StepExpr(t, e, c, d), NEW w, Means(w, c), NEW v, NEW typ
  PROVE  Matches(EmitLoad(g, v), d) /\ Means(Append(w, ValueDef(typ)), d)
<1>1. e \in t.all
  BY DEF StepExpr
<1>2. e \notin t.const /\ ~Procedure(e) /\ ~IsTemp(e)
  BY <1>1, TreeKind
<1>3. Yields(c, d, c.nv, Shown(t, e))
  BY <1>2 DEF StepExpr
<1>4. Shown(t, e) = Plainly
  BY <1>2, ShownOf
<1>5. Shows(ValueDef(typ), Plainly)
  BY ValueOfType
<1>6. Means(Append(w, ValueDef(typ)), d)
  BY <1>3, <1>4, <1>5, MeansMore
<1> QED
  BY <1>6, VariableStep

\* LoadConstant
ConstantOf(e) == IF e.k = "str" THEN Literal(e.n) ELSE Constant(e.k, e.n)

LEMMA LiteralShows ==
  ASSUME NEW a, NEW s, s.const = TRUE, s.n = 0, s.temp = FALSE
  PROVE  Shows(Literal(a), s)
<1> DEFINE no == FALSE
           yes == TRUE
           nul == 0
           str == "str"
           u == [typ |-> str, const |-> yes, n |-> nul, lit |-> nul, temp |-> no]
           v == [typ |-> str, const |-> yes, n |-> nul, lit |-> a, temp |-> no]
<1>1. Literal(a) = [u EXCEPT !.lit = a]
  BY DEF Literal, Constant
<1>2. v.typ = str /\ v.const = yes /\ v.n = nul /\ v.lit = a /\ v.temp = no
  OBVIOUS
<1>3. s.const = yes /\ s.n = nul /\ s.temp = no
  OBVIOUS
<1> HIDE DEF no, yes, nul, str
<1>4. [u EXCEPT !.lit = a] = v
  OBVIOUS
<1>5. IsValue(v)
  BY <1>2 DEF IsValue
<1> HIDE DEF v, u
<1>6. Shows(v, s)
  BY <1>2, <1>3, <1>5 DEF Shows
<1> QED
  BY <1>1, <1>4, <1>6

LEMMA LoadConstantStep ==
  ASSUME NEW t, PlainTrees(t), NEW e, e.k \in {"int", "bool", "str"}, NEW g, NEW c, Matches(g, c), NEW d,
         StepExpr(t, e, c, d), NEW w, Means(w, c)
  PROVE  Matches(g, d) /\ Means(Append(w, ConstantOf(e)), d)
<1>1. e \in t.all /\ c.n >= 1 /\ Below(c, d, c.n) /\ Lowered(c, d)
  BY DEF StepExpr
<1>2. e \in t.const /\ ~Procedure(e) /\ ~IsTemp(e)
  BY <1>1, TreeKind
<1>3. Yields(c, d, c.nv, Shown(t, e)) /\ d.st = c.st /\ d.sp = c.sp /\ Top(d) = Top(c)
  BY <1>2 DEF StepExpr
<1>4. Shown(t, e).const = TRUE /\ Shown(t, e).n = t.num[e] /\ Shown(t, e).temp = FALSE
  BY <1>2, ShownOf
<1>5. Sorted(t, e)
  BY <1>1, TreeOperands
<1>6. Shows(ConstantOf(e), Shown(t, e))
  <2>1. CASE e.k = "str"
    <3>1. t.num[e] = 0
      BY <1>5, <2>1 DEF Sorted
    <3>2. Shows(Literal(e.n), Shown(t, e))
      BY <1>4, <3>1, LiteralShows
    <3> QED
      BY <2>1, <3>2 DEF ConstantOf
  <2>2. CASE e.k # "str"
    <3>1. t.num[e] = e.n
      BY <1>5, <2>2 DEF Sorted
    <3>2. Shows(Constant(e.k, e.n), Shown(t, e))
      BY <1>4, <3>1, ValueOfType
    <3> QED
      BY <2>2, <3>2 DEF ConstantOf
  <2> QED
    BY <2>1, <2>2
<1>7. Means(Append(w, ConstantOf(e)), d)
  BY <1>3, <1>6, MeansMore
<1>8. Matches(g, d)
  BY <1>1, <1>3, MatchesStays
<1> QED
  BY <1>7, <1>8

-----------------------------------------------------------------------------
(* The end of a statement.                                                 *)

\* The code is in the file.
Filed(st, q, k, sp, l) ==
  [state |-> st, arg |-> << >>, clean |-> k, file |-> q, sp |-> sp, labels |-> l]

LEMMA FiledFields ==
  \A st, q, k, sp, l :
    /\ Filed(st, q, k, sp, l).state = st /\ Filed(st, q, k, sp, l).arg = << >>
    /\ Filed(st, q, k, sp, l).file = q /\ Filed(st, q, k, sp, l).sp = sp
BY DEF Filed

LEMMA FiledState ==
  ASSUME NEW st, NEW q, NEW k, NEW sp, NEW l, NEW x
  PROVE  [Filed(st, q, k, sp, l) EXCEPT !.state = x] = Filed(x, q, k, sp, l)
BY DEF Filed

LEMMA FiledFile ==
  ASSUME NEW st, NEW q, NEW k, NEW sp, NEW l, NEW x
  PROVE  [Filed(st, q, k, sp, l) EXCEPT !.file = x] = Filed(st, x, k, sp, l)
BY DEF Filed

LEMMA FiledSp ==
  ASSUME NEW st, NEW q, NEW k, NEW sp, NEW l, NEW x
  PROVE  [Filed(st, q, k, sp, l) EXCEPT !.sp = x] = Filed(st, q, k, x, l)
BY DEF Filed

LEMMA FiledLabels ==
  ASSUME NEW st, NEW q, NEW k, NEW sp, NEW l, NEW x
  PROVE  [Filed(st, q, k, sp, l) EXCEPT !.labels = x] = Filed(st, q, k, sp, x)
BY DEF Filed

LEMMA FiledEmit ==
  ASSUME NEW st, NEW q, NEW k, NEW sp, NEW l, NEW i
  PROVE  Emit(Filed(st, q, k, sp, l), i) = Filed(st, q ## i, k, sp + Growth(i), l)
<1> DEFINE g == Filed(st, q, k, sp, l)
           h == Filed(st, q ## i, k, sp, l)
           to == sp + Growth(i)
<1>1. g.arg = << >> /\ g.file = q /\ h.sp = sp
  BY FiledFields
<1>2. [g EXCEPT !.file = q ## i] = h
  BY FiledFile
<1>3. [h EXCEPT !.sp = to] = Filed(st, q ## i, k, to, l)
  <2> HIDE DEF to
  <2> QED
    BY FiledSp
<1>4. to = sp + Growth(i)
  OBVIOUS
<1> HIDE DEF g, h, to
<1>5. Write(g, i) = [g EXCEPT !.file = q ## i]
  BY <1>1 DEF Write, ##
<1>6. Emit(g, i) = [h EXCEPT !.sp = @ + Growth(i)]
  BY <1>2, <1>5 DEF Emit
<1>7. [h EXCEPT !.sp = @ + Growth(i)] = [h EXCEPT !.sp = to]
  BY <1>1, <1>4
<1> QED
  BY <1>3, <1>4, <1>6, <1>7 DEF g

LEMMA FiledAt ==
  ASSUME NEW st, NEW q, NEW k, NEW sp, NEW l, NEW to
  PROVE  At(Filed(st, q, k, sp, l), to) = Filed(to, q, k, sp, l)
BY FiledState DEF At

\* OutputArgCode, when there is one piece.
LEMMA OutputMade ==
  ASSUME NEW st, NEW q, IsSeq(q), NEW k, NEW sp, NEW l
  PROVE  OutputArgCode(G(st, << >>, q, k, sp, l)) = Filed(st, q, k, sp, l)
<1> DEFINE none == << >>
           a == none ## q
           g == G(st, none, q, k, sp, l)
           h == Made(st, none, k, sp, l)
<1>1. IsSeq(none) /\ Len(none) = 0 /\ none = << >>
  BY SeqOfNone
<1>2. none \o q = q
  BY <1>1
<1>3. g.arg = a /\ g.file = none /\ g = Made(st, a, k, sp, l)
  BY MadeFields DEF G
<1> HIDE DEF none
<1>4. a # << >> /\ a[1] = q
  <2>1. a # << >> /\ a[Len(none) + 1] = q /\ Len(none) + 1 = 1
    BY <1>1, SeqSnoc
  <2> QED
    BY <2>1
<1> HIDE DEF a
<1>5. [g EXCEPT !.arg = none] = h
  BY <1>3, MadeArg
<1>6. [h EXCEPT !.file = q] = Filed(st, q, k, sp, l)
  BY <1>1 DEF Made, Filed
<1> HIDE DEF g, h
<1>7. OutputArgCode(g) = [g EXCEPT !.file = g.file \o g.arg[1], !.arg = none]
  BY <1>1, <1>3, <1>4 DEF OutputArgCode
<1>8. OutputArgCode(g) = [g EXCEPT !.file = q, !.arg = none]
  BY <1>2, <1>3, <1>4, <1>7
<1>9. [g EXCEPT !.file = q, !.arg = none] = [[g EXCEPT !.arg = none] EXCEPT !.file = q]
  OBVIOUS
<1> QED
  BY <1>1, <1>5, <1>6, <1>8, <1>9 DEF g


\* What is true when the statement has been translated.
Finished(g) == Piece(g.file, << >>, {}) /\ g.sp = 0

LEMMA OneForm ==
  ASSUME NEW g, NEW c, Matches(g, c), c.n = 1
  PROVE  \E q : /\ g = G(c.st, << >>, q, g.clean, c.sp, g.labels) /\ Len(g.arg) = 1 /\ IsSeq(q)
                /\ Piece(q, Top(c).out, {}) /\ Labels(q) \subseteq 1 .. g.labels
                /\ c.sp \in Int /\ g.labels \in Nat
<1> DEFINE q == g.arg[c.n]
<1>1. c.n >= 1
  OBVIOUS
<1>2. /\ g = G(c.st, Under(g, c), q, g.clean, c.sp, g.labels)
      /\ IsSeq(Under(g, c)) /\ Len(Under(g, c)) = c.n - 1
      /\ c.sp \in Int /\ g.labels \in Nat
      /\ Piece(q, Top(c).out, Top(c).open)
      /\ Labels(q) \subseteq 1 .. g.labels
  BY <1>1, MatchesForm
<1>3. Len(g.arg) = 1
  BY DEF Matches
<1> HIDE DEF q
<1>4. c.n - 1 = 0
  OBVIOUS
<1>5. Under(g, c) = << >>
  BY <1>2, <1>4, SeqEmpty
<1>6. {} \in SUBSET Top(c).open
  OBVIOUS
<1>7. Piece(q, Top(c).out, {})
  BY <1>2, <1>6, PieceCloses
<1>8. IsSeq(q)
  BY <1>2, PieceIsSeq
<1> QED
  BY <1>2, <1>3, <1>5, <1>7, <1>8

ConsOnePiece(g) == ConsArgCode(g, 1, FALSE)

LEMMA ConsOne ==
  ASSUME NEW q, IsSeq(q), NEW st, NEW k, NEW sp, NEW l
  PROVE  ConsOnePiece(G(st, << >>, q, k, sp, l)) = G(st, << >>, q, k, sp, l)
<1> DEFINE none == << >>
           s == none ## q
           no == FALSE
           one == 1
           m == 1
<1>1. IsSeq(none) /\ Len(none) = 0 /\ none = << >> /\ no = FALSE
  BY SeqOfNone
<1>2. one = 1 /\ one \in Nat /\ one >= 1 /\ one <= m /\ m \in Nat /\ m >= 1 /\ m = 1 /\ m - one = 0
  OBVIOUS
<1> HIDE DEF none, no, one, m
<1>3. IsSeq(s) /\ Len(s) = 1 /\ s[1] = q
  <2>1. IsSeq(s) /\ Len(s) = Len(none) + 1 /\ s[Len(none) + 1] = q
    BY <1>1, SeqSnoc
  <2>2. Len(none) + 1 = 1
    BY <1>1
  <2> HIDE DEF s
  <2> QED
    BY <2>1, <2>2
<1>4. G(st, none, q, k, sp, l) = Made(st, s, k, sp, l)
  BY DEF G
<1> HIDE DEF s
<1>5. SubSeq(s, 1, 0) = none
  BY <1>1, <1>3
<1>6. Joined(s, m, one, no) = q
  <2>1. m - one + 1 = 1
    BY <1>2
  <2>2. Joined(s, m, one, no) = FlattenSeq(SubSeq(s, 1, m))
    BY <1>1, <2>1 DEF Joined
  <2>3. Len(s) = m
    BY <1>2, <1>3
  <2>4. SubSeq(s, 1, m) = s
    BY <1>2, <1>3, <2>3, SeqWhole
  <2>5. FlattenSeq(s) = s[1]
    <3>1. \A i \in 1 .. Len(s) : IsSeq(s[i]) /\ (i # 1 => s[i] = << >>)
      BY <1>3
    <3>2. Len(s) >= 1
      BY <1>3
    <3> QED
      BY <1>3, <3>1, <3>2, FlattenFirst
  <2> QED
    BY <1>3, <2>2, <2>4, <2>5
<1>7. ConsArgCode(Made(st, s, k, sp, l), one, no) =
        G(st, SubSeq(s, 1, m - one), Joined(s, m, one, no), k, sp, l)
  <2>1. Len(s) = m
    BY <1>2, <1>3
  <2> QED
    <3>1. one \in Nat /\ one >= 1 /\ one <= m /\ m \in Nat /\ m >= 1 /\ IsSeq(s)
      BY <1>2, <1>3
    <3> QED
      BY <2>1, <3>1, ConsMade
<1> QED
  BY <1>1, <1>2, <1>4, <1>5, <1>6, <1>7 DEF ConsOnePiece

\* What the end of a statement finds.
EndIs(t, e, c, w) ==
  /\ e \in t.all /\ ~IsTemp(e) /\ c.n = 1
  /\ (e \in t.const => Last(w).const = TRUE) /\ (e \notin t.const => Last(w).const = FALSE)
  /\ e \in t.const => c.st = "undef" /\ Top(c).out = << >> /\ c.sp = 0
  /\ e \notin t.const => /\ c.st \in {"ax", "sp"} /\ (c.st = "sp" => e.k = "call")
                         /\ Top(c).out = << >> ++ Nums(Truth(c.st = "sp"))
                         /\ c.sp = Truth(c.st = "sp")

LEMMA EndFacts ==
  ASSUME NEW t, PlainTrees(t), NEW p, NEW x, NEW c, StepEnd(t, p, x, c), ~Procedure(p.e), p.k # "call",
         NEW w, Means(w, c)
  PROVE  EndIs(t, p.e, c, w)
<1> DEFINE e == p.e
<1>1. /\ PlainStatement(t, p) /\ c.n = 1 /\ c.sp = Len(Left(e)) /\ Top(c).out = Left(e)
      /\ c.nv >= 1 /\ c.vs[c.nv] = Shown(t, e)
      /\ c.st = IF e \in t.const THEN "undef" ELSE IF e.k = "call" THEN "sp" ELSE "ax"
  BY DEF StepEnd
<1>2. e \in t.all /\ ~IsTemp(e)
  BY <1>1 DEF PlainStatement
<1>3. Shows(Last(w), Shown(t, e))
  BY <1>1, LastMeans
<1>4. (e \in t.const => Last(w).const = TRUE) /\ (e \notin t.const => Last(w).const = FALSE)
  BY <1>3, ShownOf DEF Shows
<1>5. e \in t.const => e.k # "call"
  BY <1>2, TreeKind
<1>6. ~Procedure(e)
  OBVIOUS
<1> HIDE DEF e
<1>7. (e.k # "call" => Left(e) = << >> /\ Len(Left(e)) = 0)
      /\ (e.k = "call" => Left(e) = Nums(1) /\ Len(Left(e)) = 1)
  BY <1>2, <1>6, LeftIs
<1>8. e \in t.const => c.st = "undef" /\ Top(c).out = << >> /\ c.sp = 0
  BY <1>1, <1>5, <1>7
<1>9. Nums(0) = << >> /\ << >> ++ Nums(0) = << >> /\ << >> ++ Nums(1) = Nums(1)
  BY NoNums, ShapeEmpty, NumsType
<1>10. ASSUME e \notin t.const
       PROVE  /\ c.st \in {"ax", "sp"} /\ (c.st = "sp" => e.k = "call")
              /\ Top(c).out = << >> ++ Nums(Truth(c.st = "sp"))
              /\ c.sp = Truth(c.st = "sp")
  <2>1. CASE e.k = "call"
    <3>1. c.st = "sp" /\ Truth(c.st = "sp") = 1
      BY <1>1, <1>10, <2>1 DEF Truth
    <3> QED
      BY <1>1, <1>7, <1>9, <2>1, <3>1
  <2>2. CASE e.k # "call"
    <3>1. c.st = "ax" /\ Truth(c.st = "sp") = 0
      BY <1>1, <1>10, <2>2 DEF Truth
    <3> QED
      BY <1>1, <1>7, <1>9, <2>2, <3>1
  <2> QED
    BY <2>1, <2>2
<1> QED
  BY <1>1, <1>2, <1>4, <1>8, <1>10 DEF e, EndIs

\* Nothing is left but one piece, which is all of the code.
OnePiece(h) ==
  \E st, q, k, l : h = G(st, << >>, q, k, 0, l) /\ Piece(q, << >>, {})

LEMMA OnePieceFinished ==
  ASSUME NEW h, OnePiece(h)
  PROVE  /\ Len(h.arg) = 1 /\ Finished(OutputArgCode(h)) /\ Finished(OutputArgCode(ConsOnePiece(h)))
         /\ Len(ConsOnePiece(h).arg) = 1
<1> DEFINE none == << >>
           no == {}
<1>1. IsSeq(none) /\ Len(none) = 0 /\ none = << >> /\ no = {}
  BY SeqOfNone
<1> HIDE DEF none, no
<1>2. PICK st, q, k, l : h = G(st, none, q, k, 0, l) /\ Piece(q, none, no)
  BY <1>1 DEF OnePiece
<1>3. IsSeq(q)
  BY <1>2, PieceIsSeq
<1>4. Len(h.arg) = 1
  <2>1. h.arg = none ## q
    BY <1>2, MadeFields DEF G
  <2>2. Len(none ## q) = Len(none) + 1
    BY <1>1, SeqSnoc
  <2> QED
    BY <1>1, <2>1, <2>2
<1>5. OutputArgCode(h) = Filed(st, q, k, 0, l)
  BY <1>1, <1>2, <1>3, OutputMade
<1>6. ConsOnePiece(h) = h
  BY <1>1, <1>2, <1>3, ConsOne
<1>7. Finished(OutputArgCode(h))
  BY <1>1, <1>2, <1>5, FiledFields DEF Finished
<1> QED
  BY <1>4, <1>6, <1>7

\* GenerateAssignment
AssignOut(g, op, v) == IF v.const THEN AssignConst(g, op, v) ELSE AssignExpression(g, op)

StoreIns(s) == Ins("store", s, 0)

LEMMA AssignMade ==
  ASSUME NEW q, NEW st \in {"ax", "sp"}, NEW k, NEW sp \in Int, NEW l, NEW op,
         st = "sp" => op \notin {"*", "/"}
  PROVE  \E s : AssignExpression(G(st, << >>, q, k, sp, l), op) =
                  G("sp", << >>, Taken(st, q) ## StoreIns(s), k, sp - Truth(st = "sp"), l)
<1> DEFINE none == << >>
           g == G(st, none, q, k, sp, l)
           h == IF op \in {"*", "/"} THEN g ELSE EmitAssertTosInRax(g)
           s == IF op = "/" THEN "inv/" ELSE op
           to == sp - Truth(st = "sp")
           r == Taken(st, q)
<1>1. IsSeq(none) /\ none = << >>
  BY SeqOfNone
<1> HIDE DEF none
<1>2. EmitAssertTosInRax(g) = G("ax", none, r, k, to, l)
  BY <1>1, TakenMade
<1>3. op \in {"*", "/"} => g = G("ax", none, r, k, to, l)
  <2>1. ASSUME op \in {"*", "/"} PROVE g = G("ax", none, r, k, to, l)
    <3>1. st = "ax"
      BY <2>1
    <3>2. Truth(st = "sp") = 0
      BY <3>1 DEF Truth
    <3>3. r = q /\ to = sp
      BY <3>1, <3>2 DEF Taken
    <3> QED
      BY <3>1, <3>3
  <2> QED
    BY <2>1
<1>4. h = G("ax", none, r, k, to, l)
  BY <1>2, <1>3
<1>5. AssignExpression(g, op) = At(Emit(h, StoreIns(s)), "sp")
  BY DEF AssignExpression, StoreIns
<1>6. StoreIns(s).op = "store"
  BY DEF StoreIns, Ins
<1>9. to \in Int
  BY DEF Truth
<1> HIDE DEF h, g, s, to, r, StoreIns
<1>7. Growth(StoreIns(s)) = 0 /\ to + 0 = to
  BY <1>6, <1>9, GrowthOf
<1>8. Emit(h, StoreIns(s)) = G("ax", none, r ## StoreIns(s), k, to, l)
  BY <1>1, <1>4, <1>7, EmitMade
<1>10. AssignExpression(g, op) = G("sp", none, r ## StoreIns(s), k, to, l)
  BY <1>5, <1>8, AtMade
<1> QED
  BY <1>1, <1>10 DEF g, to, r

LEMMA AssignEnd ==
  ASSUME NEW t, PlainTrees(t), NEW p, p.k = "assign", NEW x, NEW g, NEW c, Matches(g, c),
         StepEnd(t, p, x, c), NEW w, Means(w, c)
  PROVE  OnePiece(AssignOut(g, p.op, Last(w)))
<1> DEFINE none == << >>
           no == {}
           v == Last(w)
           o == Top(c).out
           nul == 0
<1>1. ~Procedure(p.e) /\ (p.e.k = "call" => p.op \notin {"*", "/"}) /\ p.k # "call"
  BY DEF StepEnd, PlainStatement
<1>20. EndIs(t, p.e, c, w)
  BY <1>1, EndFacts
<1>2. /\ c.n = 1 /\ (p.e \in t.const => v.const = TRUE) /\ (p.e \notin t.const => v.const = FALSE)
      /\ p.e \in t.const => c.st = "undef" /\ o = none /\ c.sp = nul
      /\ p.e \notin t.const => /\ c.st \in {"ax", "sp"} /\ (c.st = "sp" => p.e.k = "call")
                               /\ o = none ++ Nums(Truth(c.st = "sp"))
                               /\ c.sp = Truth(c.st = "sp")
  BY <1>20 DEF EndIs
<1>3. PICK q : /\ g = G(c.st, none, q, g.clean, c.sp, g.labels) /\ IsSeq(q)
               /\ Piece(q, o, no) /\ c.sp \in Int
  BY <1>2, OneForm
<1>4. IsSeq(none) /\ none = << >> /\ no = {} /\ none \in Shapes /\ nul = 0 /\ nul \in Int
  BY SeqOfNone, ShapeEmpty
<1> DEFINE k == g.clean
           l == g.labels
<1> HIDE DEF none, no, v, o, nul, k, l
<1>5. CASE p.e \in t.const
  <2> DEFINE i == Ins("storeconst", p.op, v.n)
  <2>1. i.op = "storeconst"
    BY DEF Ins
  <2>2. AssignOut(g, p.op, v) = Emit(g, i)
    BY <1>2, <1>5 DEF AssignOut, AssignConst
  <2> HIDE DEF i
  <2>3. g = G(c.st, none, q, k, nul, l)
    BY <1>2, <1>3, <1>5 DEF k, l
  <2>4. Growth(i) = 0 /\ nul + 0 = nul
    BY <1>4, <2>1, GrowthOf
  <2>5. Emit(g, i) = G(c.st, none, q ## i, k, nul, l)
    BY <1>4, <2>3, <2>4, EmitMade
  <2>6. Piece(q ## i, none, no)
    BY <1>2, <1>3, <1>5, <2>1, PieceStays
  <2> QED
    BY <1>4, <2>2, <2>5, <2>6 DEF OnePiece, v
<1>6. CASE p.e \notin t.const
  <2>1. AssignOut(g, p.op, v) = AssignExpression(g, p.op)
    BY <1>2, <1>6 DEF AssignOut
  <2> DEFINE st == c.st
             sp == c.sp
             op == p.op
  <2>2. st \in {"ax", "sp"} /\ (st = "sp" => op \notin {"*", "/"}) /\ sp \in Int /\ sp - Truth(st = "sp") = nul
    BY <1>1, <1>2, <1>3, <1>4, <1>6
  <2>3. g = G(st, none, q, k, sp, l)
    BY <1>3 DEF k, l
  <2>4. Piece(q, none ++ Nums(Truth(st = "sp")), no)
    BY <1>2, <1>3, <1>6
  <2> HIDE DEF st, sp, op
  <2>5. PICK s : AssignExpression(G(st, << >>, q, k, sp, l), op) =
                   G("sp", << >>, Taken(st, q) ## StoreIns(s), k, sp - Truth(st = "sp"), l)
    BY <2>2, AssignMade
  <2> DEFINE i == StoreIns(s)
  <2>6. i.op = "store"
    BY DEF StoreIns, Ins
  <2> HIDE DEF i
  <2>7. Piece(Taken(st, q), none, no)
    BY <1>4, <2>2, <2>4, TakenPiece
  <2>8. Piece(Taken(st, q) ## i, none, no)
    BY <2>6, <2>7, PieceStays
  <2>9. AssignExpression(g, op) = G("sp", none, Taken(st, q) ## i, k, nul, l)
    BY <1>4, <2>2, <2>3, <2>5 DEF i
  <2> QED
    BY <1>4, <2>1, <2>8, <2>9 DEF OnePiece, v, op
<1> QED
  BY <1>5, <1>6

\* EndCallStatement
LEMMA OutputEnd ==
  ASSUME NEW t, PlainTrees(t), NEW p, p.k = "call", NEW x, NEW g, NEW c, Matches(g, c),
         StepEnd(t, p, x, c)
  PROVE  OnePiece(g)
<1> DEFINE none == << >>
           no == {}
           nul == 0
<1>1. Procedure(p.e) /\ c.n = 1 /\ c.sp = Len(Left(p.e)) /\ Top(c).out = Left(p.e)
  BY DEF StepEnd, PlainStatement
<1>2. Top(c).out = none /\ c.sp = nul
  BY <1>1, LeftIs
<1>3. PICK q : /\ g = G(c.st, none, q, g.clean, c.sp, g.labels) /\ Piece(q, Top(c).out, no)
  BY <1>1, OneForm
<1> QED
  BY <1>2, <1>3 DEF OnePiece

\* ParseReturn
ReturnOut(g, v) == At(Emit(IF v.const THEN PushConstant(g, v) ELSE g, Ins("result", "", 0)), "sp")

LEMMA ReturnEnd ==
  ASSUME NEW t, PlainTrees(t), NEW p, p.k = "return", NEW x, NEW g, NEW c, Matches(g, c),
         StepEnd(t, p, x, c), NEW w, Means(w, c)
  PROVE  OnePiece(ReturnOut(g, Last(w)))
<1> DEFINE none == << >>
           no == {}
           v == Last(w)
           o == Top(c).out
           nul == 0
           i == Ins("result", "", 0)
           k == g.clean
           l == g.labels
<1>1. p.e.k # "call" /\ p.k # "call" /\ ~Procedure(p.e)
  BY DEF StepEnd, PlainStatement, Procedure
<1>20. EndIs(t, p.e, c, w)
  BY <1>1, EndFacts
<1>2. /\ c.n = 1 /\ (p.e \in t.const => v.const = TRUE) /\ (p.e \notin t.const => v.const = FALSE)
      /\ p.e \in t.const => c.st = "undef" /\ o = none /\ c.sp = nul
      /\ p.e \notin t.const => /\ c.st \in {"ax", "sp"} /\ (c.st = "sp" => p.e.k = "call")
                               /\ o = none ++ Nums(Truth(c.st = "sp"))
                               /\ c.sp = Truth(c.st = "sp")
  BY <1>20 DEF EndIs
<1>3. PICK q : /\ g = G(c.st, none, q, k, c.sp, l) /\ IsSeq(q)
               /\ Piece(q, o, no) /\ c.sp \in Int
  BY <1>2, OneForm
<1>4. IsSeq(none) /\ none = << >> /\ no = {} /\ nul = 0 /\ nul \in Int
      /\ i.op = "result"
  BY SeqOfNone DEF Ins
<1>5. o = none /\ c.sp = nul /\ c.st # "sp" /\ (p.e \in t.const => c.st = "undef")
  <2>1. CASE p.e \in t.const
    BY <1>2, <2>1
  <2>2. CASE p.e \notin t.const
    <3>1. c.st = "ax"
      BY <1>1, <1>2, <2>2
    <3>2. Truth(c.st = "sp") = 0
      BY <3>1 DEF Truth
    <3>3. none ++ Nums(0) = none
      BY ShapeEmpty, ShapeNone
    <3> QED
      BY <1>2, <2>2, <3>1, <3>2, <3>3
  <2> QED
    BY <2>1, <2>2
<1>9. ReturnOut(g, v) = At(Emit(IF v.const THEN PushConstant(g, v) ELSE g, i), "sp")
  BY DEF ReturnOut
<1> HIDE DEF none, no, v, o, nul, i, k, l
<1>6. PICK q1, st : /\ (IF v.const THEN PushConstant(g, v) ELSE g) = G(st, none, q1, k, nul, l)
                    /\ Piece(q1, none, no)
  <2>1. CASE p.e \in t.const
    <3>1. g = G("undef", none, q, k, nul, l)
      BY <1>3, <1>5, <2>1
    <3> DEFINE st == "undef"
    <3>2. st # "ax" /\ st = "undef"
      OBVIOUS
    <3> HIDE DEF st
    <3>3. PushConstant(G(st, none, q, k, nul, l), v) = G("ax", none, q ## LitIns(v), k, nul, l)
      BY <1>4, <3>2, PushConstantMade
    <3>4. Piece(q ## LitIns(v), none, no)
      BY <1>3, <1>5, LitPiece
    <3>5. (IF v.const THEN PushConstant(g, v) ELSE g) = G("ax", none, q ## LitIns(v), k, nul, l)
      BY <1>2, <2>1, <3>1, <3>2, <3>3
    <3> QED
      BY <3>4, <3>5
  <2>2. CASE p.e \notin t.const
    <3>1. (IF v.const THEN PushConstant(g, v) ELSE g) = g
      BY <1>2, <2>2
    <3> QED
      BY <1>3, <1>5, <3>1
  <2> QED
    BY <2>1, <2>2
<1>7. At(Emit(G(st, none, q1, k, nul, l), i), "sp") = G("sp", none, q1 ## i, k, nul, l)
  <2>1. Growth(i) = 0 /\ nul + 0 = nul
    BY <1>4, GrowthOf
  <2>2. Emit(G(st, none, q1, k, nul, l), i) = G(st, none, q1 ## i, k, nul, l)
    BY <1>4, <2>1, EmitMade
  <2> QED
    BY <2>2, AtMade
<1>8. Piece(q1 ## i, none, no)
  BY <1>4, <1>6, PieceStays
<1> QED
  BY <1>4, <1>6, <1>7, <1>8, <1>9 DEF OnePiece, v

\* ParseIf
IfOut(g, v, lbl) == IfCode([OutputArgCode(g) EXCEPT !.labels = lbl], v, lbl)

LEMMA FiledTaken ==
  ASSUME NEW st \in {"ax", "sp"}, NEW q, NEW k, NEW sp \in Int, NEW l
  PROVE  EmitAssertTosInRax(Filed(st, q, k, sp, l)) =
           Filed("ax", Taken(st, q), k, sp - Truth(st = "sp"), l)
<1> DEFINE g == Filed(st, q, k, sp, l)
<1>1. g.state = st
  BY FiledFields
<1>2. CASE st = "sp"
  <2>1. Emit(g, Pop) = Filed(st, q ## Pop, k, sp + Growth(Pop), l)
    BY FiledEmit
  <2>2. Growth(Pop) = -1 /\ Truth(st = "sp") = 1
    BY <1>2, GrowthOf DEF Truth
  <2>3. sp + Growth(Pop) = sp - Truth(st = "sp")
    BY <2>2
  <2>4. At(Emit(g, Pop), "ax") = Filed("ax", q ## Pop, k, sp - Truth(st = "sp"), l)
    BY <2>1, <2>3, FiledAt
  <2> HIDE DEF g
  <2> QED
    BY <1>1, <1>2, <2>4 DEF EmitAssertTosInRax, Taken, g
<1>3. CASE st = "ax"
  <2>1. Truth(st = "sp") = 0
    BY <1>3 DEF Truth
  <2>2. sp - Truth(st = "sp") = sp
    BY <2>1
  <2>3. EmitAssertTosInRax(g) = g
    BY <1>1, <1>3 DEF EmitAssertTosInRax
  <2>4. Taken(st, q) = q
    BY <1>3 DEF Taken
  <2> HIDE DEF g
  <2> QED
    BY <1>3, <2>2, <2>3, <2>4 DEF g
<1> QED
  BY <1>2, <1>3

Block == Ins("block", "", 1)

IfIsFinished(g, h) == Len(g.arg) = 1 /\ Finished(h) /\ h.arg = << >>

LEMMA IfFinished ==
  ASSUME NEW g, Len(g.arg) = 1, NEW st, NEW q, NEW k, NEW l, Piece(q, << >>, {})
  PROVE  IfIsFinished(g, Filed(st, q, k, 0, l))
  BY FiledFields DEF IfIsFinished, Finished

LEMMA IfEnd ==
  ASSUME NEW t, PlainTrees(t), NEW p, p.k = "if", NEW x, NEW g, NEW c, Matches(g, c),
         StepEnd(t, p, x, c), NEW w, Means(w, c)
  PROVE  IfIsFinished(g, IfOut(g, Last(w), g.labels + 1))
<1> DEFINE none == << >>
           no == {}
           v == Last(w)
           o == Top(c).out
           nul == 0
           lbl == g.labels + 1
           k == g.clean
           l == g.labels
<1>1. ~Procedure(p.e) /\ p.k # "call"
  BY DEF StepEnd, PlainStatement
<1>2. EndIs(t, p.e, c, w)
  BY <1>1, EndFacts
<1>3. /\ c.n = 1 /\ (p.e \in t.const => v.const = TRUE) /\ (p.e \notin t.const => v.const = FALSE)
      /\ p.e \in t.const => c.st = "undef" /\ o = none /\ c.sp = nul
      /\ p.e \notin t.const => /\ c.st \in {"ax", "sp"} /\ o = none ++ Nums(Truth(c.st = "sp"))
                               /\ c.sp = Truth(c.st = "sp")
  BY <1>2 DEF EndIs
<1>4. PICK q : /\ g = G(c.st, none, q, k, c.sp, l) /\ Len(g.arg) = 1 /\ IsSeq(q)
               /\ Piece(q, o, no) /\ Labels(q) \subseteq 1 .. l
               /\ c.sp \in Int /\ l \in Nat
  BY <1>3, OneForm
<1>5. lbl \in Nat /\ lbl \notin 1 .. l
  BY <1>4
<1>6. IsSeq(none) /\ none = << >> /\ no = {} /\ none \in Shapes /\ nul = 0
  BY SeqOfNone, ShapeEmpty
<1> DEFINE f == Filed(c.st, q, k, c.sp, lbl)
<1> HIDE DEF none, no, v, o, nul, lbl, k, l
<1>7. OutputArgCode(g) = Filed(c.st, q, k, c.sp, l)
  BY <1>4, <1>6, OutputMade
<1>8. [OutputArgCode(g) EXCEPT !.labels = lbl] = f
  BY <1>7, FiledLabels
<1>9. IfOut(g, v, lbl) = IfCode(f, v, lbl)
  BY <1>8 DEF IfOut
<1>10. Growth(Block) = 0 /\ Block.op = "block"
  <2>1. Block.op = "block"
    BY DEF Block, Ins
  <2> QED
    BY <2>1, GrowthOf
<1> HIDE DEF f
<1>11. CASE p.e \in t.const
  <2>1. Piece(q, none, no) /\ c.sp = nul /\ v.const = TRUE
    BY <1>3, <1>4, <1>11
  <2>2. f = Filed(c.st, q, k, nul, lbl)
    BY <2>1 DEF f
  <2>3. IfCode(f, v, lbl) = IF v.n = 0 THEN Emit(f, Block) ELSE f
    BY <2>1 DEF IfCode, Block
  <2>4. nul + Growth(Block) = nul
    BY <1>6, <1>10
  <2>5. Emit(f, Block) = Filed(c.st, q ## Block, k, nul, lbl)
    BY <2>2, <2>4, FiledEmit
  <2>6. Piece(q ## Block, none, no)
    BY <1>10, <2>1, PieceStays
  <2>7. IfIsFinished(g, Emit(f, Block)) /\ IfIsFinished(g, f)
    BY <1>4, <1>6, <2>1, <2>2, <2>5, <2>6, IfFinished
  <2>8. IfIsFinished(g, IfOut(g, v, lbl))
    BY <1>9, <2>3, <2>7
  <2> QED
    BY <2>8 DEF v, lbl
<1>12. CASE p.e \notin t.const
  <2> DEFINE r == Taken(c.st, q)
             jmp == Ins("jz", "", lbl)
             lab == Ins("label", "", lbl)
             ax == "ax"
             ud == "undef"
  <2>1. c.st \in {"ax", "sp"} /\ v.const = FALSE
    BY <1>3, <1>12
  <2>2. Piece(q, none ++ Nums(Truth(c.st = "sp")), no) /\ c.sp - Truth(c.st = "sp") = nul
    BY <1>3, <1>4, <1>6, <1>12
  <2>3. Piece(r, none, no) /\ Labels(r) = Labels(q)
    BY <1>6, <2>1, <2>2, TakenPiece
  <2>4. EmitAssertTosInRax(f) = Filed(ax, r, k, nul, lbl)
    <3>1. EmitAssertTosInRax(f) = Filed("ax", Taken(c.st, q), k, c.sp - Truth(c.st = "sp"), lbl)
      BY <1>4, <2>1, FiledTaken DEF f
    <3> QED
      BY <2>2, <3>1
  <2>5. jmp.op = "jz" /\ jmp.n = lbl /\ lab.op = "label" /\ lab.n = lbl
    BY DEF Ins
  <2>6. IfCode(f, v, lbl) =
          Emit(Emit(At(Emit(EmitAssertTosInRax(f), jmp), ud), Block), lab)
    BY <2>1 DEF IfCode, Block, EmitJump
  <2> HIDE DEF r, jmp, lab, ax, ud
  <2>7. Growth(jmp) = 0 /\ Growth(lab) = 0
    BY <2>5, GrowthOf
  <2>8. nul + Growth(jmp) = nul /\ nul + Growth(lab) = nul /\ nul + Growth(Block) = nul
    BY <1>6, <1>10, <2>7
  <2>9. Emit(EmitAssertTosInRax(f), jmp) = Filed(ax, r ## jmp, k, nul, lbl)
    BY <2>4, <2>8, FiledEmit
  <2>10. At(Emit(EmitAssertTosInRax(f), jmp), ud) = Filed(ud, r ## jmp, k, nul, lbl)
    BY <2>9, FiledAt
  <2>11. Emit(At(Emit(EmitAssertTosInRax(f), jmp), ud), Block) =
           Filed(ud, (r ## jmp) ## Block, k, nul, lbl)
    BY <2>8, <2>10, FiledEmit
  <2>12. IfCode(f, v, lbl) = Filed(ud, ((r ## jmp) ## Block) ## lab, k, nul, lbl)
    BY <2>6, <2>8, <2>11, FiledEmit
  <2> DEFINE open == no \cup {<<lbl, none>>}
  <2>13. Piece(r ## jmp, none, open) /\ Labels(r ## jmp) = Labels(r) \cup {lbl}
    <3>1. Marking(jmp) /\ jmp.n \in Nat
      BY <1>5, <2>5 DEF Marking
    <3>2. jmp.n \notin Labels(r)
      BY <1>4, <1>5, <2>3, <2>5
    <3>3. /\ Piece(Append(r, jmp), none, no \cup {<<jmp.n, none>>})
          /\ Labels(Append(r, jmp)) = Labels(r) \cup {jmp.n}
      BY <2>3, <3>1, <3>2, PieceMark
    <3> QED
      BY <2>5, <3>3 DEF ##
  <2>14. <<lbl, none>> \in open
    OBVIOUS
  <2> HIDE DEF open
  <2>15. Piece((r ## jmp) ## Block, none, open)
    BY <1>10, <2>13, PieceStays
  <2> DEFINE s == (r ## jmp) ## Block
  <2> HIDE DEF s
  <2>16. Piece(s ## lab, none, open \cup {<<lbl, none>>})
    <3>1. Marking(lab) /\ lab.n \in Nat
      BY <1>5, <2>5 DEF Marking
    <3>2. Piece(s, none, open) /\ <<lab.n, none>> \in open
      BY <2>5, <2>14, <2>15 DEF s
    <3>3. Piece(Append(s, lab), none, open \cup {<<lab.n, none>>})
      BY <3>1, <3>2, PieceMark
    <3> QED
      BY <2>5, <3>3 DEF ##
  <2>17. Piece(s ## lab, none, no)
    <3>1. no \in SUBSET (open \cup {<<lbl, none>>})
      BY <1>6
    <3> QED
      BY <2>16, <3>1, PieceCloses
  <2>18. IfIsFinished(g, IfCode(f, v, lbl))
    BY <1>4, <1>6, <2>12, <2>17, IfFinished DEF s
  <2> QED
    BY <1>9, <2>18 DEF v, lbl
<1> QED
  BY <1>11, <1>12

-----------------------------------------------------------------------------
(* The invariant.  While the machine runs, the words that a call has made  *)
(* are the strings in the memory that were not there before.               *)

Tmps(s) == {k \in 1 .. Len(s) : s[k] = "tmp"}

Kept(mem, stk, made, s) ==
  /\ mem = [a \in DOMAIN mem |-> mem[a]]
  /\ DOMAIN mem = DOMAIN InitMemory \cup {stk[k] : k \in Tmps(s)}
  /\ \A a \in DOMAIN InitMemory : mem[a] = InitMemory[a]
  /\ \A k \in Tmps(s) : /\ stk[k] \in Nat /\ FirstAddress <= stk[k] /\ stk[k] < FirstAddress + made
                        /\ mem[stk[k]].static = FALSE
  /\ \A j, k \in Tmps(s) : stk[j] = stk[k] => j = k

IsMachine(m) ==
  m = [pc |-> m.pc, rax |-> m.rax, stk |-> m.stk, env |-> m.env, mem |-> m.mem,
       made |-> m.made, calls |-> m.calls, res |-> m.res]

Holds(m, s) ==
  /\ IsMachine(m) /\ m.made \in Nat /\ IsSeq(m.stk) /\ Len(m.stk) = Len(s)
  /\ Kept(m.mem, m.stk, m.made, s)

Parsing(t) ==
  /\ prog \in Programs /\ mach = InitMach
  /\ \E c : Matches(gen, c) /\ Means(vals, c) /\ Typed(t, prog, todo, c)

Runs(p, B, m) ==
  /\ Path(p, B) /\ Meets(p, B) /\ IsSeq(p) /\ B[Len(p)] = << >>
  /\ m.pc \in 1 .. (Len(p) + 1) /\ Holds(m, B[m.pc - 1])

Running == gen.sp = 0 /\ \E B : Runs(gen.file, B, mach)

Done == mach.stk = << >> /\ gen.sp = 0 /\ mach.mem = InitMemory

Sound(t) ==
  /\ phase \in {"parse", "run", "done", "rejected", "trap"}
  /\ phase = "parse" => Parsing(t)
  /\ phase = "run" => Running
  /\ phase = "done" => Done

-----------------------------------------------------------------------------
(* The tasks of the parser.                                                *)

\* The task x in front of the tasks s.
Then(x, s) == <<x>> \o s

LEMMA NoneConcat ==
  ASSUME NEW s, IsSeq(s)
  PROVE  << >> \o s = s
<1> DEFINE none == << >>
<1>1. IsSeq(none) /\ Len(none) = 0
  BY SeqOfNone
<1> HIDE DEF none
<1>2. IsSeq(none \o s) /\ Len(none \o s) = 0 + Len(s)
      /\ \A i \in 1 .. Len(s) : (none \o s)[0 + i] = s[i]
  BY <1>1, SeqConcat
<1>3. Len(s) \in Nat
  BY SeqLen
<1>4. Len(none \o s) = Len(s) /\ \A i \in 1 .. Len(none \o s) : (none \o s)[i] = s[i]
  BY <1>2, <1>3
<1>5. none \o s = s
  BY <1>2, <1>4, SeqSame
<1> QED
  BY <1>5 DEF none

LEMMA ThenIsSeq == \A x, s : IsSeq(s) => IsSeq(Then(x, s))
<1> SUFFICES ASSUME NEW x, NEW s, IsSeq(s) PROVE IsSeq(Then(x, s))
  OBVIOUS
<1> DEFINE p == <<x>>
<1>1. IsSeq(p)
  BY SeqOne
<1> HIDE DEF p
<1>2. IsSeq(p \o s)
  BY <1>1, SeqConcat
<1> QED
  BY <1>2 DEF Then, p

LEMMA ConcatTwo ==
  ASSUME NEW s, IsSeq(s), NEW a, NEW b
  PROVE  <<a, b>> \o s = Then(a, Then(b, s))
<1>1. PICK S : s \in Seq(S)
  BY DEF IsSeq
<1> DEFINE T == S \cup {a, b}
           p == <<a>>
           q == <<b>>
           r == <<a, b>>
<1>2. s \in Seq(T)
  BY <1>1, SeqMonotonic
<1>3. p \in Seq(T) /\ q \in Seq(T) /\ r \in Seq(T)
  OBVIOUS
<1>4. Len(p) = 1 /\ Len(q) = 1 /\ Len(r) = 2 /\ p[1] = a /\ q[1] = b /\ r[1] = a /\ r[2] = b
  OBVIOUS
<1> HIDE DEF T, p, q, r
<1>5. p \o q = r
  <2>0. IsSeq(p) /\ IsSeq(q) /\ IsSeq(r)
    BY <1>3 DEF IsSeq
  <2>4. /\ IsSeq(p \o q) /\ Len(p \o q) = Len(p) + Len(q)
        /\ \A i \in 1 .. Len(p) : (p \o q)[i] = p[i]
        /\ \A i \in 1 .. Len(q) : (p \o q)[Len(p) + i] = q[i]
    BY <2>0, SeqConcat
  <2>5. (p \o q)[1] = p[1] /\ (p \o q)[1 + 1] = q[1]
    BY <1>4, <2>4
  <2>1. Len(p \o q) = 2 /\ (p \o q)[1] = a /\ (p \o q)[2] = b
    BY <1>4, <2>4, <2>5
  <2>2. IsSeq(p \o q) /\ IsSeq(r) /\ Len(p \o q) = Len(r)
    BY <1>4, <2>0, <2>1, <2>4
  <2>3. \A i \in 1 .. Len(p \o q) : (p \o q)[i] = r[i]
    BY <1>4, <2>1
  <2> QED
    BY <2>2, <2>3, SeqSame
<1>6. (p \o q) \o s = p \o (q \o s)
  BY <1>2, <1>3, ConcatAssociative
<1> QED
  BY <1>5, <1>6 DEF Then, p, q, r

LEMMA ConcatFour ==
  ASSUME NEW s, IsSeq(s), NEW a, NEW b, NEW c, NEW d
  PROVE  <<a, b, c, d>> \o s = Then(a, Then(b, Then(c, Then(d, s))))
<1>1. PICK S : s \in Seq(S)
  BY DEF IsSeq
<1> DEFINE T == S \cup {a, b, c, d}
           p == <<a, b>>
           q == <<c, d>>
           r == <<a, b, c, d>>
           u == Then(c, Then(d, s))
<1>2. s \in Seq(T)
  BY <1>1, SeqMonotonic
<1>3. p \in Seq(T) /\ q \in Seq(T) /\ r \in Seq(T)
  OBVIOUS
<1>4. /\ Len(p) = 2 /\ Len(q) = 2 /\ Len(r) = 4 /\ p[1] = a /\ p[2] = b /\ q[1] = c /\ q[2] = d
      /\ r[1] = a /\ r[2] = b /\ r[3] = c /\ r[4] = d
  OBVIOUS
<1>7. q \o s = u
  BY ConcatTwo
<1>8. IsSeq(u)
  <2>1. IsSeq(Then(d, s))
    BY ThenIsSeq
  <2> QED
    BY <2>1, ThenIsSeq
<1> HIDE DEF T, q, r, u
<1>9. p \o u = Then(a, Then(b, u))
  BY <1>8, ConcatTwo
<1> HIDE DEF p
<1>5. p \o q = r
  <2>0. IsSeq(p) /\ IsSeq(q) /\ IsSeq(r)
    BY <1>3 DEF IsSeq
  <2>4. /\ IsSeq(p \o q) /\ Len(p \o q) = Len(p) + Len(q)
        /\ \A i \in 1 .. Len(p) : (p \o q)[i] = p[i]
        /\ \A i \in 1 .. Len(q) : (p \o q)[Len(p) + i] = q[i]
    BY <2>0, SeqConcat
  <2>5. /\ (p \o q)[1] = p[1] /\ (p \o q)[2] = p[2]
        /\ (p \o q)[2 + 1] = q[1] /\ (p \o q)[2 + 2] = q[2]
    BY <1>4, <2>4
  <2>1. /\ Len(p \o q) = 4 /\ (p \o q)[1] = a /\ (p \o q)[2] = b
        /\ (p \o q)[3] = c /\ (p \o q)[4] = d
    BY <1>4, <2>4, <2>5
  <2>2. IsSeq(p \o q) /\ IsSeq(r) /\ Len(p \o q) = Len(r)
    BY <1>4, <2>0, <2>1, <2>4
  <2>3. \A i \in 1 .. Len(p \o q) : (p \o q)[i] = r[i]
    BY <1>4, <2>1
  <2> QED
    BY <2>2, <2>3, SeqSame
<1>6. (p \o q) \o s = p \o (q \o s)
  BY <1>2, <1>3, ConcatAssociative
<1> QED
  BY <1>5, <1>6, <1>7, <1>9 DEF r, u

LEMMA TypedCons ==
  ASSUME NEW t, NEW p, NEW x, NEW s, NEW b, NEW c, Step(t, p, x, b, c), Typed(t, p, s, c)
  PROVE  Typed(t, p, Then(x, s), b)
<1>1. PICK d : Chain(t, p, s, c, d)
  BY DEF Typed
<1>2. IsSeq(s)
  BY DEF Typed
<1>3. Chain(t, p, Then(x, s), b, d)
  BY <1>1, <1>2, ChainCons DEF Then
<1>4. IsSeq(Then(x, s))
  BY <1>2, ThenIsSeq
<1> QED
  BY <1>3, <1>4 DEF Typed

\* What the first task is, and what comes after it.
First(t, c, d) ==
  /\ prog \in Programs /\ mach = InitMach /\ Matches(gen, c) /\ Means(vals, c)
  /\ Step(t, prog, todo[1], c, d) /\ Typed(t, prog, Tail(todo), d)

LEMMA FirstTask ==
  ASSUME NEW t, Sound(t), NEW k, Next1(k)
  PROVE  todo[1].t = k /\ phase = "parse" /\ \E c, d : First(t, c, d)
<1>1. phase = "parse" /\ todo # << >> /\ todo[1].t = k
  BY DEF Next1
<1>2. Parsing(t)
  BY <1>1 DEF Sound
<1>3. PICK c : Matches(gen, c) /\ Means(vals, c) /\ Typed(t, prog, todo, c)
  BY <1>2 DEF Parsing
<1>4. PICK d : Step(t, prog, todo[1], c, d) /\ Typed(t, prog, Tail(todo), d)
  BY <1>1, <1>3, TypedFirst
<1>5. First(t, c, d)
  BY <1>2, <1>3, <1>4 DEF First, Parsing
<1> QED
  BY <1>1, <1>5

\* The parser goes on, or it stops.
LEMMA GoesOn ==
  ASSUME NEW t, prog \in Programs, mach = InitMach, phase = "parse",
         UNCHANGED <<prog, mach, phase>>, NEW c, Matches(gen', c), Means(vals', c),
         Typed(t, prog, todo', c)
  PROVE  Sound(t)'
<1>1. prog' \in Programs /\ mach' = InitMach /\ phase' = "parse" /\ Typed(t, prog', todo', c)
  OBVIOUS
<1>2. Parsing(t)'
  BY <1>1 DEF Parsing
<1> QED
  BY <1>1, <1>2 DEF Sound

LEMMA IsRejected ==
  ASSUME NEW t, Stop("rejected")
  PROVE  Sound(t)'
  BY DEF Stop, Sound

LEMMA IsTrapped ==
  ASSUME NEW t, Stop("trap")
  PROVE  Sound(t)'
  BY DEF Stop, Sound

\* A task that ends.
LEMMA TaskEnds ==
  ASSUME NEW t, phase = "parse", NEW c, NEW d, First(t, c, d), Matches(gen', d), Means(vals', d),
         Become(<< >>), UNCHANGED <<prog, mach, phase>>
  PROVE  Sound(t)'
<1>1. Typed(t, prog, Tail(todo), d) /\ prog \in Programs /\ mach = InitMach
  BY DEF First
<1>2. IsSeq(Tail(todo))
  BY <1>1 DEF Typed
<1>3. todo' = Tail(todo)
  BY <1>2, NoneConcat DEF Become
<1> QED
  BY <1>1, <1>3, GoesOn

LEMMA TaskFields ==
  \A t, e, n, i : /\ Loop(t, e, n, i).t = t /\ Loop(t, e, n, i).e = e
                  /\ Loop(t, e, n, i).n = n /\ Loop(t, e, n, i).i = i
                  /\ Task(t, e).t = t /\ Task(t, e).e = e
                  /\ Parse(e).t = "expr" /\ Parse(e).e = e
  BY DEF Loop, Task, Parse

LEMMA ParseIsStep ==
  ASSUME NEW t, NEW p, NEW e, NEW c, NEW d, StepExpr(t, e, c, d)
  PROVE  Step(t, p, Parse(e), c, d)
<1>1. Parse(e).t = "expr" /\ Parse(e).e = e
  BY TaskFields
<1> QED
  BY <1>1 DEF Step

\* A task that is replaced by other tasks.
LEMMA TaskBecomesOne ==
  ASSUME NEW t, phase = "parse", NEW c, NEW d, First(t, c, d), UNCHANGED <<prog, mach, phase>>,
         NEW x, Become(<<x>>), NEW b, Matches(gen', b), Means(vals', b), Step(t, prog, x, b, d)
  PROVE  Sound(t)'
<1>1. Typed(t, prog, Tail(todo), d) /\ prog \in Programs /\ mach = InitMach
  BY DEF First
<1>2. todo' = Then(x, Tail(todo))
  BY DEF Become, Then
<1>3. Typed(t, prog, todo', b)
  BY <1>1, <1>2, TypedCons
<1> QED
  BY <1>1, <1>3, GoesOn

LEMMA TaskBecomesTwo ==
  ASSUME NEW t, phase = "parse", NEW c, NEW d, First(t, c, d), UNCHANGED <<prog, mach, phase>>,
         NEW x, NEW y, Become(<<x, y>>), NEW b, Matches(gen', b), Means(vals', b), NEW b1,
         Step(t, prog, x, b, b1), Step(t, prog, y, b1, d)
  PROVE  Sound(t)'
<1>1. Typed(t, prog, Tail(todo), d) /\ prog \in Programs /\ mach = InitMach
  BY DEF First
<1>2. IsSeq(Tail(todo))
  BY <1>1 DEF Typed
<1>3. todo' = Then(x, Then(y, Tail(todo)))
  BY <1>2, ConcatTwo DEF Become
<1>4. Typed(t, prog, Then(y, Tail(todo)), b1)
  BY <1>1, TypedCons
<1>5. Typed(t, prog, todo', b)
  BY <1>3, <1>4, TypedCons
<1> QED
  BY <1>1, <1>5, GoesOn

LEMMA TaskBecomesFour ==
  ASSUME NEW t, phase = "parse", NEW c, NEW d, First(t, c, d), UNCHANGED <<prog, mach, phase>>,
         NEW x1, NEW x2, NEW x3, NEW x4, Become(<<x1, x2, x3, x4>>),
         NEW b, Matches(gen', b), Means(vals', b), NEW b1, NEW b2, NEW b3,
         Step(t, prog, x1, b, b1), Step(t, prog, x2, b1, b2), Step(t, prog, x3, b2, b3),
         Step(t, prog, x4, b3, d)
  PROVE  Sound(t)'
<1>1. Typed(t, prog, Tail(todo), d) /\ prog \in Programs /\ mach = InitMach
  BY DEF First
<1>2. IsSeq(Tail(todo))
  BY <1>1 DEF Typed
<1> DEFINE u == Tail(todo)
<1>8. todo' = <<x1, x2, x3, x4>> \o u
  BY DEF Become
<1>9. IsSeq(u)
  BY <1>2
<1> HIDE DEF u
<1>10. <<x1, x2, x3, x4>> \o u = Then(x1, Then(x2, Then(x3, Then(x4, u))))
  BY <1>9, ConcatFour
<1>3. todo' = Then(x1, Then(x2, Then(x3, Then(x4, Tail(todo)))))
  BY <1>8, <1>10 DEF u
<1>4. Typed(t, prog, Then(x4, Tail(todo)), b3)
  BY <1>1, TypedCons
<1>5. Typed(t, prog, Then(x3, Then(x4, Tail(todo))), b2)
  BY <1>4, TypedCons
<1>6. Typed(t, prog, Then(x2, Then(x3, Then(x4, Tail(todo)))), b1)
  BY <1>5, TypedCons
<1>7. Typed(t, prog, todo', b)
  BY <1>3, <1>6, TypedCons
<1> QED
  BY <1>1, <1>7, GoesOn

LEMMA TaskParsed ==
  ASSUME NEW t, phase = "parse", NEW c, NEW d, First(t, c, d), NEW g, NEW v, Parsed(g, v),
         Matches(g, d), Means(Append(vals, v), d)
  PROVE  Sound(t)'
<1>1. Typed(t, prog, Tail(todo), d) /\ prog \in Programs /\ mach = InitMach
  BY DEF First
<1>2. /\ gen' = g /\ vals' = Append(vals, v) /\ todo' = Tail(todo)
      /\ UNCHANGED <<prog, mach, phase>>
  BY DEF Parsed, Keep
<1>3. Matches(gen', d) /\ Means(vals', d) /\ Typed(t, prog, todo', d)
  BY <1>1, <1>2
<1> QED
  BY <1>1, <1>2, <1>3, GoesOn

-----------------------------------------------------------------------------
(* The actions of the parser.                                              *)

LEMMA BeginStatementSound ==
  ASSUME NEW t, Sound(t), BeginStatement
  PROVE  Sound(t)'
<1>1. Next1("entry")
  BY DEF BeginStatement
<1>2. PICK c, d : First(t, c, d)
  BY <1>1, FirstTask
<1>3. phase = "parse" /\ todo[1].t = "entry"
  BY <1>1, FirstTask
<1>4. StepEntry(c, d)
  BY <1>2, <1>3 DEF First, Step
<1>5. gen' = At(NewArgCode(gen), "undef") /\ Become(<< >>) /\ UNCHANGED <<prog, vals, mach, phase>>
  BY DEF BeginStatement
<1>6. Matches(gen, c) /\ Means(vals, c)
  BY <1>2 DEF First
<1>7. Matches(gen', d) /\ Means(vals', d)
  BY <1>4, <1>5, <1>6, BeginStep
<1> QED
  BY <1>2, <1>3, <1>5, <1>7, TaskEnds

\* An expression of kind k comes first.
LEMMA FirstExpr ==
  ASSUME NEW t, Sound(t), NEW k, Expr(k)
  PROVE  \E c, d : First(t, c, d) /\ StepExpr(t, todo[1].e, c, d)
<1>1. Next1("expr")
  BY DEF Expr
<1>2. PICK c, d : First(t, c, d)
  BY <1>1, FirstTask
<1>3. todo[1].t = "expr"
  BY <1>1, FirstTask
<1>4. StepExpr(t, todo[1].e, c, d)
  BY <1>2, <1>3 DEF First, Step
<1> QED
  BY <1>2, <1>4

LEMMA ExprKind ==
  ASSUME NEW k, Expr(k)
  PROVE  phase = "parse" /\ todo[1].e.k = k
  BY DEF Expr, Next1

LEMMA LoadVariableSound ==
  ASSUME NEW t, PlainTrees(t), Sound(t), LoadVariable
  PROVE  Sound(t)'
<1> DEFINE e == todo[1].e
           v == e.s
<1>1. Expr("var") /\ Parsed(EmitLoad(gen, v), ValueDef(Types[v]))
  BY DEF LoadVariable
<1>2. PICK c, d : First(t, c, d) /\ StepExpr(t, e, c, d)
  BY <1>1, FirstExpr
<1>3. phase = "parse" /\ e.k = "var"
  BY <1>1, ExprKind
<1>4. Matches(gen, c) /\ Means(vals, c)
  BY <1>2 DEF First
<1> HIDE DEF e, v
<1>5. Matches(EmitLoad(gen, v), d) /\ Means(Append(vals, ValueDef(Types[v])), d)
  BY <1>2, <1>3, <1>4, LoadVariableStep
<1> QED
  BY <1>1, <1>2, <1>3, <1>5, TaskParsed

LEMMA LoadConstantSound ==
  ASSUME NEW t, PlainTrees(t), Sound(t), LoadConstant
  PROVE  Sound(t)'
<1> DEFINE e == todo[1].e
<1>1. PICK typ \in {"int", "bool", "str"} :
         Expr(typ) /\ Parsed(gen, IF typ = "str" THEN Literal(e.n) ELSE Constant(typ, e.n))
  BY DEF LoadConstant
<1>2. PICK c, d : First(t, c, d) /\ StepExpr(t, e, c, d)
  BY <1>1, FirstExpr
<1>3. phase = "parse" /\ e.k = typ
  BY <1>1, ExprKind
<1>4. Matches(gen, c) /\ Means(vals, c)
  BY <1>2 DEF First
<1> HIDE DEF e
<1>5. Parsed(gen, ConstantOf(e))
  BY <1>1, <1>3 DEF ConstantOf
<1>6. e.k \in {"int", "bool", "str"}
  BY <1>1, <1>3
<1>7. Matches(gen, d) /\ Means(Append(vals, ConstantOf(e)), d)
  BY <1>2, <1>4, <1>6, LoadConstantStep
<1> QED
  BY <1>2, <1>3, <1>5, <1>7, TaskParsed

LEMMA ParseUnarySound ==
  ASSUME NEW t, PlainTrees(t), Sound(t), ParseUnary
  PROVE  Sound(t)'
<1> DEFINE e == todo[1].e
<1>1. PICK k \in {"neg", "not"} : Expr(k) /\ Descend(<<Parse(e.a[1]), Task(k, e)>>)
  BY DEF ParseUnary
<1>2. PICK c, d : First(t, c, d) /\ StepExpr(t, e, c, d)
  BY <1>1, FirstExpr
<1>3. phase = "parse" /\ e.k = k
  BY <1>1, ExprKind
<1>4. Matches(gen, c) /\ Means(vals, c)
  BY <1>2 DEF First
<1>5. c.n \in Nat /\ c.cl \in Nat
  BY <1>4 DEF Matches, Empty
<1> DEFINE x == Parse(e.a[1])
           y == Task(k, e)
<1>6. y.t = k /\ y.e = e
  BY TaskFields
<1>7. Become(<<x, y>>) /\ UNCHANGED <<prog, vals, gen, mach, phase>>
  BY <1>1 DEF Descend
<1> HIDE DEF e
<1>8. PICK b : StepExpr(t, e.a[1], c, b) /\ StepUnary(t, e, b, d)
  BY <1>1, <1>2, <1>3, <1>5, UnaryParts
<1>9. Step(t, prog, x, c, b)
  BY <1>8, ParseIsStep
<1> HIDE DEF x, y
<1>10. Step(t, prog, y, b, d)
  BY <1>1, <1>3, <1>6, <1>8 DEF Step
<1>11. Matches(gen', c) /\ Means(vals', c) /\ UNCHANGED <<prog, mach, phase>>
  BY <1>4, <1>7
<1> QED
  BY <1>2, <1>3, <1>7, <1>9, <1>10, <1>11, TaskBecomesTwo

LEMMA NegateSound ==
  ASSUME NEW t, PlainTrees(t), Sound(t), Negate
  PROVE  Sound(t)'
<1> DEFINE e == todo[1].e
           v == Last(vals)
<1>1. Next1("neg")
  BY DEF Negate
<1>2. PICK c, d : First(t, c, d)
  BY <1>1, FirstTask
<1>3. phase = "parse" /\ todo[1].t = "neg"
  BY <1>1, FirstTask
<1>4. StepUnary(t, e, c, d) /\ e.k = "neg"
  BY <1>2, <1>3 DEF First, Step
<1>5. Matches(gen, c) /\ Means(vals, c)
  BY <1>2 DEF First
<1>6. CASE v.const /\ v.n < 0
  <2>1. Stop("rejected")
    BY <1>6 DEF Negate
  <2> QED
    BY <2>1, IsRejected
<1>7. CASE ~(v.const /\ v.n < 0)
  <2>1. /\ gen' = (IF v.const THEN gen ELSE EmitNegate(gen))
        /\ vals' = Append(Front(vals), IF v.const THEN [v EXCEPT !.n = -@] ELSE v)
        /\ Become(<< >>) /\ UNCHANGED <<prog, mach, phase>>
    BY <1>7 DEF Negate
  <2>2. v = Last(vals)
    OBVIOUS
  <2> HIDE DEF e, v
  <2>3. /\ Matches(IF v.const THEN gen ELSE EmitNegate(gen), d)
        /\ Means(Append(Front(vals), IF v.const THEN [v EXCEPT !.n = -@] ELSE v), d)
    BY <1>4, <1>5, <2>2, NegateStep
  <2>4. Matches(gen', d) /\ Means(vals', d)
    BY <2>1, <2>3
  <2> QED
    BY <1>2, <1>3, <2>1, <2>4, TaskEnds
<1> QED
  BY <1>6, <1>7

LEMMA NotSound ==
  ASSUME NEW t, PlainTrees(t), Sound(t), Not
  PROVE  Sound(t)'
<1> DEFINE e == todo[1].e
<1>1. Next1("not")
  BY DEF Not
<1>2. PICK c, d : First(t, c, d)
  BY <1>1, FirstTask
<1>3. phase = "parse" /\ todo[1].t = "not"
  BY <1>1, FirstTask
<1>4. StepUnary(t, e, c, d) /\ e.k = "not"
  BY <1>2, <1>3 DEF First, Step
<1>5. Matches(gen, c) /\ Means(vals, c)
  BY <1>2 DEF First
<1>6. CASE Last(vals).typ # "bool"
  <2>1. Stop("rejected")
    BY <1>6 DEF Not
  <2> QED
    BY <2>1, IsRejected
<1>7. CASE ~(Last(vals).typ # "bool")
  <2>1. gen' = EmitNot(gen) /\ vals' = vals /\ Become(<< >>) /\ UNCHANGED <<prog, mach, phase>>
    BY <1>7 DEF Not
  <2> HIDE DEF e
  <2>3. Matches(EmitNot(gen), d) /\ Means(vals, d)
    BY <1>4, <1>5, NotStep
  <2>4. Matches(gen', d) /\ Means(vals', d)
    BY <2>1, <2>3
  <2> QED
    BY <1>2, <1>3, <2>1, <2>4, TaskEnds
<1> QED
  BY <1>6, <1>7

LEMMA ParseOperatorSound ==
  ASSUME NEW t, PlainTrees(t), Sound(t), ParseOperator
  PROVE  Sound(t)'
<1> DEFINE e == todo[1].e
           x1 == Parse(e.a[1])
           x2 == Task("right", e)
           x3 == Parse(e.a[2])
           x4 == Task("op", e)
<1>1. Expr("op") /\ Descend(<<x1, x2, x3, x4>>)
  BY DEF ParseOperator
<1>2. PICK c, d : First(t, c, d) /\ StepExpr(t, e, c, d)
  BY <1>1, FirstExpr
<1>3. phase = "parse" /\ e.k = "op"
  BY <1>1, ExprKind
<1>4. Matches(gen, c) /\ Means(vals, c)
  BY <1>2 DEF First
<1>5. c.n \in Nat /\ c.cl \in Nat
  BY <1>4 DEF Matches, Empty
<1>6. x2.t = "right" /\ x2.e = e /\ x4.t = "op" /\ x4.e = e
  BY TaskFields
<1>7. Become(<<x1, x2, x3, x4>>) /\ UNCHANGED <<prog, vals, gen, mach, phase>>
  BY <1>1 DEF Descend
<1> HIDE DEF e
<1>8. PICK b1, b2, b3 : /\ StepExpr(t, e.a[1], c, b1) /\ StepRight(b1, b2)
                        /\ StepExpr(t, e.a[2], b2, b3) /\ StepOp(t, e, b3, d)
  BY <1>2, <1>3, <1>5, OperatorParts
<1>9. Step(t, prog, x1, c, b1) /\ Step(t, prog, x3, b2, b3)
  BY <1>8, ParseIsStep
<1> HIDE DEF x1, x2, x3, x4
<1>10. Step(t, prog, x2, b1, b2) /\ Step(t, prog, x4, b3, d)
  BY <1>6, <1>8 DEF Step
<1>11. Matches(gen', c) /\ Means(vals', c) /\ UNCHANGED <<prog, mach, phase>>
  BY <1>4, <1>7
<1> QED
  BY <1>2, <1>3, <1>7, <1>9, <1>10, <1>11, TaskBecomesFour

LEMMA RightOperandSound ==
  ASSUME NEW t, Sound(t), RightOperand
  PROVE  Sound(t)'
<1>1. Next1("right")
  BY DEF RightOperand
<1>2. PICK c, d : First(t, c, d)
  BY <1>1, FirstTask
<1>3. phase = "parse" /\ todo[1].t = "right"
  BY <1>1, FirstTask
<1>4. StepRight(c, d)
  BY <1>2, <1>3 DEF First, Step
<1>5. Matches(gen, c) /\ Means(vals, c)
  BY <1>2 DEF First
<1>6. gen' = NewArgCode(gen) /\ vals' = vals /\ Become(<< >>) /\ UNCHANGED <<prog, mach, phase>>
  BY DEF RightOperand
<1>7. Matches(gen', d) /\ Means(vals', d)
  BY <1>4, <1>5, <1>6, RightOperandStep
<1> QED
  BY <1>2, <1>3, <1>6, <1>7, TaskEnds

LEMMA OperatorSound ==
  ASSUME NEW t, PlainTrees(t), Sound(t), Operator
  PROVE  Sound(t)'
<1> DEFINE e == todo[1].e
           n == Len(vals)
           r == GenerateOp(NewArgCode(gen), e.s, vals[n - 1], vals[n])
<1>1. Next1("op")
  BY DEF Operator
<1>2. PICK c, d : First(t, c, d)
  BY <1>1, FirstTask
<1>3. phase = "parse" /\ todo[1].t = "op"
  BY <1>1, FirstTask
<1>4. StepOp(t, e, c, d)
  BY <1>2, <1>3 DEF First, Step
<1>5. Matches(gen, c) /\ Means(vals, c)
  BY <1>2 DEF First
<1>6. IF r.err # "" THEN Stop(r.err)
      ELSE /\ gen' = ConsArgCode(r.g, 3, FALSE)
           /\ vals' = Append(SubSeq(vals, 1, n - 2), r.v)
           /\ Become(<< >>) /\ UNCHANGED <<prog, mach, phase>>
  BY DEF Operator
<1>7. e.k = "op"
  BY <1>4 DEF StepOp
<1> HIDE DEF e
<1>8. r.err # "panic" /\ Matches(ConsArgCode(r.g, 3, FALSE), d)
      /\ Means(Append(SubSeq(vals, 1, n - 2), r.v), d)
  BY <1>4, <1>5, <1>7, OperatorStep
<1>9. r.err \in {"", "rejected", "panic"}
  BY DEF GenerateOp, ConstOpConst, TosOpConst, TosOpNos, Outcome
<1> HIDE DEF n, r
<1>10. CASE r.err # ""
  <2>1. r.err = "rejected"
    BY <1>8, <1>9, <1>10
  <2>2. Stop("rejected")
    BY <1>6, <1>10, <2>1
  <2> QED
    BY <2>2, IsRejected
<1>11. CASE r.err = ""
  <2>1. /\ gen' = ConsArgCode(r.g, 3, FALSE)
        /\ vals' = Append(SubSeq(vals, 1, n - 2), r.v)
        /\ Become(<< >>) /\ UNCHANGED <<prog, mach, phase>>
    BY <1>6, <1>11
  <2>2. Matches(gen', d) /\ Means(vals', d)
    BY <1>8, <2>1
  <2> QED
    BY <1>2, <1>3, <2>1, <2>2, TaskEnds
<1> QED
  BY <1>10, <1>11

LEMMA ParseLogicSound ==
  ASSUME NEW t, PlainTrees(t), Sound(t), ParseLogic
  PROVE  Sound(t)'
<1> DEFINE e == todo[1].e
           x == Parse(e.a[1])
           y == Loop("term", e, 0, 2)
<1>1. PICK k \in {"and", "or"} : Expr(k) /\ Descend(<<x, y>>)
  BY DEF ParseLogic
<1>2. PICK c, d : First(t, c, d) /\ StepExpr(t, e, c, d)
  BY <1>1, FirstExpr
<1>3. phase = "parse" /\ e.k = k
  BY <1>1, ExprKind
<1>4. Matches(gen, c) /\ Means(vals, c)
  BY <1>2 DEF First
<1>5. c.n \in Nat /\ c.cl \in Nat
  BY <1>4 DEF Matches, Empty
<1>6. y.t = "term"
  BY TaskFields
<1>7. Become(<<x, y>>) /\ UNCHANGED <<prog, vals, gen, mach, phase>>
  BY <1>1 DEF Descend
<1> HIDE DEF e
<1>8. PICK b : StepExpr(t, e.a[1], c, b) /\ StepLogic(t, y, b, d)
  BY <1>1, <1>2, <1>3, <1>5, LogicParts
<1>9. Step(t, prog, x, c, b)
  BY <1>8, ParseIsStep
<1> HIDE DEF x, y
<1>10. Step(t, prog, y, b, d)
  BY <1>6, <1>8 DEF Step
<1>11. Matches(gen', c) /\ Means(vals', c) /\ UNCHANGED <<prog, mach, phase>>
  BY <1>4, <1>7
<1> QED
  BY <1>2, <1>3, <1>7, <1>9, <1>10, <1>11, TaskBecomesTwo

\* The first task is one of the loop over the operands of && and ||.
LEMMA FirstLogic ==
  ASSUME NEW t, Sound(t), NEW k \in {"term", "drop", "label"}, Next1(k)
  PROVE  /\ phase = "parse" /\ todo[1].t = k
         /\ \E c, d : First(t, c, d) /\ StepLogic(t, todo[1], c, d) /\ Matches(gen, c) /\ Means(vals, c)
<1>1. PICK c, d : First(t, c, d)
  BY FirstTask
<1>2. phase = "parse" /\ todo[1].t = k
  BY FirstTask
<1>3. StepLogic(t, todo[1], c, d)
  BY <1>1, <1>2 DEF First, Step
<1>4. Matches(gen, c) /\ Means(vals, c)
  BY <1>1 DEF First
<1> QED
  BY <1>1, <1>2, <1>3, <1>4

LEMMA LogTermSound ==
  ASSUME NEW t, PlainTrees(t), Sound(t), LogTerm
  PROVE  Sound(t)'
<1> DEFINE x == todo[1]
           v == Last(vals)
           lbl == LabelOf(x, gen)
           h == IF x.i = 2 THEN [gen EXCEPT !.labels = lbl] ELSE gen
           jump == IF x.e.k = "and" THEN "jz" ELSE "jnz"
           y == Parse(x.e.a[x.i])
           z == Loop("drop", x.e, lbl, x.i)
<1>1. Next1("term")
  BY DEF LogTerm
<1>2. phase = "parse" /\ x.t = "term"
  BY <1>1, FirstLogic
<1>3. PICK c, d : First(t, c, d) /\ StepLogic(t, x, c, d) /\ Matches(gen, c) /\ Means(vals, c)
  BY <1>1, FirstLogic
<1>4. jump \in {"jz", "jnz"} /\ lbl = LabelOf(x, gen)
      /\ h = IF x.i = 2 THEN [gen EXCEPT !.labels = lbl] ELSE gen
  OBVIOUS
<1>5. CASE v.typ # "bool"
  <2>1. Stop("rejected")
    BY <1>5 DEF LogTerm
  <2> QED
    BY <2>1, IsRejected
<1>6. CASE ~(v.typ # "bool")
  <2>1. /\ gen' = EmitJump(IF v.const THEN EmitLoadBool(h, v.n) ELSE h, jump, lbl)
        /\ Become(<<y, z>>) /\ UNCHANGED <<prog, vals, mach, phase>>
    BY <1>6 DEF LogTerm, LabelOf
  <2>2. z.t = "drop"
    BY TaskFields
  <2> HIDE DEF x, lbl, h, jump
  <2>3. v.const = FALSE
    <3>1. c.nv >= 1 + Truth(x.t = "drop") /\ c.vs[c.nv] = Plainly
      BY <1>3 DEF StepLogic
    <3>2. Truth(x.t = "drop") = 0
      BY <1>2 DEF Truth
    <3>3. c.nv >= 1
      BY <3>1, <3>2
    <3>4. Shows(v, Plainly)
      BY <1>3, <3>1, <3>3, LastMeans
    <3> QED
      BY <3>4 DEF Shows, Plainly
  <2>4. PICK b, b1 : /\ Matches(EmitJump(h, jump, lbl), b) /\ Means(vals, b)
                     /\ StepExpr(t, x.e.a[x.i], b, b1)
                     /\ StepLogic(t, z, b1, d)
    BY <1>2, <1>3, <1>4, TermStep
  <2>5. gen' = EmitJump(h, jump, lbl)
    BY <2>1, <2>3
  <2>6. Step(t, prog, y, b, b1)
    BY <2>4, ParseIsStep
  <2> HIDE DEF y, z
  <2>7. Step(t, prog, z, b1, d)
    BY <2>2, <2>4 DEF Step
  <2>8. Matches(gen', b) /\ Means(vals', b)
    BY <2>1, <2>4, <2>5
  <2>9. UNCHANGED <<prog, mach, phase>>
    BY <2>1
  <2> QED
    BY <1>2, <1>3, <2>1, <2>6, <2>7, <2>8, <2>9, TaskBecomesTwo
<1> QED
  BY <1>5, <1>6

LEMMA DropOperandSound ==
  ASSUME NEW t, PlainTrees(t), Sound(t), DropOperand
  PROVE  Sound(t)'
<1> DEFINE x == todo[1]
           y == AfterDrop(x)
<1>1. Next1("drop")
  BY DEF DropOperand
<1>2. phase = "parse" /\ x.t = "drop"
  BY <1>1, FirstLogic
<1>3. PICK c, d : First(t, c, d) /\ StepLogic(t, x, c, d) /\ Matches(gen, c) /\ Means(vals, c)
  BY <1>1, FirstLogic
<1>4. x.e \in t.all
  BY <1>3 DEF StepLogic
<1>5. Len(x.e.a) \in Nat
  BY <1>4, TreeOperands
<1>6. CASE Last(vals).typ # "bool"
  <2>1. Stop("rejected")
    BY <1>6 DEF DropOperand
  <2> QED
    BY <2>1, IsRejected
<1>7. CASE ~(Last(vals).typ # "bool")
  <2>1. /\ vals' = Front(vals) /\ gen' = gen /\ Become(<<y>>) /\ UNCHANGED <<prog, mach, phase>>
    BY <1>7 DEF DropOperand, AfterDrop
  <2>2. y.t \in {"term", "label"}
    BY TaskFields DEF AfterDrop
  <2>3. y = AfterDrop(x)
    OBVIOUS
  <2> HIDE DEF x, y
  <2>4. PICK b : Matches(gen, b) /\ Means(Front(vals), b) /\ StepLogic(t, y, b, d)
    BY <1>2, <1>3, <1>5, <2>3, DropStep
  <2>5. Step(t, prog, y, b, d)
    BY <2>2, <2>4 DEF Step
  <2>6. Matches(gen', b) /\ Means(vals', b)
    BY <2>1, <2>4
  <2> QED
    BY <1>2, <1>3, <2>1, <2>5, <2>6, TaskBecomesOne
<1> QED
  BY <1>6, <1>7

LEMMA EndLogicSound ==
  ASSUME NEW t, Sound(t), EndLogic
  PROVE  Sound(t)'
<1> DEFINE x == todo[1]
<1>1. Next1("label")
  BY DEF EndLogic
<1>2. phase = "parse" /\ x.t = "label"
  BY <1>1, FirstLogic
<1>3. PICK c, d : First(t, c, d) /\ StepLogic(t, x, c, d) /\ Matches(gen, c) /\ Means(vals, c)
  BY <1>1, FirstLogic
<1>4. /\ gen' = Emit(gen, Ins("label", "", x.n)) /\ vals' = vals
      /\ Become(<< >>) /\ UNCHANGED <<prog, mach, phase>>
  BY DEF EndLogic
<1> HIDE DEF x
<1>5. Matches(Emit(gen, Ins("label", "", x.n)), d) /\ Means(vals, d)
  BY <1>2, <1>3, LabelStep
<1>6. Matches(gen', d) /\ Means(vals', d)
  BY <1>4, <1>5
<1> QED
  BY <1>2, <1>3, <1>4, <1>6, TaskEnds

-----------------------------------------------------------------------------
(* Calls.                                                                  *)

LEMMA ParseFuncCallSound ==
  ASSUME NEW t, PlainTrees(t), Sound(t), ParseFuncCall
  PROVE  Sound(t)'
<1> DEFINE e == todo[1].e
           h == Truth(gen.state = "ax")
           x == Argument(e, h, 1)
<1>1. Expr("call") /\ Descend(<<x>>)
  BY DEF ParseFuncCall
<1>2. PICK c, d : First(t, c, d) /\ StepExpr(t, e, c, d)
  BY <1>1, FirstExpr
<1>3. phase = "parse" /\ e.k = "call"
  BY <1>1, ExprKind
<1>4. Matches(gen, c) /\ Means(vals, c)
  BY <1>2 DEF First
<1>5. c.n \in Nat /\ c.cl \in Nat
  BY <1>4 DEF Matches, Empty
<1>6. gen.state = c.st
  BY <1>4 DEF Matches, Made
<1>7. h = Held(c)
  BY <1>6 DEF Held
<1>8. Become(<<x>>) /\ UNCHANGED <<prog, vals, gen, mach, phase>>
  BY <1>1 DEF Descend
<1>9. x.t \in {"arg", "call"}
  BY TaskFields DEF Argument
<1> HIDE DEF e, h
<1>10. StepArgument(t, x, c, d)
  BY <1>2, <1>3, <1>5, <1>7, CallBegins
<1> HIDE DEF x
<1>11. Step(t, prog, x, c, d)
  BY <1>9, <1>10 DEF Step
<1>12. Matches(gen', c) /\ Means(vals', c) /\ UNCHANGED <<prog, mach, phase>>
  BY <1>4, <1>8
<1> QED
  BY <1>2, <1>3, <1>8, <1>11, <1>12, TaskBecomesOne

LEMMA BeginArgumentSound ==
  ASSUME NEW t, PlainTrees(t), Sound(t), BeginArgument
  PROVE  Sound(t)'
<1> DEFINE x == todo[1]
           y == Parse(x.e.a[x.i])
           z == Loop("pass", x.e, x.n, x.i)
           g == Emit(At(IF x.i > 1 THEN NewArgCode(gen) ELSE gen, "undef"), Comment)
<1>1. Next1("arg")
  BY DEF BeginArgument
<1>2. PICK c, d : First(t, c, d)
  BY <1>1, FirstTask
<1>3. phase = "parse" /\ x.t = "arg"
  BY <1>1, FirstTask
<1>4. StepArgument(t, x, c, d)
  BY <1>2, <1>3 DEF First, Step
<1>5. Matches(gen, c) /\ Means(vals, c)
  BY <1>2 DEF First
<1>6. gen' = g /\ vals' = vals /\ Become(<<y, z>>) /\ UNCHANGED <<prog, mach, phase>>
  BY DEF BeginArgument, Comment
<1>7. z.t = "pass"
  BY TaskFields
<1> HIDE DEF x
<1>8. PICK b, b1 : /\ Matches(g, b) /\ Means(vals, b) /\ StepExpr(t, x.e.a[x.i], b, b1)
                   /\ StepPass(t, z, b1, d)
  BY <1>3, <1>4, <1>5, ArgumentStep
<1>9. Step(t, prog, y, b, b1)
  BY <1>8, ParseIsStep
<1> HIDE DEF y, z, g
<1>10. Step(t, prog, z, b1, d)
  BY <1>7, <1>8 DEF Step
<1>11. Matches(gen', b) /\ Means(vals', b)
  BY <1>6, <1>8
<1> QED
  BY <1>2, <1>3, <1>6, <1>9, <1>10, <1>11, TaskBecomesTwo

LEMMA PassArgumentSound ==
  ASSUME NEW t, PlainTrees(t), Sound(t), PassArgument
  PROVE  Sound(t)'
<1> DEFINE x == todo[1]
           v == Last(vals)
           y == NextArgument(x)
<1>1. Next1("pass")
  BY DEF PassArgument
<1>2. PICK c, d : First(t, c, d)
  BY <1>1, FirstTask
<1>3. phase = "parse" /\ x.t = "pass"
  BY <1>1, FirstTask
<1>4. StepPass(t, x, c, d)
  BY <1>2, <1>3 DEF First, Step
<1>5. Matches(gen, c) /\ Means(vals, c)
  BY <1>2 DEF First
<1>6. gen' = PassCode(gen, v) /\ vals' = vals /\ Become(<<y>>) /\ UNCHANGED <<prog, mach, phase>>
  BY DEF PassArgument, PassCode, NextArgument
<1>7. y.t \in {"arg", "call"}
  BY TaskFields DEF NextArgument, Argument
<1> HIDE DEF x
<1>8. PICK b : Matches(PassCode(gen, v), b) /\ Means(vals, b) /\ StepArgument(t, y, b, d)
  BY <1>3, <1>4, <1>5, PassStep
<1> HIDE DEF y
<1>9. Step(t, prog, y, b, d)
  BY <1>7, <1>8 DEF Step
<1>10. Matches(gen', b) /\ Means(vals', b)
  BY <1>6, <1>8
<1> QED
  BY <1>2, <1>3, <1>6, <1>9, <1>10, TaskBecomesOne

LEMMA CallFunctionSound ==
  ASSUME NEW t, PlainTrees(t), Sound(t), CallFunction
  PROVE  Sound(t)'
<1> DEFINE x == todo[1]
           e == x.e
           used == prog.k # "call" \/ Len(todo) > 2
<1>1. Next1("call")
  BY DEF CallFunction
<1>2. PICK c, d : First(t, c, d)
  BY <1>1, FirstTask
<1>3. phase = "parse" /\ x.t = "call"
  BY <1>1, FirstTask
<1>4. StepArgument(t, x, c, d)
  BY <1>2, <1>3 DEF First, Step
<1>5. Matches(gen, c) /\ Means(vals, c)
  BY <1>2 DEF First
<1>6. e.k = "call"
  BY <1>4 DEF StepArgument, Argued
<1>7. CASE used /\ Funcs[e.s] # "none"
  <2>1. /\ Become(<< >>) /\ gen' = At(CallOut(x, gen, vals), "sp")
        /\ vals' = Append(CallRest(e, vals), CallValue(e)) /\ UNCHANGED <<prog, mach, phase>>
    BY <1>7 DEF CallFunction, CallOut, CallArgs, CallRest, CallValue
  <2>2. ~Procedure(e)
    BY <1>7 DEF Procedure
  <2> HIDE DEF x
  <2>3. Matches(At(CallOut(x, gen, vals), "sp"), d) /\ Means(Append(CallRest(e, vals), CallValue(e)), d)
    BY <1>3, <1>4, <1>5, <2>2, CallStep
  <2>4. Matches(gen', d) /\ Means(vals', d)
    BY <2>1, <2>3
  <2> QED
    BY <1>2, <1>3, <2>1, <2>4, TaskEnds
<1>8. CASE ~used /\ Funcs[e.s] = "none"
  <2>1. /\ Become(<< >>) /\ gen' = CallOut(x, gen, vals)
        /\ vals' = CallRest(e, vals) /\ UNCHANGED <<prog, mach, phase>>
    BY <1>8 DEF CallFunction, CallOut, CallArgs, CallRest, CallValue
  <2>2. Procedure(e)
    BY <1>6, <1>8 DEF Procedure
  <2> HIDE DEF x
  <2>3. Matches(CallOut(x, gen, vals), d) /\ Means(CallRest(e, vals), d)
    BY <1>3, <1>4, <1>5, <2>2, CallStep
  <2>4. Matches(gen', d) /\ Means(vals', d)
    BY <2>1, <2>3
  <2> QED
    BY <1>2, <1>3, <2>1, <2>4, TaskEnds
<1>9. CASE ~(used /\ Funcs[e.s] # "none") /\ ~(~used /\ Funcs[e.s] = "none")
  <2>1. Stop("rejected")
    BY <1>9 DEF CallFunction
  <2> QED
    BY <2>1, IsRejected
<1> QED
  BY <1>7, <1>8, <1>9

-----------------------------------------------------------------------------
(* The end of a statement.                                                 *)

LEMMA MachineBegins ==
  Holds(InitMach, << >>) /\ InitMach.pc = 1
<1> DEFINE none == << >>
           m == InitMach
           nul == 0
<1>1. /\ IsMachine(m) /\ m.made = nul /\ m.stk = none /\ m.mem = InitMemory /\ m.pc = 1
  BY DEF InitMach, IsMachine
<1>2. IsSeq(none) /\ Len(none) = 0 /\ nul \in Nat
  BY SeqOfNone
<1>3. Tmps(none) = {}
  BY <1>2 DEF Tmps
<1> HIDE DEF none, m, nul
<1>4. {m.stk[k] : k \in Tmps(none)} = {}
  BY <1>3
<1>5. Kept(m.mem, m.stk, m.made, none)
  BY <1>1, <1>3, <1>4, MemoryAssumption DEF Kept
<1>6. Holds(m, none)
  BY <1>1, <1>2, <1>5 DEF Holds
<1> QED
  BY <1>1, <1>6 DEF none, m

LEMMA OutputSound ==
  ASSUME NEW t, mach = InitMach, NEW g, Len(g.arg) \in {0, 1}, Finished(OutputArgCode(g)), Output(g)
  PROVE  Sound(t)'
<1> DEFINE none == << >>
           no == {}
           h == OutputArgCode(g)
           p == h.file
<1>0. \A n : n \in {0, 1} => ~(n > 1)
  OBVIOUS
<1>1. ~(Len(g.arg) > 1)
  BY <1>0
<1>2. gen' = h /\ phase' = "run" /\ mach' = InitMach
  BY <1>1 DEF Output, Keep
<1>3. Piece(p, none, no) /\ h.sp = 0
  BY DEF Finished
<1> HIDE DEF h, p, none, no
<1>4. PICK B : Path(p, B) /\ Meets(p, B) /\ B[Len(p)] = none
  BY <1>3 DEF Piece
<1>5. IsSeq(p) /\ Len(p) \in Nat
  BY <1>3, PieceIsSeq
<1>6. B[0] = none
  BY <1>4 DEF Path, none
<1>7. Holds(InitMach, none) /\ InitMach.pc = 1
  BY MachineBegins DEF none
<1>8. Runs(p, B, InitMach)
  <2>1. InitMach.pc \in 1 .. (Len(p) + 1) /\ InitMach.pc - 1 = 0
    BY <1>5, <1>7
  <2>2. Holds(InitMach, B[InitMach.pc - 1])
    BY <1>6, <1>7, <2>1
  <2> QED
    BY <1>4, <1>5, <2>1, <2>2 DEF Runs, none
<1>9. Running'
  BY <1>2, <1>3, <1>8 DEF Running, p
<1> QED
  BY <1>2, <1>9 DEF Sound

\* The first task is the end of a statement.
EndsWith(t, k, c) ==
  /\ prog.k = (IF k = "output" THEN "call" ELSE k) /\ mach = InitMach
  /\ Matches(gen, c) /\ Means(vals, c) /\ StepEnd(t, prog, todo[1], c)

LEMMA FirstEnd ==
  ASSUME NEW t, Sound(t), NEW k \in {"assign", "if", "return", "output"}, Next1(k)
  PROVE  \E c : EndsWith(t, k, c)
<1>1. PICK c, d : First(t, c, d)
  BY FirstTask
<1>2. todo[1].t = k
  BY FirstTask
<1>3. StepEnd(t, prog, todo[1], c)
  BY <1>1, <1>2 DEF First, Step
<1>4. prog.k \in {"assign", "if", "return", "call"}
  BY <1>3 DEF StepEnd, PlainStatement
<1>5. k = IF prog.k = "call" THEN "output" ELSE prog.k
  BY <1>2, <1>3 DEF StepEnd
<1>6. prog.k = (IF k = "output" THEN "call" ELSE k)
  BY <1>4, <1>5
<1>7. EndsWith(t, k, c)
  BY <1>1, <1>3, <1>6 DEF EndsWith, First
<1> QED
  BY <1>7

LEMMA OnePieceSound ==
  ASSUME NEW t, mach = InitMach, NEW g, OnePiece(g), Output(g) \/ Output(ConsOnePiece(g))
  PROVE  Sound(t)'
<1>1. /\ Len(g.arg) = 1 /\ Finished(OutputArgCode(g)) /\ Finished(OutputArgCode(ConsOnePiece(g)))
      /\ Len(ConsOnePiece(g).arg) = 1
  BY OnePieceFinished
<1>2. ASSUME Output(g) PROVE Sound(t)'
  BY <1>1, <1>2, OutputSound
<1>3. ASSUME Output(ConsOnePiece(g)) PROVE Sound(t)'
  <2> DEFINE h == ConsOnePiece(g)
  <2>1. Len(h.arg) = 1 /\ Finished(OutputArgCode(h)) /\ Output(h)
    BY <1>1, <1>3
  <2> HIDE DEF h
  <2> QED
    BY <2>1, OutputSound
<1> QED
  BY <1>2, <1>3

LEMMA GenerateAssignmentSound ==
  ASSUME NEW t, PlainTrees(t), Sound(t), GenerateAssignment
  PROVE  Sound(t)'
<1> DEFINE v == Last(vals)
           g == AssignOut(gen, prog.op, v)
           typ == Types[prog.s]
           bad == ~CanAssign(typ, v) \/ (v.const /\ ConstRejected(typ, prog.op, v))
<1>1. Next1("assign")
  BY DEF GenerateAssignment
<1>2. PICK c : EndsWith(t, "assign", c)
  BY <1>1, FirstEnd
<1>3. prog.k = "assign" /\ mach = InitMach
  BY <1>2 DEF EndsWith
<1>4. Matches(gen, c) /\ Means(vals, c) /\ StepEnd(t, prog, todo[1], c)
  BY <1>2 DEF EndsWith
<1>5. OnePiece(g)
  BY <1>3, <1>4, AssignEnd
<1>6. Len(g.arg) = 1
  BY <1>5, OnePieceFinished
<1>7. IF bad THEN Stop("rejected") ELSE Output(ConsArgCode(g, Len(g.arg), FALSE))
  BY DEF GenerateAssignment, AssignOut
<1> HIDE DEF g, bad
<1>8. CASE bad
  BY <1>7, <1>8, IsRejected
<1>9. CASE ~bad
  <2>1. Output(ConsOnePiece(g))
    BY <1>6, <1>7, <1>9 DEF ConsOnePiece
  <2> QED
    BY <1>3, <1>5, <2>1, OnePieceSound
<1> QED
  BY <1>8, <1>9

LEMMA ParseReturnSound ==
  ASSUME NEW t, PlainTrees(t), Sound(t), ParseReturn
  PROVE  Sound(t)'
<1> DEFINE v == Last(vals)
           g == ReturnOut(gen, v)
           bad == ~CanAssign(Types[prog.s], v)
<1>1. Next1("return")
  BY DEF ParseReturn
<1>2. PICK c : EndsWith(t, "return", c)
  BY <1>1, FirstEnd
<1>3. prog.k = "return" /\ mach = InitMach
  BY <1>2 DEF EndsWith
<1>4. Matches(gen, c) /\ Means(vals, c) /\ StepEnd(t, prog, todo[1], c)
  BY <1>2 DEF EndsWith
<1>5. OnePiece(g)
  BY <1>3, <1>4, ReturnEnd
<1>7. IF bad THEN Stop("rejected") ELSE Output(ConsOnePiece(g))
  BY DEF ParseReturn, ReturnOut, ConsOnePiece
<1> HIDE DEF g, bad
<1>8. CASE bad
  BY <1>7, <1>8, IsRejected
<1>9. CASE ~bad
  BY <1>3, <1>5, <1>7, <1>9, OnePieceSound
<1> QED
  BY <1>8, <1>9

LEMMA EndCallStatementSound ==
  ASSUME NEW t, PlainTrees(t), Sound(t), EndCallStatement
  PROVE  Sound(t)'
<1>1. Next1("output") /\ Output(gen)
  BY DEF EndCallStatement
<1>2. PICK c : EndsWith(t, "output", c)
  BY <1>1, FirstEnd
<1>3. prog.k = "call" /\ mach = InitMach
  BY <1>2 DEF EndsWith
<1>4. Matches(gen, c) /\ Means(vals, c) /\ StepEnd(t, prog, todo[1], c)
  BY <1>2 DEF EndsWith
<1>5. OnePiece(gen)
  BY <1>3, <1>4, OutputEnd
<1> QED
  BY <1>1, <1>3, <1>5, OnePieceSound

LEMMA ParseIfSound ==
  ASSUME NEW t, PlainTrees(t), Sound(t), ParseIf
  PROVE  Sound(t)'
<1> DEFINE v == Last(vals)
           lbl == gen.labels + 1
           h == IfOut(gen, v, lbl)
<1>1. Next1("if")
  BY DEF ParseIf
<1>2. PICK c : EndsWith(t, "if", c)
  BY <1>1, FirstEnd
<1>3. prog.k = "if" /\ mach = InitMach
  BY <1>2 DEF EndsWith
<1>4. Matches(gen, c) /\ Means(vals, c) /\ StepEnd(t, prog, todo[1], c)
  BY <1>2 DEF EndsWith
<1>5. IfIsFinished(gen, h)
  BY <1>3, <1>4, IfEnd
<1>6. Len(gen.arg) = 1 /\ Finished(h) /\ h.arg = << >>
  BY <1>5 DEF IfIsFinished
<1>7. IF v.typ # "bool" THEN Stop("rejected")
      ELSE IF Len(gen.arg) > 1 THEN Stop("panic") ELSE Output(h)
  BY DEF ParseIf, IfOut
<1> HIDE DEF h, v
<1>8. CASE v.typ # "bool"
  <2>1. Stop("rejected")
    BY <1>7, <1>8
  <2> QED
    BY <2>1, IsRejected
<1>9. CASE ~(v.typ # "bool")
  <2>1. Output(h)
    BY <1>6, <1>7, <1>9
  <2>2. OutputArgCode(h) = h
    BY <1>6 DEF OutputArgCode
  <2>3. Len(h.arg) = 0
    BY <1>6, SeqOfNone
  <2>4. Len(h.arg) \in {0, 1} /\ Finished(OutputArgCode(h))
    BY <1>6, <2>2, <2>3
  <2> QED
    BY <1>3, <2>1, <2>4, OutputSound
<1> QED
  BY <1>8, <1>9

-----------------------------------------------------------------------------
(* The beginning of a statement.                                           *)

Blank == Config("undef", 0, 0, 0, << >>, 0, << >>)
Entered == Config("undef", 0, 0, 1, <<Pc(<< >>, {}, TRUE)>>, 0, << >>)
Procedured(e) ==
  Config(IF e.a = << >> THEN "undef" ELSE "sp", 0, 0, 1, <<Pc(<< >>, {}, FALSE)>>, 0, << >>)

EnteredIs(c) ==
  /\ c.n = 1 /\ c.st = "undef" /\ c.sp = 0 /\ c.cl = 0 /\ c.nv = 0 /\ c.pc[1] = Pc(<< >>, {}, TRUE)

LEMMA EnteredOf == EnteredIs(Entered)
  BY DEF Entered, EnteredIs, Config

LEMMA EntersStatement == StepEntry(Blank, Entered)
<1>1. /\ Blank.n = 0 /\ Blank.st = "undef" /\ Blank.sp = 0 /\ Blank.cl = 0 /\ Blank.nv = 0
  BY DEF Blank, Config
<1>2. EnteredIs(Entered)
  BY EnteredOf
<1>3. Top(Entered) = Entered.pc[1]
  BY <1>2 DEF EnteredIs, Top
<1> QED
  BY <1>1, <1>2, <1>3 DEF StepEntry, EnteredIs

LEMMA BlankMatches == Matches(InitGen, Blank) /\ Means(<< >>, Blank)
<1> DEFINE none == << >>
           nul == 0
           st == "undef"
           c == Blank
           g == InitGen
<1>1. /\ c.n = nul /\ c.st = st /\ c.sp = nul /\ c.cl = nul /\ c.nv = nul
  BY DEF Blank, Config
<1>2. g = Made(st, none, none, nul, nul) /\ g.arg = none /\ g.clean = none /\ g.labels = nul
  BY DEF InitGen, Made
<1>3. IsSeq(none) /\ Len(none) = nul /\ nul \in Nat /\ nul \in Int /\ nul = 0
  BY SeqOfNone
<1> HIDE DEF none, nul, st, c, g
<1>4. Empty(none, nul)
  BY <1>3 DEF Empty
<1>5. Apart(none)
  BY <1>3 DEF Apart
<1>6. Matches(g, c)
  BY <1>1, <1>2, <1>3, <1>4, <1>5 DEF Matches
<1>7. Means(none, c)
  BY <1>1, <1>3 DEF Means
<1> QED
  BY <1>6, <1>7 DEF none, c, g

LEMMA PcFields ==
  \A out, open, blank : LET p == Pc(out, open, blank) IN p.out = out /\ p.open = open /\ p.blank = blank
  BY DEF Pc

\* The statement's expression, when it is a value.
LEMMA ValueParsed ==
  ASSUME NEW t, PlainTrees(t), NEW e \in t.all, ~Procedure(e)
  PROVE  /\ StepExpr(t, e, Entered, After(t, e, Entered, 0))
         /\ LET c == After(t, e, Entered, 0) IN
            /\ c.n = 1 /\ c.sp = Len(Left(e)) /\ Top(c).out = Left(e) /\ c.nv = 1
            /\ c.vs[c.nv] = Shown(t, e)
            /\ c.st = IF e \in t.const THEN "undef" ELSE IF e.k = "call" THEN "sp" ELSE "ax"
<1> DEFINE none == << >>
           nul == 0
           one == 1
           b == Entered
           c == After(t, e, b, nul)
           p == IF e \in t.const THEN Top(b)
                ELSE Pc((Top(b).out ++ Nums(Held(b))) ++ Left(e), Top(b).open, FALSE)
<1>1. EnteredIs(b)
  BY EnteredOf
<1>2. /\ b.n = 1 /\ b.st = "undef" /\ b.sp = 0 /\ b.cl = 0 /\ b.nv = 0
      /\ Top(b).out = none /\ Top(b).open = {}
  <2> DEFINE no == {}
             yes == TRUE
  <2>1. b.n = 1 /\ b.pc[1] = Pc(none, no, yes)
    BY <1>1 DEF EnteredIs
  <2>2. Top(b) = Pc(none, no, yes)
    BY <2>1 DEF Top
  <2> HIDE DEF b, no, yes, none
  <2>3. Top(b).out = none /\ Top(b).open = no
    BY <2>2, PcFields
  <2> QED
    BY <1>1, <2>3 DEF EnteredIs, no
<1>3. Held(b) = 0
  BY <1>2 DEF Held, Truth
<1>4. Nums(0) = none /\ none \in Shapes /\ none ++ none = none
  BY NoNums, ShapeEmpty
<1>5. Left(e) \in Shapes /\ Len(Left(e)) \in Nat /\ (e.k # "call" => Left(e) = none /\ Len(Left(e)) = 0)
  BY LeftIs
<1>6. none ++ Left(e) = Left(e)
  BY <1>5, ShapeEmpty
<1>7. e \in t.const => e.k # "call"
  BY TreeKind
<1>8. /\ b.n \in Nat /\ b.n >= 1 /\ b.sp \in Int /\ b.nv \in Nat
  BY <1>2
<1>9. nul \in Nat /\ nul = 0 /\ nul <= b.cl /\ (e \in t.temps => nul = 0) /\ one \in Nat /\ one >= 1 /\ one = 1
  BY <1>2
<1> HIDE DEF none, nul, b, one
<1>10. StepExpr(t, e, b, c)
  <2>1. Top(b).out \in Shapes
    BY <1>2, <1>4
  <2>2. Top(b).out = << >> /\ Top(b).open = {}
    BY <1>2 DEF none
  <2>3. b.n = 1
    BY <1>2
  <2> QED
    BY <1>8, <1>9, <2>1, <2>2, <2>3, AfterStep
<1>11. /\ c.st = (IF e \in t.const THEN b.st ELSE IF e.k = "call" THEN "sp" ELSE "ax")
       /\ c.sp = (IF e \in t.const THEN b.sp ELSE b.sp + Held(b) + Len(Left(e)))
       /\ c.n = b.n /\ c.pc = With(b.pc, b.n, p) /\ c.nv = b.nv + 1
       /\ c.vs = With(b.vs, b.nv + 1, Shown(t, e))
  BY DEF After, Config
<1> HIDE DEF c, p
<1>18. one \in Nat /\ one >= 1
  BY <1>9
<1>12. c.n = one /\ c.nv = one
  BY <1>2, <1>9, <1>11
<1>13. Top(c) = p
  <2>1. c.pc = With(b.pc, one, p)
    BY <1>2, <1>9, <1>11
  <2>2. c.pc[one] = p /\ \A i \in 1 .. (one - 1) : c.pc[i] = b.pc[i]
    BY <1>18, <2>1, WithAt
  <2> QED
    BY <1>12, <2>2 DEF Top
<1>14. c.vs[c.nv] = Shown(t, e)
  <2> DEFINE s == Shown(t, e)
  <2>1. c.vs = With(b.vs, one, s)
    BY <1>2, <1>9, <1>11
  <2> HIDE DEF s
  <2>2. c.vs[one] = s /\ \A i \in 1 .. (one - 1) : c.vs[i] = b.vs[i]
    BY <1>18, <2>1, WithAt
  <2> QED
    BY <1>12, <2>2 DEF s
<1>15. c.sp = Len(Left(e))
  <2>1. CASE e \in t.const
    BY <1>2, <1>5, <1>7, <1>11, <2>1
  <2>2. CASE e \notin t.const
    <3>1. c.sp = b.sp + Held(b) + Len(Left(e))
      BY <1>11, <2>2
    <3>2. b.sp = 0 /\ Held(b) = 0 /\ Len(Left(e)) \in Nat
      BY <1>2, <1>3, <1>5
    <3> QED
      BY <3>1, <3>2
  <2> QED
    BY <2>1, <2>2
<1>16. p.out = Left(e)
  <2>1. CASE e \in t.const
    <3>1. p = Top(b)
      BY <2>1 DEF p
    <3> QED
      BY <1>2, <1>5, <1>7, <2>1, <3>1
  <2>2. CASE e \notin t.const
    <3>1. p = Pc((Top(b).out ++ Nums(Held(b))) ++ Left(e), Top(b).open, FALSE)
      BY <2>2 DEF p
    <3>2. p.out = (Top(b).out ++ Nums(Held(b))) ++ Left(e)
      BY <3>1, PcFields
    <3>3. Top(b).out ++ Nums(Held(b)) = none
      BY <1>2, <1>3, <1>4
    <3> QED
      BY <1>6, <3>2, <3>3
  <2> QED
    BY <2>1, <2>2
<1>17. c.st = IF e \in t.const THEN "undef" ELSE IF e.k = "call" THEN "sp" ELSE "ax"
  BY <1>2, <1>11
<1> QED
  BY <1>9, <1>10, <1>12, <1>13, <1>14, <1>15, <1>16, <1>17 DEF c, b, nul

LEMMA ProcedureParsed ==
  ASSUME NEW t, PlainTrees(t), NEW e \in t.all, Procedure(e)
  PROVE  /\ StepExpr(t, e, Entered, Procedured(e))
         /\ Procedured(e).n = 1 /\ Procedured(e).sp = 0 /\ Top(Procedured(e)).out = << >>
<1> DEFINE none == << >>
           no == {}
           f == FALSE
           b == Entered
           c == Procedured(e)
           p == Pc(none, no, f)
<1>1. EnteredIs(b)
  BY EnteredOf
<1>2. /\ b.n = 1 /\ b.st = "undef" /\ b.sp = 0 /\ b.cl = 0 /\ b.nv = 0
      /\ Top(b).out = none /\ Top(b).open = no
  <2> DEFINE yes == TRUE
  <2>1. b.n = 1 /\ b.pc[1] = Pc(none, no, yes)
    BY <1>1 DEF EnteredIs
  <2>2. Top(b) = Pc(none, no, yes)
    BY <2>1 DEF Top
  <2> HIDE DEF b, no, yes, none
  <2>3. Top(b).out = none /\ Top(b).open = no
    BY <2>2, PcFields
  <2> QED
    BY <1>1, <2>3 DEF EnteredIs
<1>3. Held(b) = 0
  BY <1>2 DEF Held, Truth
<1>4. Nums(0) = none /\ none \in Shapes /\ none ++ none = none
  BY NoNums, ShapeEmpty
<1>5. Left(e) = none /\ Len(Left(e)) = 0
  BY LeftIs
<1>6. /\ c.st = (IF e.a = none THEN "undef" ELSE "sp") /\ c.sp = 0 /\ c.cl = 0 /\ c.n = 1
      /\ c.pc[1] = p /\ c.nv = 0
  BY DEF Procedured, Config
<1>7. e \notin t.const /\ e.k = "call"
  BY TreeKind DEF Procedure
<1>8. p.out = none /\ p.open = no
  <2> HIDE DEF none, no, f
  <2> QED
    BY PcFields
<1> HIDE DEF b, c
<1>9. Top(c) = p
  BY <1>6 DEF Top
<1>10. Below(b, c, b.n) /\ Lowered(b, c) /\ SameValues(b, c, b.nv)
  BY <1>2, <1>6 DEF Below, Lowered, SameValues
<1>11. (Top(b).out ++ Nums(Held(b))) ++ Left(e) = none
  BY <1>2, <1>3, <1>4, <1>5
<1>12. Top(c) = Pc((Top(b).out ++ Nums(Held(b))) ++ Left(e), Top(b).open, FALSE)
  BY <1>2, <1>9, <1>11
<1>13. c.sp = b.sp + Held(b) + Len(Left(e))
  BY <1>2, <1>3, <1>5, <1>6
<1>14. c.st = IF e.a = << >> THEN b.st ELSE "sp"
  BY <1>2, <1>6
<1>15. b.n >= 1 /\ b.sp \in Int /\ b.nv \in Nat /\ b.st # "ax"
  BY <1>2
<1>16. Top(b).out \in Shapes /\ Top(b).out = << >> /\ Top(b).open = {}
  BY <1>2, <1>4
<1> HIDE DEF p, none, no, f
<1>17. StepExpr(t, e, b, c)
  BY <1>2, <1>6, <1>7, <1>10, <1>12, <1>13, <1>14, <1>15, <1>16 DEF StepExpr
<1> QED
  BY <1>6, <1>8, <1>9, <1>17 DEF b, c, none

EndOf(k) == IF k = "call" THEN "output" ELSE k

LEMMA StatementParsed ==
  ASSUME NEW t, PlainTrees(t), NEW p, PlainStatement(t, p), NEW x, x.e = p.e, x.t = EndOf(p.k)
  PROVE  \E c : StepExpr(t, p.e, Entered, c) /\ StepEnd(t, p, x, c)
<1> DEFINE e == p.e
<1>1. e \in t.all
  BY DEF PlainStatement
<1>2. CASE Procedure(e)
  <2> DEFINE c == Procedured(e)
  <2>1. StepExpr(t, e, Entered, c) /\ c.n = 1 /\ c.sp = 0 /\ Top(c).out = << >>
    BY <1>1, <1>2, ProcedureParsed
  <2>2. Left(e) = << >> /\ Len(Left(e)) = 0
    BY <1>2, LeftIs
  <2>3. p.k = "call"
    BY <1>2 DEF PlainStatement, Procedure
  <2> HIDE DEF c
  <2>4. StepEnd(t, p, x, c)
    BY <1>2, <2>1, <2>2, <2>3 DEF StepEnd, EndOf
  <2> QED
    BY <2>1, <2>4
<1>3. CASE ~Procedure(e)
  <2> DEFINE c == After(t, e, Entered, 0)
  <2>1. StepExpr(t, e, Entered, c)
    BY <1>1, <1>3, ValueParsed
  <2>2. /\ c.n = 1 /\ c.sp = Len(Left(e)) /\ Top(c).out = Left(e) /\ c.nv = 1
        /\ c.vs[c.nv] = Shown(t, e)
        /\ c.st = IF e \in t.const THEN "undef" ELSE IF e.k = "call" THEN "sp" ELSE "ax"
    BY <1>1, <1>3, ValueParsed
  <2> HIDE DEF c
  <2>3. c.nv >= 1
    BY <2>2
  <2>4. StepEnd(t, p, x, c)
    BY <2>2, <2>3 DEF StepEnd, EndOf
  <2> QED
    BY <2>1, <2>4
<1> QED
  BY <1>2, <1>3

LEMMA TupleThree ==
  \A a, b, c : <<a, b, c>> = Then(a, Then(b, Then(c, << >>)))
<1> SUFFICES ASSUME NEW a, NEW b, NEW c PROVE <<a, b, c>> = Then(a, Then(b, Then(c, << >>)))
  OBVIOUS
<1> DEFINE none == << >>
           p == <<a>>
           q == <<b, c>>
           r == <<a, b, c>>
<1>1. IsSeq(none)
  BY SeqOfNone
<1>2. p \in Seq({a, b, c}) /\ q \in Seq({a, b, c}) /\ r \in Seq({a, b, c})
  OBVIOUS
<1>3. Len(p) = 1 /\ Len(q) = 2 /\ Len(r) = 3 /\ p[1] = a /\ q[1] = b /\ q[2] = c /\ r[1] = a /\ r[2] = b /\ r[3] = c
  OBVIOUS
<1>4. q \o none = Then(b, Then(c, none))
  <2> HIDE DEF none
  <2> QED
    BY <1>1, ConcatTwo
<1>5. q \o none = q
  <2>1. q \in Seq({a, b, c})
    BY <1>2
  <2> QED
    BY <2>1, ConcatEmptySeq
<1> HIDE DEF p, q, r, none
<1>6. IsSeq(p) /\ IsSeq(q) /\ IsSeq(r)
  BY <1>2 DEF IsSeq
<1>7. /\ IsSeq(p \o q) /\ Len(p \o q) = Len(p) + Len(q)
      /\ \A i \in 1 .. Len(p) : (p \o q)[i] = p[i]
      /\ \A i \in 1 .. Len(q) : (p \o q)[Len(p) + i] = q[i]
  BY <1>6, SeqConcat
<1>8. (p \o q)[1] = p[1] /\ (p \o q)[1 + 1] = q[1] /\ (p \o q)[1 + 2] = q[2]
  BY <1>3, <1>7
<1>9. Len(p \o q) = 3 /\ (p \o q)[1] = a /\ (p \o q)[2] = b /\ (p \o q)[3] = c
  BY <1>3, <1>7, <1>8
<1>10. \A i \in 1 .. Len(p \o q) : (p \o q)[i] = r[i]
  BY <1>3, <1>9
<1>11. p \o q = r
  BY <1>3, <1>6, <1>7, <1>9, <1>10, SeqSame
<1>12. p \o q = Then(a, q)
  BY DEF Then, p
<1> QED
  BY <1>4, <1>5, <1>11, <1>12 DEF r, none

LEMMA BeginTyped ==
  ASSUME NEW t, PlainTrees(t), NEW p, PlainStatement(t, p)
  PROVE  Typed(t, p, Begin(p), Blank)
<1> DEFINE x == Task("entry", p.e)
           y == Parse(p.e)
           z == Task(EndOf(p.k), p.e)
           none == << >>
<1>1. p.k \in {"assign", "if", "return", "call"}
  BY DEF PlainStatement
<1>2. Begin(p) = <<x, y, z>>
  BY <1>1 DEF Begin, EndOf
<1>3. x.t = "entry" /\ z.t = EndOf(p.k) /\ z.e = p.e
  BY TaskFields
<1>4. EndOf(p.k) \in {"assign", "if", "return", "output"}
  BY <1>1 DEF EndOf
<1> HIDE DEF x, z, none
<1>5. PICK c : StepExpr(t, p.e, Entered, c) /\ StepEnd(t, p, z, c)
  BY <1>3, StatementParsed
<1>6. Step(t, p, x, Blank, Entered)
  BY <1>3, EntersStatement DEF Step
<1>7. Step(t, p, y, Entered, c)
  BY <1>5, ParseIsStep
<1>8. Step(t, p, z, c, c)
  BY <1>3, <1>4, <1>5 DEF Step
<1>9. Typed(t, p, none, c)
  <2>1. Chain(t, p, none, c, c)
    BY ChainNone DEF none
  <2>2. IsSeq(none)
    BY SeqOfNone DEF none
  <2> QED
    BY <2>1, <2>2 DEF Typed
<1> HIDE DEF y
<1>10. Typed(t, p, Then(z, none), c)
  BY <1>8, <1>9, TypedCons
<1>11. Typed(t, p, Then(y, Then(z, none)), Entered)
  BY <1>7, <1>10, TypedCons
<1>12. Typed(t, p, Then(x, Then(y, Then(z, none))), Blank)
  BY <1>6, <1>11, TypedCons
<1>13. <<x, y, z>> = Then(x, Then(y, Then(z, none)))
  BY TupleThree DEF none
<1> QED
  BY <1>2, <1>12, <1>13

LEMMA InitSound ==
  ASSUME NEW t, Plain(t), Init
  PROVE  Sound(t)
<1>1. prog \in Programs /\ mach = InitMach /\ phase = "parse"
  BY DEF Init
<1>2. PlainTrees(t) /\ PlainStatement(t, prog)
  BY <1>1 DEF Plain
<1>3. Matches(gen, Blank) /\ Means(vals, Blank)
  BY BlankMatches DEF Init
<1>4. Typed(t, prog, todo, Blank)
  BY <1>2, BeginTyped DEF Init
<1>5. Parsing(t)
  BY <1>1, <1>3, <1>4 DEF Parsing
<1> QED
  BY <1>1, <1>5 DEF Sound

-----------------------------------------------------------------------------
(* The words on the stack and the strings in the memory.                   *)

\* The same words are temporaries.
LEMMA KeptSame ==
  ASSUME NEW mem, NEW stk, NEW made, NEW s, Kept(mem, stk, made, s), NEW u, Tmps(u) = Tmps(s),
         NEW stk1, \A k \in Tmps(s) : stk1[k] = stk[k]
  PROVE  Kept(mem, stk1, made, u)
<1> DEFINE T == Tmps(s)
<1>1. /\ mem = [a \in DOMAIN mem |-> mem[a]]
      /\ DOMAIN mem = DOMAIN InitMemory \cup {stk[k] : k \in T}
      /\ \A a \in DOMAIN InitMemory : mem[a] = InitMemory[a]
      /\ \A k \in T : /\ stk[k] \in Nat /\ FirstAddress <= stk[k] /\ stk[k] < FirstAddress + made
                      /\ mem[stk[k]].static = FALSE
      /\ \A j, k \in T : stk[j] = stk[k] => j = k
  BY DEF Kept
<1>2. \A k \in T : stk1[k] = stk[k]
  OBVIOUS
<1>3. Tmps(u) = T
  OBVIOUS
<1> HIDE DEF T
<1>4. {stk1[k] : k \in T} = {stk[k] : k \in T}
  BY <1>2
<1> QED
  BY <1>1, <1>2, <1>3, <1>4 DEF Kept

\* A call puts the address of a string it makes in place j.
LEMMA KeptMore ==
  ASSUME NEW mem, NEW stk, NEW made \in Nat, NEW s, Kept(mem, stk, made, s),
         NEW j, j \notin Tmps(s), NEW u, Tmps(u) = Tmps(s) \cup {j},
         NEW x, x.static = FALSE, NEW a, a = FirstAddress + made,
         NEW stk1, stk1[j] = a, \A k \in Tmps(s) : stk1[k] = stk[k]
  PROVE  Kept(NewString(mem, a, x), stk1, made + 1, u)
<1> DEFINE T == Tmps(s)
           m == NewString(mem, a, x)
           D == DOMAIN InitMemory
<1>1. /\ DOMAIN mem = D \cup {stk[k] : k \in T}
      /\ \A b \in D : mem[b] = InitMemory[b]
      /\ \A k \in T : /\ stk[k] \in Nat /\ FirstAddress <= stk[k] /\ stk[k] < FirstAddress + made
                      /\ mem[stk[k]].static = FALSE
      /\ \A i, k \in T : stk[i] = stk[k] => i = k
  BY DEF Kept
<1>2. \A k \in T : stk1[k] = stk[k]
  OBVIOUS
<1>3. Tmps(u) = T \cup {j} /\ j \notin T
  OBVIOUS
<1>4. \A b \in D : b \in Nat /\ b < FirstAddress
  BY MemoryAssumption
<1>5. FirstAddress \in Nat
  BY DEF FirstAddress
<1>6. a \in Nat /\ FirstAddress <= a /\ a < FirstAddress + (made + 1)
  BY <1>5
<1>7. \A k \in T : stk[k] # a /\ stk[k] < FirstAddress + (made + 1)
  BY <1>1, <1>5
<1>8. a \notin D
  BY <1>4, <1>6, <1>5
<1> HIDE DEF T, D
<1>9. a \notin DOMAIN mem
  BY <1>1, <1>7, <1>8
<1>10. /\ DOMAIN m = DOMAIN mem \cup {a} /\ m = [b \in DOMAIN m |-> m[b]]
       /\ m[a] = x /\ \A b \in DOMAIN mem : m[b] = mem[b]
  BY <1>9 DEF NewString
<1> HIDE DEF m
<1>11. DOMAIN m = D \cup {stk1[k] : k \in T \cup {j}}
  <2>1. {stk1[k] : k \in T \cup {j}} = {stk[k] : k \in T} \cup {a}
    BY <1>2
  <2> QED
    BY <1>1, <1>10, <2>1
<1>12. \A b \in D : m[b] = InitMemory[b]
  BY <1>1, <1>10
<1>13. \A k \in T \cup {j} : /\ stk1[k] \in Nat /\ FirstAddress <= stk1[k]
                             /\ stk1[k] < FirstAddress + (made + 1) /\ m[stk1[k]].static = FALSE
  <2>1. ASSUME NEW k \in T
        PROVE  /\ stk1[k] \in Nat /\ FirstAddress <= stk1[k]
               /\ stk1[k] < FirstAddress + (made + 1) /\ m[stk1[k]].static = FALSE
    <3>1. stk1[k] = stk[k] /\ stk[k] \in DOMAIN mem
      BY <1>1, <1>2
    <3>2. m[stk[k]] = mem[stk[k]]
      BY <1>10, <3>1
    <3> QED
      BY <1>1, <1>7, <3>1, <3>2
  <2>2. /\ stk1[j] \in Nat /\ FirstAddress <= stk1[j]
        /\ stk1[j] < FirstAddress + (made + 1) /\ m[stk1[j]].static = FALSE
    BY <1>6, <1>10
  <2> QED
    BY <2>1, <2>2
<1>14. \A i, k \in T \cup {j} : stk1[i] = stk1[k] => i = k
  <2> SUFFICES ASSUME NEW i \in T \cup {j}, NEW k \in T \cup {j}, stk1[i] = stk1[k] PROVE i = k
    OBVIOUS
  <2>1. CASE i \in T /\ k \in T
    BY <1>1, <1>2, <2>1
  <2>2. CASE i = j /\ k \in T
    BY <1>2, <1>7, <2>2
  <2>3. CASE i \in T /\ k = j
    BY <1>2, <1>7, <2>3
  <2> QED
    BY <2>1, <2>2, <2>3
<1>15. \A i, k \in Tmps(u) : stk1[i] = stk1[k] => i = k
  BY <1>3, <1>14
<1> DEFINE U == Tmps(u)
<1>16. U = T \cup {j}
  BY <1>3
<1> HIDE DEF U
<1>17. DOMAIN m = D \cup {stk1[k] : k \in U}
  BY <1>11, <1>16
<1>18. \A k \in U : /\ stk1[k] \in Nat /\ FirstAddress <= stk1[k]
                    /\ stk1[k] < FirstAddress + (made + 1) /\ m[stk1[k]].static = FALSE
  BY <1>13, <1>16
<1>19. Kept(m, stk1, made + 1, u)
  BY <1>10, <1>12, <1>15, <1>17, <1>18 DEF Kept, D, U
<1> QED
  BY <1>19 DEF m

\* The clean-up frees the string of place j.
LEMMA KeptLess ==
  ASSUME NEW mem, NEW stk, NEW made \in Nat, NEW s, Kept(mem, stk, made, s),
         NEW j \in Tmps(s), NEW u, Tmps(u) = Tmps(s) \ {j}
  PROVE  Kept(Restrict(mem, DOMAIN mem \ {stk[j]}), stk, made, u)
<1> DEFINE T == Tmps(s)
           m == Restrict(mem, DOMAIN mem \ {stk[j]})
           D == DOMAIN InitMemory
<1>1. /\ DOMAIN mem = D \cup {stk[k] : k \in T}
      /\ \A b \in D : mem[b] = InitMemory[b]
      /\ \A k \in T : /\ stk[k] \in Nat /\ FirstAddress <= stk[k] /\ stk[k] < FirstAddress + made
                      /\ mem[stk[k]].static = FALSE
      /\ \A i, k \in T : stk[i] = stk[k] => i = k
  BY DEF Kept
<1>3. Tmps(u) = T \ {j} /\ j \in T
  OBVIOUS
<1>4. \A b \in D : b \in Nat /\ b < FirstAddress
  BY MemoryAssumption
<1>5. FirstAddress \in Nat
  BY DEF FirstAddress
<1>6. stk[j] \notin D
  BY <1>1, <1>3, <1>4, <1>5
<1>7. /\ DOMAIN m = DOMAIN mem \ {stk[j]} /\ m = [b \in DOMAIN m |-> m[b]]
      /\ \A b \in DOMAIN m : m[b] = mem[b]
  BY DEF Restrict
<1> HIDE DEF T, D, m
<1>8. DOMAIN m = D \cup {stk[k] : k \in T \ {j}}
  <2>1. \A k \in T \ {j} : stk[k] # stk[j]
    BY <1>1, <1>3
  <2> QED
    BY <1>1, <1>6, <1>7, <2>1
<1>9. \A b \in D : m[b] = InitMemory[b]
  BY <1>1, <1>7, <1>8
<1>10. \A k \in T \ {j} : /\ stk[k] \in Nat /\ FirstAddress <= stk[k] /\ stk[k] < FirstAddress + made
                          /\ m[stk[k]].static = FALSE
  BY <1>1, <1>7, <1>8
<1>11. \A i, k \in Tmps(u) : stk[i] = stk[k] => i = k
  BY <1>1, <1>3
<1> DEFINE U == Tmps(u)
<1>16. U = T \ {j}
  BY <1>3
<1> HIDE DEF U
<1>17. DOMAIN m = D \cup {stk[k] : k \in U}
  BY <1>8, <1>16
<1>18. \A k \in U : /\ stk[k] \in Nat /\ FirstAddress <= stk[k] /\ stk[k] < FirstAddress + made
                    /\ m[stk[k]].static = FALSE
  BY <1>10, <1>16
<1>19. Kept(m, stk, made, u)
  BY <1>7, <1>9, <1>11, <1>17, <1>18 DEF Kept, D, U
<1> QED
  BY <1>19 DEF m

LEMMA TmpsNums ==
  ASSUME NEW s \in Shapes, NEW n \in Nat
  PROVE  Tmps(s ++ Nums(n)) = Tmps(s) /\ Len(s ++ Nums(n)) = Len(s) + n
<1> DEFINE t == Nums(n)
           u == s ++ t
<1>1. t \in Shapes /\ Len(t) = n /\ \A i \in 1 .. n : t[i] = "num"
  BY NumsType
<1> HIDE DEF t
<1>2. /\ Len(u) = Len(s) + Len(t) /\ Len(s) \in Nat
      /\ \A i \in 1 .. Len(s) : u[i] = s[i]
      /\ \A i \in 1 .. Len(t) : u[Len(s) + i] = t[i]
  BY <1>1, ShapeConcat, ShapeAt, ShapeIsSeq
<1> HIDE DEF u
<1>3. ASSUME NEW k \in 1 .. Len(u), ~(k \in 1 .. Len(s)) PROVE u[k] = "num"
  <2> DEFINE i == k - Len(s)
  <2>1. i \in 1 .. n /\ Len(s) + i = k
    BY <1>1, <1>2, <1>3
  <2> HIDE DEF i
  <2>2. u[Len(s) + i] = "num"
    BY <1>1, <1>2, <2>1
  <2> QED
    BY <2>1, <2>2
<1>4. \A k \in 1 .. Len(s) : k \in 1 .. Len(u)
  BY <1>1, <1>2
<1>5. Tmps(u) = Tmps(s)
  BY <1>2, <1>3, <1>4 DEF Tmps
<1> QED
  BY <1>1, <1>2, <1>5 DEF u, t

LEMMA TmpsAt ==
  ASSUME NEW s \in Shapes, NEW t \in Shapes, Len(t) = Len(s), NEW j \in 1 .. Len(s),
         s[j] = "num", t[j] = "tmp", \A i \in 1 .. Len(s) : i # j => t[i] = s[i]
  PROVE  j \notin Tmps(s) /\ Tmps(t) = Tmps(s) \cup {j}
<1>1. j \notin Tmps(s)
  BY DEF Tmps
<1>2. Tmps(t) = Tmps(s) \cup {j}
  BY DEF Tmps
<1> QED
  BY <1>1, <1>2

\* s is u, the word x and w.
Slotted(s, u, x, w) ==
  /\ s \in Shapes /\ Len(s) = Len(u) + 1 + Len(w) /\ s[Len(u) + 1] = x
  /\ \A i \in 1 .. Len(u) : s[i] = u[i]
  /\ \A i \in 1 .. Len(w) : s[Len(u) + 1 + i] = w[i]

LEMMA SlotShape ==
  ASSUME NEW u \in Shapes, NEW w \in Shapes, NEW x \in Words
  PROVE  Slotted((u ++ <<x>>) ++ w, u, x, w)
<1> DEFINE y == <<x>>
           v == u ++ y
           s == v ++ w
           m == Len(u) + 1
<1>1. y \in Shapes /\ Len(y) = 1 /\ y[1] = x
  BY DEF Shapes
<1> HIDE DEF y
<1>2. v \in Shapes /\ Len(v) = Len(u) + Len(y) /\ Len(u) \in Nat /\ Len(w) \in Nat
      /\ (\A i \in 1 .. Len(u) : v[i] = u[i]) /\ \A i \in 1 .. Len(y) : v[Len(u) + i] = y[i]
  BY <1>1, ShapeConcat, ShapeAt, ShapeIsSeq
<1>3. Len(v) = m /\ v[m] = x /\ m \in 1 .. m /\ \A i \in 1 .. Len(u) : i \in 1 .. m
  BY <1>1, <1>2
<1> HIDE DEF v, m
<1>4. s \in Shapes /\ Len(s) = Len(v) + Len(w) /\ (\A i \in 1 .. Len(v) : s[i] = v[i])
      /\ \A i \in 1 .. Len(w) : s[Len(v) + i] = w[i]
  BY <1>2, ShapeConcat, ShapeAt
<1> HIDE DEF s
<1>5. s[m] = x /\ \A i \in 1 .. Len(u) : s[i] = u[i]
  BY <1>2, <1>3, <1>4
<1>6. Len(s) = m + Len(w) /\ \A i \in 1 .. Len(w) : s[m + i] = w[i]
  BY <1>3, <1>4
<1> QED
  BY <1>4, <1>5, <1>6 DEF Slotted, s, v, y, m

\* A call puts a word of kind x where there was a number.
Called(s, t, j, x) ==
  /\ Len(t) = Len(s) /\ j \in 1 .. Len(s) /\ s[j] = "num" /\ t[j] = x
  /\ \A i \in 1 .. Len(s) : i # j => t[i] = s[i]

LEMMA CallShape ==
  ASSUME NEW u \in Shapes, NEW w \in Shapes, NEW x \in Words
  PROVE  Called((u ++ Nums(1)) ++ w, (u ++ <<x>>) ++ w, Len(u) + 1, x)
<1> DEFINE s == (u ++ <<"num">>) ++ w
           t == (u ++ <<x>>) ++ w
           m == Len(u) + 1
<1>1. "num" \in Words
  BY DEF Words
<1>9. Slotted(s, u, "num", w) /\ Slotted(t, u, x, w)
  BY <1>1, SlotShape
<1>2. /\ Len(s) = Len(u) + 1 + Len(w) /\ s[Len(u) + 1] = "num"
      /\ \A i \in 1 .. Len(u) : s[i] = u[i]
      /\ \A i \in 1 .. Len(w) : s[Len(u) + 1 + i] = w[i]
  BY <1>9 DEF Slotted
<1>3. /\ Len(t) = Len(u) + 1 + Len(w) /\ t[Len(u) + 1] = x
      /\ \A i \in 1 .. Len(u) : t[i] = u[i]
      /\ \A i \in 1 .. Len(w) : t[Len(u) + 1 + i] = w[i]
  BY <1>9 DEF Slotted
<1>4. Len(u) \in Nat /\ Len(w) \in Nat
  BY ShapeIsSeq
<1>5. Nums(1) = <<"num">>
  BY OneNum
<1> HIDE DEF s, t
<1>6. ASSUME NEW i \in 1 .. Len(s), i # m PROVE t[i] = s[i]
  <2>1. CASE i \in 1 .. Len(u)
    BY <1>2, <1>3, <2>1
  <2>2. CASE ~(i \in 1 .. Len(u))
    <3> DEFINE k == i - m
    <3>1. k \in 1 .. Len(w) /\ Len(u) + 1 + k = i
      BY <1>2, <1>4, <1>6, <2>2
    <3> HIDE DEF k, m
    <3>2. t[Len(u) + 1 + k] = s[Len(u) + 1 + k]
      BY <1>2, <1>3, <3>1
    <3> QED
      BY <3>1, <3>2
  <2> QED
    BY <2>1, <2>2
<1>7. m \in 1 .. Len(s) /\ Len(t) = Len(s)
  BY <1>2, <1>3, <1>4
<1>8. Called(s, t, m, x)
  BY <1>2, <1>3, <1>6, <1>7 DEF Called
<1> QED
  BY <1>5, <1>8 DEF s, t, m

LEMMA TmpsFree ==
  ASSUME NEW s \in Shapes, NEW j \in 1 .. Len(s), s[j] = "tmp", NEW t, t = [s EXCEPT ![j] = "num"]
  PROVE  j \in Tmps(s) /\ Tmps(t) = Tmps(s) \ {j} /\ Len(t) = Len(s)
<1>1. s \in Seq(Words) /\ Len(s) \in Nat
  BY DEF Shapes
<1>2. t \in Seq(Words) /\ Len(t) = Len(s) /\ t[j] = "num" /\ \A i \in 1 .. Len(s) : i # j => t[i] = s[i]
  BY <1>1 DEF Words
<1>3. j \in Tmps(s)
  BY DEF Tmps
<1>4. Tmps(t) = Tmps(s) \ {j}
  BY <1>2 DEF Tmps
<1> QED
  BY <1>2, <1>3, <1>4

-----------------------------------------------------------------------------
(* The machine.                                                            *)

\* What does not matter for the words and the memory.
Alike(m, n) ==
  IsMachine(n) /\ n.stk = m.stk /\ n.mem = m.mem /\ n.made = m.made

LEMMA AlikeHolds ==
  ASSUME NEW m, NEW s, Holds(m, s), NEW n, Alike(m, n)
  PROVE  Holds(n, s)
  BY DEF Holds, Alike

LEMMA AlikePc ==
  ASSUME NEW m, IsMachine(m), NEW x
  PROVE  Alike(m, [m EXCEPT !.pc = x]) /\ [m EXCEPT !.pc = x].pc = x
  BY DEF IsMachine, Alike

LEMMA AlikeRax ==
  ASSUME NEW m, IsMachine(m), NEW x
  PROVE  Alike(m, [m EXCEPT !.rax = x]) /\ [m EXCEPT !.rax = x].pc = m.pc
  BY DEF IsMachine, Alike

LEMMA AlikeEnv ==
  ASSUME NEW m, IsMachine(m), NEW x
  PROVE  Alike(m, [m EXCEPT !.env = x]) /\ [m EXCEPT !.env = x].pc = m.pc
  BY DEF IsMachine, Alike

LEMMA AlikeRes ==
  ASSUME NEW m, IsMachine(m), NEW x
  PROVE  Alike(m, [m EXCEPT !.res = x]) /\ [m EXCEPT !.res = x].pc = m.pc
  BY DEF IsMachine, Alike

LEMMA AlikeCalls ==
  ASSUME NEW m, IsMachine(m), NEW x
  PROVE  Alike(m, [m EXCEPT !.calls = x]) /\ [m EXCEPT !.calls = x].pc = m.pc
  BY DEF IsMachine, Alike

\* The machine is at instruction I, between the shapes B[pc - 1] and B[pc].
Executing(B) ==
  /\ phase = "run" /\ gen.sp = 0 /\ Runs(gen.file, B, mach) /\ mach.pc \in 1 .. Len(gen.file)
  /\ Len(gen.file) \in Nat /\ IsMachine(mach) /\ mach.made \in Nat
  /\ Flow(I, B[mach.pc - 1], B[mach.pc]) /\ B[mach.pc - 1] \in Shapes /\ B[mach.pc] \in Shapes
  /\ Holds(mach, B[mach.pc - 1])

LEMMA Executes ==
  ASSUME NEW t, Sound(t), NEW op, At1(op)
  PROVE  I.op = op /\ \E B : Executing(B)
<1>1. phase = "run" /\ mach.pc <= Len(gen.file) /\ I.op = op
  BY DEF At1
<1>2. Running
  BY <1>1 DEF Sound
<1>3. PICK B : Runs(gen.file, B, mach)
  BY <1>2 DEF Running
<1> DEFINE p == gen.file
           k == mach.pc
<1>4. Path(p, B) /\ IsSeq(p) /\ k \in 1 .. (Len(p) + 1) /\ Holds(mach, B[k - 1])
  BY <1>3 DEF Runs
<1>5. Len(p) \in Nat
  BY <1>4, SeqLen
<1>6. k \in 1 .. Len(p) /\ k - 1 \in 0 .. Len(p) /\ k \in 0 .. Len(p)
  BY <1>1, <1>4, <1>5
<1>7. Flow(p[k], B[k - 1], B[k]) /\ B[k - 1] \in Shapes /\ B[k] \in Shapes
  BY <1>4, <1>6 DEF Path
<1>8. Executing(B)
  BY <1>1, <1>2, <1>3, <1>4, <1>5, <1>6, <1>7 DEF Executing, I, Holds, Running
<1> QED
  BY <1>1, <1>8

\* Behind an instruction, or behind the label that it jumps to.
LEMMA Advances ==
  ASSUME NEW t, NEW B, Executing(B), NEW m, m.pc \in 1 .. Len(gen.file), Holds(m, B[m.pc]), Go(m)
  PROVE  Sound(t)'
<1> DEFINE p == gen.file
           k == m.pc
           n == [m EXCEPT !.pc = k + 1]
<1>1. /\ phase = "run" /\ gen.sp = 0 /\ Path(p, B) /\ Meets(p, B) /\ IsSeq(p) /\ B[Len(p)] = << >>
      /\ Len(p) \in Nat
  BY DEF Executing, Runs
<1>2. mach' = n /\ gen' = gen /\ phase' = phase
  BY DEF Go
<1>3. k \in 1 .. Len(p) /\ Holds(m, B[k])
  OBVIOUS
<1>4. IsMachine(m)
  BY DEF Holds
<1> HIDE DEF p, k
<1>5. Alike(m, n) /\ n.pc = k + 1
  BY <1>4, AlikePc
<1> HIDE DEF n
<1>6. Holds(n, B[k])
  BY <1>3, <1>5, AlikeHolds
<1>7. n.pc \in 1 .. (Len(p) + 1) /\ n.pc - 1 = k
  BY <1>1, <1>3, <1>5
<1>8. Runs(p, B, n)
  BY <1>1, <1>6, <1>7 DEF Runs
<1>9. Running'
  BY <1>1, <1>2, <1>8 DEF Running, p
<1> QED
  BY <1>1, <1>2, <1>9 DEF Sound

\* An instruction that leaves the words and the memory alone.
LEMMA AdvancesAlike ==
  ASSUME NEW t, NEW B, Executing(B), B[mach.pc] = B[mach.pc - 1], NEW m, Alike(mach, m), m.pc = mach.pc, Go(m)
  PROVE  Sound(t)'
<1>1. Holds(mach, B[mach.pc]) /\ mach.pc \in 1 .. Len(gen.file)
  BY DEF Executing
<1>2. Holds(m, B[m.pc]) /\ m.pc \in 1 .. Len(gen.file)
  BY <1>1, AlikeHolds
<1> QED
  BY <1>2, Advances

\* What an instruction does to the shape.
LEMMA FlowStays ==
  ASSUME NEW i, i.op \in {"jz", "jnz", "label", "load", "const", "unary", "operconst", "comment",
                          "store", "storeconst", "result", "block"},
         NEW s, NEW u, Flow(i, s, u)
  PROVE  u = s
  BY DEF Flow

LEMMA FlowPuts ==
  ASSUME NEW i, i.op \in {"push", "reserve"}, NEW s, NEW u, Flow(i, s, u)
  PROVE  i.n \in Nat /\ (i.op = "push" => i.n = 1) /\ u = s ++ Nums(i.n)
  BY DEF Flow

LEMMA FlowTakes ==
  ASSUME NEW i, i.op \in {"pop", "drop", "operator"}, NEW s, NEW u, Flow(i, s, u)
  PROVE  i.n \in Nat /\ (i.op # "drop" => i.n = 1) /\ s = u ++ Nums(i.n)
  BY DEF Flow

LEMMA FlowFrees ==
  ASSUME NEW i, i.op = "free", NEW s, NEW u, Flow(i, s, u)
  PROVE  i.n \in 1 .. Len(s) /\ s[Len(s) - i.n + 1] = "tmp" /\ u = [s EXCEPT ![Len(s) - i.n + 1] = "num"]
  BY DEF Flow

LEMMA FlowCalls ==
  ASSUME NEW i, i.op = "call", NEW s, NEW u, Flow(i, s, u)
  PROVE  /\ i.n \in Nat
         /\ Funcs[i.s] = "none" => u = s /\ i.n <= Len(s)
         /\ Funcs[i.s] # "none" =>
              \E v, w \in Shapes : /\ Len(w) = i.n /\ s = (v ++ Nums(1)) ++ w
                                   /\ u = (v ++ <<WordOf(Funcs[i.s])>>) ++ w
  BY DEF Flow

LEMMA ExecLoadSound ==
  ASSUME NEW t, Sound(t), ExecLoad
  PROVE  Sound(t)'
<1>0. PICK op \in {"load", "const"} : \E x : At1(op) /\ Go([mach EXCEPT !.rax = x])
  BY DEF ExecLoad
<1>1. PICK x : At1(op) /\ Go([mach EXCEPT !.rax = x])
  BY <1>0
<1>2. I.op = op /\ \E B : Executing(B)
  BY <1>1, Executes
<1>3. PICK B : Executing(B)
  BY <1>2
<1>4. IsMachine(mach) /\ Flow(I, B[mach.pc - 1], B[mach.pc])
  BY <1>3 DEF Executing
<1>5. B[mach.pc] = B[mach.pc - 1]
  BY <1>1, <1>2, <1>4, FlowStays
<1>6. Alike(mach, [mach EXCEPT !.rax = x]) /\ [mach EXCEPT !.rax = x].pc = mach.pc
  BY <1>4, AlikeRax
<1> QED
  BY <1>1, <1>3, <1>5, <1>6, AdvancesAlike

LEMMA ExecEffectSound ==
  ASSUME NEW t, Sound(t), ExecEffect
  PROVE  Sound(t)'
<1>0. PICK op \in {"result", "block"} : \E x : At1(op) /\ Go([mach EXCEPT !.res = x])
  BY DEF ExecEffect
<1>1. PICK x : At1(op) /\ Go([mach EXCEPT !.res = x])
  BY <1>0
<1>2. I.op = op /\ \E B : Executing(B)
  BY <1>1, Executes
<1>3. PICK B : Executing(B)
  BY <1>2
<1>4. IsMachine(mach) /\ Flow(I, B[mach.pc - 1], B[mach.pc])
  BY <1>3 DEF Executing
<1>5. B[mach.pc] = B[mach.pc - 1]
  BY <1>1, <1>2, <1>4, FlowStays
<1>6. Alike(mach, [mach EXCEPT !.res = x]) /\ [mach EXCEPT !.res = x].pc = mach.pc
  BY <1>4, AlikeRes
<1> QED
  BY <1>1, <1>3, <1>5, <1>6, AdvancesAlike

LEMMA ExecStoreSound ==
  ASSUME NEW t, Sound(t), ExecStore
  PROVE  Sound(t)'
<1> DEFINE v == mach.env[prog.s]
           n == IF I.op = "store" THEN mach.rax ELSE I.n
           x == [mach.env EXCEPT ![prog.s] = Wrap(Types[prog.s], Assign(I.s, v, n))]
           bad == I.s # "=" /\ Divides(I.s, v, n)
<1>1. PICK op \in {"store", "storeconst"} : At1(op)
  BY DEF ExecStore
<1>2. IF bad THEN Stop("trap") ELSE Go([mach EXCEPT !.env = x])
  BY DEF ExecStore
<1>3. I.op = op /\ \E B : Executing(B)
  BY <1>1, Executes
<1>4. PICK B : Executing(B)
  BY <1>3
<1>5. IsMachine(mach) /\ Flow(I, B[mach.pc - 1], B[mach.pc])
  BY <1>4 DEF Executing
<1>6. B[mach.pc] = B[mach.pc - 1]
  BY <1>1, <1>3, <1>5, FlowStays
<1> HIDE DEF x, bad, v, n
<1>7. Alike(mach, [mach EXCEPT !.env = x]) /\ [mach EXCEPT !.env = x].pc = mach.pc
  BY <1>5, AlikeEnv
<1>8. CASE bad
  BY <1>2, <1>8, IsTrapped
<1>9. CASE ~bad
  BY <1>2, <1>4, <1>6, <1>7, <1>9, AdvancesAlike
<1> QED
  BY <1>8, <1>9

LEMMA ExecNothingSound ==
  ASSUME NEW t, Sound(t), ExecNothing
  PROVE  Sound(t)'
<1>1. PICK op \in {"label", "comment"} : At1(op) /\ Go(mach)
  BY DEF ExecNothing
<1>2. I.op = op /\ \E B : Executing(B)
  BY <1>1, Executes
<1>3. PICK B : Executing(B)
  BY <1>2
<1>4. IsMachine(mach) /\ Flow(I, B[mach.pc - 1], B[mach.pc])
  BY <1>3 DEF Executing
<1>5. B[mach.pc] = B[mach.pc - 1]
  BY <1>1, <1>2, <1>4, FlowStays
<1>6. Alike(mach, mach)
  BY <1>4 DEF Alike
<1> QED
  BY <1>1, <1>3, <1>5, <1>6, AdvancesAlike

\* The label that is jumped to is followed by the shape at the jump.
LEMMA ExecJumpSound ==
  ASSUME NEW t, Sound(t), ExecJump
  PROVE  Sound(t)'
<1> DEFINE p == gen.file
           lab == Ins("label", "", I.n)
<1>1. PICK op \in {"jz", "jnz"} : At1(op)
  BY DEF ExecJump
<1>2. Go(mach) \/ \E pc \in 1 .. Len(p) : p[pc] = lab /\ Go([mach EXCEPT !.pc = pc])
  BY DEF ExecJump
<1>3. I.op = op /\ \E B : Executing(B)
  BY <1>1, Executes
<1>4. PICK B : Executing(B)
  BY <1>3
<1>5. IsMachine(mach) /\ Flow(I, B[mach.pc - 1], B[mach.pc]) /\ mach.pc \in 1 .. Len(p)
      /\ Meets(p, B) /\ Holds(mach, B[mach.pc - 1])
  BY <1>4 DEF Executing, Runs
<1>6. B[mach.pc] = B[mach.pc - 1]
  BY <1>1, <1>3, <1>5, FlowStays
<1>7. ASSUME Go(mach) PROVE Sound(t)'
  <2>1. Alike(mach, mach)
    BY <1>5 DEF Alike
  <2> QED
    BY <1>4, <1>6, <1>7, <2>1, AdvancesAlike
<1>8. ASSUME NEW pc \in 1 .. Len(p), p[pc] = lab, Go([mach EXCEPT !.pc = pc]) PROVE Sound(t)'
  <2> DEFINE m == [mach EXCEPT !.pc = pc]
  <2>1. lab.op = "label" /\ lab.n = I.n
    BY DEF Ins
  <2>2. pc \in Marks(p)
    BY <1>8, <2>1 DEF Marks, Marking
  <2>3. mach.pc \in Marks(p) /\ p[mach.pc].n = I.n
    BY <1>1, <1>3, <1>5 DEF Marks, Marking, I
  <2>4. p[mach.pc].n = p[pc].n
    BY <1>8, <2>1, <2>3
  <2>5. B[pc] = B[mach.pc]
    BY <1>5, <2>2, <2>3, <2>4 DEF Meets
  <2>6. Alike(mach, m) /\ m.pc = pc
    BY <1>5, AlikePc
  <2>8. Go(m)
    BY <1>8
  <2> HIDE DEF m
  <2>7. Holds(m, B[m.pc])
    BY <1>5, <1>6, <2>5, <2>6, AlikeHolds
  <2>9. m.pc \in 1 .. Len(gen.file)
    BY <1>8, <2>6
  <2> QED
    BY <1>4, <2>7, <2>8, <2>9, Advances
<1> QED
  BY <1>2, <1>7, <1>8

-----------------------------------------------------------------------------
(* The stack.                                                              *)

\* The words change where there is no temporary.
LEMMA HoldsWords ==
  ASSUME NEW m, NEW s, Holds(m, s), NEW n, IsMachine(n), n.mem = m.mem, n.made = m.made,
         IsSeq(n.stk), NEW u, Len(n.stk) = Len(u), Tmps(u) = Tmps(s),
         \A k \in Tmps(s) : n.stk[k] = m.stk[k]
  PROVE  Holds(n, u)
<1>1. Kept(m.mem, m.stk, m.made, s) /\ m.made \in Nat
  BY DEF Holds
<1>2. Kept(m.mem, n.stk, m.made, u)
  BY <1>1, KeptSame
<1> QED
  BY <1>1, <1>2 DEF Holds

LEMMA WithWords ==
  ASSUME NEW m, IsMachine(m), NEW x
  PROVE  LET n == [m EXCEPT !.stk = x] IN
         IsMachine(n) /\ n.pc = m.pc /\ n.stk = x /\ n.mem = m.mem /\ n.made = m.made
  BY DEF IsMachine

LEMMA ExecPushSound ==
  ASSUME NEW t, Sound(t), NEW op \in {"push", "reserve"}, At1(op), NEW x, IsSeq(x),
         Len(x) = Len(mach.stk) + I.n, \A k \in 1 .. Len(mach.stk) : x[k] = mach.stk[k],
         Go([mach EXCEPT !.stk = x])
  PROVE  Sound(t)'
<1>1. I.op = op /\ \E B : Executing(B)
  BY Executes
<1>2. PICK B : Executing(B)
  BY <1>1
<1> DEFINE s == B[mach.pc - 1]
           u == B[mach.pc]
           n == [mach EXCEPT !.stk = x]
<1>3. /\ IsMachine(mach) /\ Flow(I, s, u) /\ s \in Shapes /\ Holds(mach, s)
      /\ mach.pc \in 1 .. Len(gen.file)
  BY <1>2 DEF Executing
<1>4. I.n \in Nat /\ u = s ++ Nums(I.n)
  BY <1>1, <1>3, FlowPuts
<1>5. Tmps(u) = Tmps(s) /\ Len(u) = Len(s) + I.n
  BY <1>3, <1>4, TmpsNums
<1>6. Len(mach.stk) = Len(s)
  BY <1>3 DEF Holds
<1>7. IsMachine(n) /\ n.pc = mach.pc /\ n.stk = x /\ n.mem = mach.mem /\ n.made = mach.made
  BY <1>3, WithWords
<1>8. \A k \in Tmps(s) : x[k] = mach.stk[k]
  BY <1>6 DEF Tmps
<1>9. Go(n)
  OBVIOUS
<1> HIDE DEF n, s, u
<1>10. IsSeq(n.stk) /\ Len(n.stk) = Len(u) /\ \A k \in Tmps(s) : n.stk[k] = mach.stk[k]
  BY <1>5, <1>6, <1>7, <1>8
<1>11. Holds(n, u)
  BY <1>3, <1>5, <1>7, <1>10, HoldsWords
<1>12. Holds(n, B[n.pc]) /\ n.pc \in 1 .. Len(gen.file)
  BY <1>3, <1>7, <1>11 DEF u
<1> QED
  BY <1>2, <1>9, <1>12, Advances

LEMMA HoldsIsSeq ==
  ASSUME NEW m, NEW s, Holds(m, s)
  PROVE  IsSeq(m.stk) /\ Len(m.stk) = Len(s)
  BY DEF Holds

\* What is popped is there.
LEMMA WordsThere ==
  ASSUME NEW t, Sound(t), NEW op \in {"pop", "drop", "operator"}, At1(op)
  PROVE  I.n \in Nat /\ I.n <= Len(mach.stk) /\ (op # "drop" => I.n = 1) /\ Len(mach.stk) \in Nat
<1>1. I.op = op /\ \E B : Executing(B)
  BY Executes
<1>2. PICK B : Executing(B)
  BY <1>1
<1> DEFINE s == B[mach.pc - 1]
           u == B[mach.pc]
<1>3. Flow(I, s, u) /\ s \in Shapes /\ u \in Shapes /\ Holds(mach, s)
  BY <1>2 DEF Executing
<1>4. I.n \in Nat /\ (I.op # "drop" => I.n = 1) /\ s = u ++ Nums(I.n)
  BY <1>1, <1>3, FlowTakes
<1> HIDE DEF s, u
<1>5. Len(s) = Len(u) + I.n
  BY <1>3, <1>4, TmpsNums
<1>6. Len(u) \in Nat /\ Len(mach.stk) = Len(s)
  BY <1>3, ShapeIsSeq, HoldsIsSeq
<1> QED
  BY <1>1, <1>4, <1>5, <1>6

LEMMA SeqCut ==
  ASSUME NEW s, IsSeq(s), NEW h \in Int, 0 <= h, h <= Len(s)
  PROVE  /\ IsSeq(SubSeq(s, 1, h)) /\ Len(SubSeq(s, 1, h)) = h
         /\ \A i \in 1 .. h : SubSeq(s, 1, h)[i] = s[i]
<1> DEFINE one == 1
<1>1. one \in Int /\ 1 <= one /\ one <= h + 1
  OBVIOUS
<1>2. h - one + 1 = h /\ \A i \in 1 .. h : one + i - 1 = i
  OBVIOUS
<1> HIDE DEF one
<1>3. /\ IsSeq(SubSeq(s, one, h)) /\ Len(SubSeq(s, one, h)) = h - one + 1
      /\ \A i \in 1 .. (h - one + 1) : SubSeq(s, one, h)[i] = s[one + i - 1]
  BY <1>1, SeqSub
<1>4. /\ IsSeq(SubSeq(s, one, h)) /\ Len(SubSeq(s, one, h)) = h
      /\ \A i \in 1 .. h : SubSeq(s, one, h)[i] = s[i]
  BY <1>2, <1>3
<1> QED
  BY <1>4 DEF one

LEMMA ExecPopSound ==
  ASSUME NEW t, Sound(t), NEW op \in {"pop", "drop", "operator"}, At1(op), NEW y,
         Go([mach EXCEPT !.stk = SubSeq(mach.stk, 1, Len(mach.stk) - I.n), !.rax = y])
  PROVE  Sound(t)'
<1>1. I.op = op /\ \E B : Executing(B)
  BY Executes
<1>2. PICK B : Executing(B)
  BY <1>1
<1> DEFINE s == B[mach.pc - 1]
           u == B[mach.pc]
           x == SubSeq(mach.stk, 1, Len(mach.stk) - I.n)
           m == [mach EXCEPT !.stk = x]
           n == [m EXCEPT !.rax = y]
<1>3. /\ IsMachine(mach) /\ Flow(I, s, u) /\ s \in Shapes /\ u \in Shapes /\ Holds(mach, s)
      /\ mach.pc \in 1 .. Len(gen.file)
  BY <1>2 DEF Executing
<1>4. I.n \in Nat /\ s = u ++ Nums(I.n)
  BY <1>1, <1>3, FlowTakes
<1>9. Go(n)
  <2>1. [mach EXCEPT !.stk = x, !.rax = y] = [[mach EXCEPT !.stk = x] EXCEPT !.rax = y]
    OBVIOUS
  <2> QED
    BY <2>1
<1>7. IsMachine(m) /\ m.pc = mach.pc /\ m.stk = x /\ m.mem = mach.mem /\ m.made = mach.made
  BY <1>3, WithWords
<1> HIDE DEF s, u, n
<1>5. Tmps(u) = Tmps(s) /\ Len(s) = Len(u) + I.n
  BY <1>3, <1>4, TmpsNums
<1>6. Len(mach.stk) = Len(s) /\ IsSeq(mach.stk) /\ Len(u) \in Nat
  BY <1>3, HoldsIsSeq, ShapeIsSeq
<1>8. IsSeq(x) /\ Len(x) = Len(u) /\ \A k \in 1 .. Len(u) : x[k] = mach.stk[k]
  <2> DEFINE z == mach.stk
             h == Len(z) - I.n
  <2>1. IsSeq(z) /\ h \in Int /\ 0 <= h /\ h <= Len(z)
    BY <1>4, <1>5, <1>6
  <2>2. h = Len(u)
    BY <1>4, <1>5, <1>6
  <2> HIDE DEF z, h
  <2>3. /\ IsSeq(SubSeq(z, 1, h)) /\ Len(SubSeq(z, 1, h)) = h
        /\ \A i \in 1 .. h : SubSeq(z, 1, h)[i] = z[i]
    BY <2>1, SeqCut
  <2>5. IsSeq(SubSeq(z, 1, h)) /\ Len(SubSeq(z, 1, h)) = Len(u) /\ \A k \in 1 .. Len(u) : SubSeq(z, 1, h)[k] = z[k]
    BY <2>2, <2>3
  <2> QED
    BY <2>5 DEF z, h
<1> HIDE DEF x, m
<1>10. \A k \in Tmps(s) : x[k] = mach.stk[k]
  <2>1. \A k \in Tmps(u) : k \in 1 .. Len(u)
    BY DEF Tmps
  <2> QED
    BY <1>5, <1>8, <2>1
<1>11. Holds(m, u)
  BY <1>3, <1>5, <1>7, <1>8, <1>10, HoldsWords
<1>12. Alike(m, n) /\ n.pc = m.pc
  BY <1>7, AlikeRax DEF n
<1>13. Holds(n, B[n.pc]) /\ n.pc \in 1 .. Len(gen.file)
  BY <1>3, <1>7, <1>11, <1>12, AlikeHolds DEF u
<1> QED
  BY <1>2, <1>9, <1>13, Advances

LEMMA ExecStackSound ==
  ASSUME NEW t, Sound(t), ExecStack
  PROVE  Sound(t)'
<1>1. CASE At1("push") /\ Go([mach EXCEPT !.stk = Append(@, mach.rax)])
  <2> DEFINE x == Append(mach.stk, mach.rax)
  <2>1. I.op = "push" /\ \E B : Executing(B)
    BY <1>1, Executes
  <2>2. PICK B : Executing(B)
    BY <2>1
  <2>3. Flow(I, B[mach.pc - 1], B[mach.pc]) /\ Holds(mach, B[mach.pc - 1])
    BY <2>2 DEF Executing
  <2>4. I.n = 1
    BY <2>1, <2>3, FlowPuts
  <2>5. IsSeq(mach.stk)
    BY <2>3, HoldsIsSeq
  <2>6. IsSeq(x) /\ Len(x) = Len(mach.stk) + I.n /\ \A k \in 1 .. Len(mach.stk) : x[k] = mach.stk[k]
    BY <2>4, <2>5, SeqAppend
  <2>7. Go([mach EXCEPT !.stk = x])
    BY <1>1
  <2> HIDE DEF x
  <2> QED
    BY <1>1, <2>6, <2>7, ExecPushSound
<1>2. CASE At1("reserve") /\ Go([mach EXCEPT !.stk = @ \o [i \in 1 .. I.n |-> Junk]])
  <2> DEFINE y == [i \in 1 .. I.n |-> Junk]
             x == mach.stk \o y
  <2>1. I.op = "reserve" /\ \E B : Executing(B)
    BY <1>2, Executes
  <2>2. PICK B : Executing(B)
    BY <2>1
  <2>3. Flow(I, B[mach.pc - 1], B[mach.pc]) /\ Holds(mach, B[mach.pc - 1])
    BY <2>2 DEF Executing
  <2>4. I.n \in Nat
    BY <2>1, <2>3, FlowPuts
  <2>5. IsSeq(mach.stk)
    BY <2>3, HoldsIsSeq
  <2>8. IsSeq(y) /\ Len(y) = I.n
    <3>1. y = [i \in 1 .. I.n |-> y[i]]
      OBVIOUS
    <3> HIDE DEF y
    <3> QED
      BY <2>4, <3>1, SeqMade
  <2> HIDE DEF y
  <2>6. IsSeq(x) /\ Len(x) = Len(mach.stk) + I.n /\ \A k \in 1 .. Len(mach.stk) : x[k] = mach.stk[k]
    BY <2>5, <2>8, SeqConcat
  <2>7. Go([mach EXCEPT !.stk = x])
    BY <1>2 DEF y
  <2> HIDE DEF x
  <2> QED
    BY <1>2, <2>6, <2>7, ExecPushSound
<1>3. ASSUME NEW op \in {"drop", "pop"}, At1(op),
             IF Len(mach.stk) < I.n THEN Stop("fault")
             ELSE Go([mach EXCEPT !.stk = Popped(I.n), !.rax = IF I.op = "pop" THEN Word(0) ELSE @])
      PROVE  Sound(t)'
  <2> DEFINE y == IF I.op = "pop" THEN Word(0) ELSE mach.rax
  <2>1. I.n \in Nat /\ I.n <= Len(mach.stk) /\ Len(mach.stk) \in Nat
    BY <1>3, WordsThere
  <2>2. ~(Len(mach.stk) < I.n)
    BY <2>1
  <2>3. Go([mach EXCEPT !.stk = SubSeq(mach.stk, 1, Len(mach.stk) - I.n), !.rax = y])
    BY <1>3, <2>2 DEF Popped
  <2> HIDE DEF y
  <2> QED
    BY <1>3, <2>3, ExecPopSound
<1> QED
  BY <1>1, <1>2, <1>3 DEF ExecStack

LEMMA ExecOperatorSound ==
  ASSUME NEW t, Sound(t), ExecOperator
  PROVE  Sound(t)'
<1>1. ASSUME NEW op \in {"operconst", "unary"}, At1(op), NEW x, Go([mach EXCEPT !.rax = x])
      PROVE  Sound(t)'
  <2>1. I.op = op /\ \E B : Executing(B)
    BY <1>1, Executes
  <2>2. PICK B : Executing(B)
    BY <2>1
  <2>3. IsMachine(mach) /\ Flow(I, B[mach.pc - 1], B[mach.pc])
    BY <2>2 DEF Executing
  <2>4. B[mach.pc] = B[mach.pc - 1]
    BY <1>1, <2>1, <2>3, FlowStays
  <2>5. Alike(mach, [mach EXCEPT !.rax = x]) /\ [mach EXCEPT !.rax = x].pc = mach.pc
    BY <2>3, AlikeRax
  <2> QED
    BY <1>1, <2>2, <2>4, <2>5, AdvancesAlike
<1>2. CASE At1("operconst") /\ IF Divides(I.s, mach.rax, I.n) THEN Stop("trap")
                               ELSE Go([mach EXCEPT !.rax = Apply(I.s, @, I.n)])
  <2>1. CASE Divides(I.s, mach.rax, I.n)
    BY <1>2, <2>1, IsTrapped
  <2>2. CASE ~Divides(I.s, mach.rax, I.n)
    <3> DEFINE x == Apply(I.s, mach.rax, I.n)
    <3>1. Go([mach EXCEPT !.rax = x])
      BY <1>2, <2>2
    <3> HIDE DEF x
    <3> QED
      BY <1>1, <1>2, <3>1
  <2> QED
    BY <2>1, <2>2
<1>3. CASE At1("operator") /\ IF mach.stk = << >> THEN Stop("fault")
                              ELSE IF Divides(I.s, Word(0), mach.rax) THEN Stop("trap")
                              ELSE Go([mach EXCEPT !.rax = Apply(I.s, Word(0), @), !.stk = Popped(1)])
  <2> DEFINE y == Apply(I.s, Word(0), mach.rax)
             x == SubSeq(mach.stk, 1, Len(mach.stk) - I.n)
  <2>1. I.n = 1 /\ I.n <= Len(mach.stk)
    BY <1>3, WordsThere
  <2>2. mach.stk # << >>
    BY <2>1, SeqOfNone
  <2>3. CASE Divides(I.s, Word(0), mach.rax)
    BY <1>3, <2>2, <2>3, IsTrapped
  <2>4. CASE ~Divides(I.s, Word(0), mach.rax)
    <3>1. Popped(1) = x
      BY <2>1 DEF Popped
    <3>2. Go([mach EXCEPT !.rax = y, !.stk = x])
      BY <1>3, <2>2, <2>4, <3>1
    <3> HIDE DEF x, y
    <3>3. [mach EXCEPT !.rax = y, !.stk = x] = [mach EXCEPT !.stk = x, !.rax = y]
      OBVIOUS
    <3>4. Go([mach EXCEPT !.stk = x, !.rax = y])
      BY <3>2, <3>3
    <3> QED
      BY <1>3, <3>4, ExecPopSound DEF x
  <2> QED
    BY <2>3, <2>4
<1>4. CASE At1("unary") /\ Go([mach EXCEPT !.rax = IF I.s = "neg" THEN -@ ELSE 1 - @])
  <2> DEFINE x == IF I.s = "neg" THEN -mach.rax ELSE 1 - mach.rax
  <2>1. Go([mach EXCEPT !.rax = x])
    BY <1>4
  <2> HIDE DEF x
  <2> QED
    BY <1>1, <1>4, <2>1
<1> QED
  BY <1>2, <1>3, <1>4 DEF ExecOperator

\* What is left of the machine when its words and its memory change.
Altered(m, n, stk, mem, made) ==
  IsMachine(n) /\ n.pc = m.pc /\ n.stk = stk /\ n.mem = mem /\ n.made = made

LEMMA WithMemory ==
  ASSUME NEW m, IsMachine(m), NEW x
  PROVE  Altered(m, [m EXCEPT !.mem = x], m.stk, x, m.made)
  BY DEF IsMachine, Altered

LEMMA WithMade ==
  ASSUME NEW m, IsMachine(m), NEW x
  PROVE  Altered(m, [m EXCEPT !.made = x], m.stk, m.mem, x)
  BY DEF IsMachine, Altered

LEMMA CallMachine ==
  ASSUME NEW m, IsMachine(m), NEW x, NEW y, NEW z, NEW k, NEW r
  PROVE  Altered(m, [[m EXCEPT !.calls = x, !.stk = y, !.mem = z, !.made = k] EXCEPT !.rax = r], y, z, k)
<1> DEFINE a == [m EXCEPT !.calls = x]
           b == [a EXCEPT !.stk = y]
           c == [b EXCEPT !.mem = z]
           d == [c EXCEPT !.made = k]
           e == [d EXCEPT !.rax = r]
<1>1. [[m EXCEPT !.calls = x, !.stk = y, !.mem = z, !.made = k] EXCEPT !.rax = r] = e
  OBVIOUS
<1>2. IsMachine(a) /\ a.pc = m.pc
  BY AlikeCalls DEF Alike
<1> HIDE DEF a
<1>3. IsMachine(b) /\ b.pc = m.pc /\ b.stk = y
  BY <1>2, WithWords
<1> HIDE DEF b
<1>4. IsMachine(c) /\ c.pc = m.pc /\ c.stk = y /\ c.mem = z
  BY <1>3, WithMemory DEF Altered
<1> HIDE DEF c
<1>5. IsMachine(d) /\ d.pc = m.pc /\ d.stk = y /\ d.mem = z /\ d.made = k
  BY <1>4, WithMade DEF Altered
<1> HIDE DEF d
<1>6. IsMachine(e) /\ e.pc = m.pc /\ e.stk = y /\ e.mem = z /\ e.made = k
  BY <1>5, AlikeRax DEF Alike
<1> HIDE DEF e
<1>7. Altered(m, e, y, z, k)
  BY <1>6 DEF Altered
<1> QED
  BY <1>1, <1>7

\* One word changes.
Replace(s, j, x) == [s EXCEPT ![j] = x]

Replaced(s, j, x, y) ==
  IsSeq(y) /\ Len(y) = Len(s) /\ y[j] = x /\ \A i \in 1 .. Len(s) : i # j => y[i] = s[i]

LEMMA SeqReplaced ==
  ASSUME NEW s, IsSeq(s), NEW j \in 1 .. Len(s), NEW x
  PROVE  Replaced(s, j, x, Replace(s, j, x))
<1> DEFINE n == Len(s)
           y == Replace(s, j, x)
<1>1. n \in Nat /\ s = [i \in 1 .. n |-> s[i]] /\ j \in 1 .. n
  BY SeqLen
<1> HIDE DEF n
<1>2. y = [i \in 1 .. n |-> IF i = j THEN x ELSE s[i]]
  BY <1>1 DEF Replace
<1> HIDE DEF y
<1>3. (\A i \in 1 .. n : y[i] = IF i = j THEN x ELSE s[i]) /\ y = [i \in 1 .. n |-> y[i]]
  BY <1>2
<1>4. IsSeq(y) /\ Len(y) = n
  BY <1>1, <1>3, SeqMade
<1>5. IsSeq(y) /\ Len(y) = n /\ y[j] = x /\ \A i \in 1 .. n : i # j => y[i] = s[i]
  BY <1>1, <1>3, <1>4
<1>6. Replaced(s, j, x, y)
  BY <1>5 DEF n, Replaced
<1> QED
  BY <1>6 DEF y

\* A call leaves a number.
LEMMA HoldsNumber ==
  ASSUME NEW m, NEW s, Holds(m, s), NEW u, NEW j, Called(s, u, j, "num"), NEW x,
         NEW n, Altered(m, n, [m.stk EXCEPT ![j] = x], m.mem, m.made)
  PROVE  Holds(n, u)
<1>1. Len(u) = Len(s) /\ j \in 1 .. Len(s) /\ \A i \in 1 .. Len(s) : u[i] = s[i]
  BY DEF Called
<1>2. s[j] = "num"
  BY DEF Called
<1>3. Tmps(u) = Tmps(s) /\ j \notin Tmps(s)
  BY <1>1, <1>2 DEF Tmps
<1>4. IsSeq(m.stk) /\ Len(m.stk) = Len(s)
  BY HoldsIsSeq
<1>5. IsMachine(n) /\ n.stk = [m.stk EXCEPT ![j] = x] /\ n.mem = m.mem /\ n.made = m.made
  BY DEF Altered
<1>6. IsSeq(n.stk) /\ Len(n.stk) = Len(m.stk) /\ \A i \in 1 .. Len(m.stk) : i # j => n.stk[i] = m.stk[i]
  <2> DEFINE y == n.stk
             z == m.stk
  <2>1. IsSeq(z) /\ j \in 1 .. Len(z) /\ y = Replace(z, j, x)
    BY <1>1, <1>4, <1>5 DEF Replace
  <2> HIDE DEF y, z
  <2>2. Replaced(z, j, x, Replace(z, j, x))
    BY <2>1, SeqReplaced
  <2>3. Replaced(z, j, x, y)
    BY <2>1, <2>2
  <2> QED
    BY <2>3 DEF Replaced, y, z
<1>7. IsSeq(n.stk) /\ Len(n.stk) = Len(u) /\ \A k \in Tmps(s) : n.stk[k] = m.stk[k]
  BY <1>1, <1>3, <1>4, <1>6 DEF Tmps
<1>8. IsMachine(n) /\ n.mem = m.mem /\ n.made = m.made /\ Tmps(u) = Tmps(s)
  BY <1>3, <1>5
<1> QED
  BY <1>7, <1>8, HoldsWords

\* A call leaves a new string.
LEMMA HoldsString ==
  ASSUME NEW m, NEW s \in Shapes, Holds(m, s), NEW u \in Shapes, NEW j, Called(s, u, j, "tmp"),
         NEW a, a = FirstAddress + m.made, NEW x, x.static = FALSE, NEW n,
         Altered(m, n, [m.stk EXCEPT ![j] = a], NewString(m.mem, a, x), m.made + 1)
  PROVE  Holds(n, u)
<1>1. /\ Len(u) = Len(s) /\ j \in 1 .. Len(s) /\ s[j] = "num" /\ u[j] = "tmp"
      /\ \A i \in 1 .. Len(s) : i # j => u[i] = s[i]
  BY DEF Called
<1>3. j \notin Tmps(s) /\ Tmps(u) = Tmps(s) \cup {j}
  BY <1>1, TmpsAt
<1>4. IsSeq(m.stk) /\ Len(m.stk) = Len(s) /\ m.made \in Nat /\ Kept(m.mem, m.stk, m.made, s)
  BY DEF Holds
<1>5. /\ IsMachine(n) /\ n.stk = [m.stk EXCEPT ![j] = a] /\ n.mem = NewString(m.mem, a, x)
      /\ n.made = m.made + 1
  BY DEF Altered
<1>6. /\ IsSeq(n.stk) /\ Len(n.stk) = Len(m.stk) /\ n.stk[j] = a
      /\ \A i \in 1 .. Len(m.stk) : i # j => n.stk[i] = m.stk[i]
  <2> DEFINE y == n.stk
             z == m.stk
  <2>1. IsSeq(z) /\ j \in 1 .. Len(z) /\ y = Replace(z, j, a)
    BY <1>1, <1>4, <1>5 DEF Replace
  <2> HIDE DEF y, z
  <2>2. Replaced(z, j, a, Replace(z, j, a))
    BY <2>1, SeqReplaced
  <2>3. Replaced(z, j, a, y)
    BY <2>1, <2>2
  <2> QED
    BY <2>3 DEF Replaced, y, z
<1>7. Len(n.stk) = Len(u) /\ \A k \in Tmps(s) : n.stk[k] = m.stk[k]
  BY <1>1, <1>3, <1>4, <1>6 DEF Tmps
<1>8. Kept(NewString(m.mem, a, x), n.stk, m.made + 1, u)
  <2> DEFINE y == n.stk
             z == m.stk
             d == m.made
             h == m.mem
  <2>1. /\ d \in Nat /\ Kept(h, z, d, s) /\ j \notin Tmps(s) /\ Tmps(u) = Tmps(s) \cup {j}
        /\ a = FirstAddress + d /\ y[j] = a /\ \A k \in Tmps(s) : y[k] = z[k]
    BY <1>3, <1>4, <1>6, <1>7
  <2> HIDE DEF y, z, d, h
  <2>2. Kept(NewString(h, a, x), y, d + 1, u)
    BY <2>1, KeptMore
  <2> QED
    BY <2>2 DEF y, z, d, h
<1>9. Kept(n.mem, n.stk, n.made, u) /\ n.made \in Nat
  BY <1>4, <1>5, <1>8
<1> QED
  BY <1>5, <1>6, <1>7, <1>9 DEF Holds

\* What a call does to the words: n arguments are on top, the slot is below.
CallsAt(s, u, x, j, n) ==
  s \in Shapes /\ u \in Shapes /\ Called(s, u, j, x) /\ j = Len(s) - n /\ n + 1 <= Len(s) /\ Len(s) \in Nat

LEMMA CallSlot ==
  ASSUME NEW n \in Nat, NEW x \in Words, NEW v \in Shapes, NEW w \in Shapes, Len(w) = n,
         NEW s, s = (v ++ Nums(1)) ++ w, NEW u, u = (v ++ <<x>>) ++ w
  PROVE  CallsAt(s, u, x, Len(s) - n, n)
<1>1. Called(s, u, Len(v) + 1, x)
  BY CallShape
<1>2. "num" \in Words /\ Nums(1) = <<"num">>
  BY OneNum DEF Words
<1>3. s \in Shapes /\ Len(s) = Len(v) + 1 + Len(w)
  <2> DEFINE y == (v ++ <<"num">>) ++ w
  <2>2. Slotted(y, v, "num", w)
    BY <1>2, SlotShape
  <2>1. y \in Shapes /\ Len(y) = Len(v) + 1 + Len(w)
    BY <2>2 DEF Slotted
  <2> QED
    BY <1>2, <2>1
<1>4. u \in Shapes
  <2> DEFINE y == (v ++ <<x>>) ++ w
  <2>2. Slotted(y, v, x, w)
    BY SlotShape
  <2>1. y \in Shapes
    BY <2>2 DEF Slotted
  <2> QED
    BY <2>1
<1>5. Len(v) \in Nat /\ Len(w) = n
  BY ShapeIsSeq
<1> DEFINE a == Len(v)
           b == Len(s)
<1>6. a \in Nat /\ b = a + 1 + n
  BY <1>3, <1>5
<1> HIDE DEF a, b
<1>7. a + 1 = b - n /\ n + 1 <= b /\ b \in Nat
  BY <1>6
<1>8. Called(s, u, b - n, x)
  BY <1>1, <1>7 DEF a
<1> QED
  BY <1>3, <1>4, <1>7, <1>8 DEF CallsAt, b

LEMMA ExecCallSound ==
  ASSUME NEW t, Sound(t), ExecCall
  PROVE  Sound(t)'
<1> DEFINE f == I.s
           args == [i \in 1 .. I.n |-> Content(Word(i - 1))]
           slot == Len(mach.stk) - I.n
           value == Result(f, args)
           new == FirstAddress + mach.made
           word == IF Funcs[f] = "str" THEN new ELSE value
           c == [text |-> value, static |-> FALSE]
           x == Append(mach.calls, <<f, args>>)
           y == IF Funcs[f] = "none" THEN mach.stk ELSE [mach.stk EXCEPT ![slot] = word]
           z == IF Funcs[f] # "str" THEN mach.mem ELSE NewString(mach.mem, new, c)
           k == IF Funcs[f] = "str" THEN mach.made + 1 ELSE mach.made
           short == Len(mach.stk) < I.n + Truth(Funcs[f] # "none")
<1>1. At1("call")
  BY DEF ExecCall
<1>2. IF short THEN Stop("fault")
      ELSE \E rax \in {Junk, word} :
             Go([[mach EXCEPT !.calls = x, !.stk = y, !.mem = z, !.made = k] EXCEPT !.rax = rax])
  BY DEF ExecCall
<1>3. I.op = "call" /\ \E B : Executing(B)
  BY <1>1, Executes
<1>4. PICK B : Executing(B)
  BY <1>3
<1> DEFINE s == B[mach.pc - 1]
           u == B[mach.pc]
<1>5. /\ IsMachine(mach) /\ Flow(I, s, u) /\ s \in Shapes /\ u \in Shapes /\ Holds(mach, s)
      /\ mach.pc \in 1 .. Len(gen.file)
  BY <1>4 DEF Executing
<1>6. /\ I.n \in Nat
      /\ Funcs[f] = "none" => u = s /\ I.n <= Len(s)
      /\ Funcs[f] # "none" =>
           \E v, w \in Shapes : /\ Len(w) = I.n /\ s = (v ++ Nums(1)) ++ w
                                /\ u = (v ++ <<WordOf(Funcs[f])>>) ++ w
  BY <1>3, <1>5, FlowCalls
<1> HIDE DEF s, u
<1>7. Len(mach.stk) = Len(s) /\ Len(s) \in Nat
  BY <1>5, HoldsIsSeq, ShapeIsSeq
<1>8. CASE Funcs[f] = "none"
  <2>1. y = mach.stk /\ z = mach.mem /\ k = mach.made
    BY <1>8
  <2>2. ~short
    BY <1>6, <1>7, <1>8 DEF Truth
  <2> HIDE DEF x, y, z, k, short, word
  <2>3. PICK rax : Go([[mach EXCEPT !.calls = x, !.stk = y, !.mem = z, !.made = k] EXCEPT !.rax = rax])
    BY <1>2, <2>2
  <2> DEFINE n == [[mach EXCEPT !.calls = x, !.stk = y, !.mem = z, !.made = k] EXCEPT !.rax = rax]
  <2>4. Altered(mach, n, y, z, k)
    BY <1>5, CallMachine
  <2>9. Go(n)
    BY <2>3
  <2> HIDE DEF n
  <2>5. Alike(mach, n) /\ n.pc = mach.pc
    BY <2>1, <2>4 DEF Altered, Alike
  <2>6. u = s
    BY <1>6, <1>8
  <2> QED
    BY <1>4, <2>5, <2>6, <2>9, AdvancesAlike DEF s, u
<1>9. CASE Funcs[f] # "none"
  <2> DEFINE j == Len(s) - I.n
             word0 == WordOf(Funcs[f])
  <2>0. word0 \in Words
    BY DEF WordOf, Words
  <2>1. CallsAt(s, u, word0, j, I.n)
    <3>1. PICK v, w \in Shapes : /\ Len(w) = I.n /\ s = (v ++ Nums(1)) ++ w
                                 /\ u = (v ++ <<word0>>) ++ w
      BY <1>6, <1>9
    <3> HIDE DEF word0
    <3> QED
      BY <1>6, <2>0, <3>1, CallSlot
  <2>2. slot = j
    BY <1>7
  <2>3. ~short
    BY <1>6, <1>7, <1>9, <2>1 DEF Truth, CallsAt
  <2>4. y = [mach.stk EXCEPT ![j] = word]
    BY <1>9, <2>2
  <2>5. Called(s, u, j, word0)
    BY <2>1 DEF CallsAt
  <2>6. /\ Funcs[f] = "str" => word0 = "tmp" /\ word = new /\ z = NewString(mach.mem, new, c) /\ k = mach.made + 1
        /\ Funcs[f] # "str" => word0 = "num" /\ z = mach.mem /\ k = mach.made
    BY DEF WordOf
  <2>7. c.static = FALSE
    OBVIOUS
  <2>8. new = FirstAddress + mach.made
    OBVIOUS
  <2> HIDE DEF x, y, z, k, short, word, word0, j, c, new
  <2>9. PICK rax : Go([[mach EXCEPT !.calls = x, !.stk = y, !.mem = z, !.made = k] EXCEPT !.rax = rax])
    BY <1>2, <2>3
  <2> DEFINE n == [[mach EXCEPT !.calls = x, !.stk = y, !.mem = z, !.made = k] EXCEPT !.rax = rax]
  <2>10. Altered(mach, n, y, z, k)
    BY <1>5, CallMachine
  <2>11. Go(n)
    BY <2>9
  <2> HIDE DEF n
  <2>12. CASE Funcs[f] # "str"
    <3>1. Altered(mach, n, [mach.stk EXCEPT ![j] = word], mach.mem, mach.made) /\ Called(s, u, j, "num")
      BY <2>4, <2>5, <2>6, <2>10, <2>12
    <3>2. Holds(n, u)
      BY <1>5, <3>1, HoldsNumber
    <3>3. n.pc = mach.pc
      BY <2>10 DEF Altered
    <3>4. n.pc \in 1 .. Len(gen.file) /\ Holds(n, B[n.pc])
      BY <1>5, <3>2, <3>3 DEF u
    <3> QED
      BY <1>4, <2>11, <3>4, Advances
  <2>13. CASE Funcs[f] = "str"
    <3>1. /\ Altered(mach, n, [mach.stk EXCEPT ![j] = new], NewString(mach.mem, new, c), mach.made + 1)
          /\ Called(s, u, j, "tmp")
      BY <2>4, <2>5, <2>6, <2>10, <2>13
    <3>2. Holds(n, u)
      BY <1>5, <2>7, <2>8, <3>1, HoldsString
    <3>3. n.pc = mach.pc
      BY <2>10 DEF Altered
    <3>4. n.pc \in 1 .. Len(gen.file) /\ Holds(n, B[n.pc])
      BY <1>5, <3>2, <3>3 DEF u
    <3> QED
      BY <1>4, <2>11, <3>4, Advances
  <2> QED
    BY <2>12, <2>13
<1> QED
  BY <1>8, <1>9

\* The clean-up frees the string of one word.
LEMMA HoldsFreed ==
  ASSUME NEW m, NEW s \in Shapes, Holds(m, s), NEW j \in 1 .. Len(s), s[j] = "tmp",
         NEW u, u = [s EXCEPT ![j] = "num"], NEW n,
         Altered(m, n, m.stk, Restrict(m.mem, DOMAIN m.mem \ {m.stk[j]}), m.made)
  PROVE  Holds(n, u)
<1>1. j \in Tmps(s) /\ Tmps(u) = Tmps(s) \ {j} /\ Len(u) = Len(s)
  BY TmpsFree
<1>2. IsSeq(m.stk) /\ Len(m.stk) = Len(s) /\ m.made \in Nat /\ Kept(m.mem, m.stk, m.made, s)
  BY DEF Holds
<1>3. /\ IsMachine(n) /\ n.stk = m.stk /\ n.mem = Restrict(m.mem, DOMAIN m.mem \ {m.stk[j]})
      /\ n.made = m.made
  BY DEF Altered
<1>4. Kept(Restrict(m.mem, DOMAIN m.mem \ {m.stk[j]}), m.stk, m.made, u)
  <2> DEFINE z == m.stk
             d == m.made
             h == m.mem
  <2>1. /\ d \in Nat /\ Kept(h, z, d, s) /\ j \in Tmps(s) /\ Tmps(u) = Tmps(s) \ {j}
    BY <1>1, <1>2
  <2> HIDE DEF z, d, h
  <2>2. Kept(Restrict(h, DOMAIN h \ {z[j]}), z, d, u)
    BY <2>1, KeptLess
  <2> QED
    BY <2>2 DEF z, d, h
<1>5. Kept(n.mem, n.stk, n.made, u)
  BY <1>3, <1>4
<1>6. IsSeq(n.stk) /\ Len(n.stk) = Len(u) /\ n.made \in Nat
  BY <1>1, <1>2, <1>3
<1> QED
  BY <1>3, <1>5, <1>6 DEF Holds

\* The word of a temporary is a string that may be freed.
LEMMA TemporaryIsString ==
  ASSUME NEW m, NEW s \in Shapes, Holds(m, s), NEW j \in 1 .. Len(s), s[j] = "tmp"
  PROVE  m.stk[j] \in DOMAIN m.mem /\ m.mem[m.stk[j]].static = FALSE
<1>1. j \in Tmps(s)
  BY DEF Tmps
<1>2. Kept(m.mem, m.stk, m.made, s)
  BY DEF Holds
<1> QED
  BY <1>1, <1>2 DEF Kept

LEMMA ExecFreeSound ==
  ASSUME NEW t, Sound(t), ExecFree
  PROVE  Sound(t)'
<1> DEFINE w == Word(I.n - 1)
           keep == IF mach.mem[w].static THEN DOMAIN mach.mem ELSE DOMAIN mach.mem \ {w}
           x == Restrict(mach.mem, keep)
           bad == Len(mach.stk) < I.n \/ ~IsString(w)
<1>1. At1("free")
  BY DEF ExecFree
<1>2. IF bad THEN Stop("fault") ELSE Go([mach EXCEPT !.mem = x, !.rax = Junk])
  BY DEF ExecFree
<1>3. I.op = "free" /\ \E B : Executing(B)
  BY <1>1, Executes
<1>4. PICK B : Executing(B)
  BY <1>3
<1> DEFINE s == B[mach.pc - 1]
           u == B[mach.pc]
           j == Len(s) - I.n + 1
<1>5. /\ IsMachine(mach) /\ Flow(I, s, u) /\ s \in Shapes /\ Holds(mach, s)
      /\ mach.pc \in 1 .. Len(gen.file)
  BY <1>4 DEF Executing
<1>6. I.n \in 1 .. Len(s) /\ s[j] = "tmp" /\ u = [s EXCEPT ![j] = "num"]
  BY <1>3, <1>5, FlowFrees
<1> HIDE DEF s, u
<1>7. Len(mach.stk) = Len(s) /\ Len(s) \in Nat
  BY <1>5, HoldsIsSeq, ShapeIsSeq
<1>8. j \in 1 .. Len(s) /\ Len(mach.stk) - (I.n - 1) = j /\ ~(Len(mach.stk) < I.n)
  BY <1>6, <1>7
<1>9. w = mach.stk[j]
  BY <1>8 DEF Word
<1> HIDE DEF j, w
<1>10. mach.stk[j] \in DOMAIN mach.mem /\ mach.mem[mach.stk[j]].static = FALSE
  BY <1>5, <1>6, <1>8, TemporaryIsString
<1>11. ~bad /\ keep = DOMAIN mach.mem \ {mach.stk[j]}
  BY <1>8, <1>9, <1>10 DEF IsString
<1>12. x = Restrict(mach.mem, DOMAIN mach.mem \ {mach.stk[j]})
  BY <1>11
<1> HIDE DEF x, bad, keep
<1> DEFINE m == [mach EXCEPT !.mem = x]
           n == [m EXCEPT !.rax = Junk]
<1>13. Go(n)
  <2>1. [mach EXCEPT !.mem = x, !.rax = Junk] = [[mach EXCEPT !.mem = x] EXCEPT !.rax = Junk]
    OBVIOUS
  <2> QED
    BY <1>2, <1>11, <2>1
<1>14. IsMachine(m) /\ m.pc = mach.pc /\ m.stk = mach.stk /\ m.mem = x /\ m.made = mach.made
  BY <1>5, WithMemory DEF Altered
<1> HIDE DEF m
<1>15. Alike(m, n) /\ n.pc = m.pc
  BY <1>14, AlikeRax
<1> HIDE DEF n
<1>16. Altered(mach, n, mach.stk, Restrict(mach.mem, DOMAIN mach.mem \ {mach.stk[j]}), mach.made)
  BY <1>12, <1>14, <1>15 DEF Altered, Alike
<1>17. Holds(n, u)
  BY <1>5, <1>6, <1>8, <1>16, HoldsFreed
<1>18. n.pc \in 1 .. Len(gen.file) /\ Holds(n, B[n.pc])
  BY <1>5, <1>14, <1>15, <1>17 DEF u
<1> QED
  BY <1>4, <1>13, <1>18, Advances

\* Behind the last instruction the shape is empty again.
LEMMA HoldsNone ==
  ASSUME NEW m, Holds(m, << >>)
  PROVE  m.stk = << >> /\ m.mem = InitMemory
<1> DEFINE none == << >>
<1>1. Len(none) = 0
  BY SeqOfNone
<1>2. Holds(m, none)
  OBVIOUS
<1> HIDE DEF none
<1>3. IsSeq(m.stk) /\ Len(m.stk) = 0 /\ Kept(m.mem, m.stk, m.made, none)
  BY <1>1, <1>2 DEF Holds
<1>4. m.stk = << >>
  BY <1>3, SeqEmpty
<1>5. Tmps(none) = {}
  BY <1>1 DEF Tmps
<1> DEFINE T == Tmps(none)
           k == m.mem
<1>6. /\ k = [a \in DOMAIN k |-> k[a]] /\ DOMAIN k = DOMAIN InitMemory \cup {m.stk[i] : i \in T}
      /\ \A a \in DOMAIN InitMemory : k[a] = InitMemory[a]
  BY <1>3 DEF Kept
<1>7. T = {}
  BY <1>5
<1> HIDE DEF T, k
<1>8. DOMAIN k = DOMAIN InitMemory
  BY <1>6, <1>7
<1>9. InitMemory = [a \in DOMAIN InitMemory |-> InitMemory[a]]
  BY MemoryAssumption
<1>10. k = InitMemory
  BY <1>6, <1>8, <1>9
<1> QED
  BY <1>4, <1>10 DEF k

LEMMA FinishSound ==
  ASSUME NEW t, Sound(t), Finish
  PROVE  Sound(t)'
<1>1. phase = "run" /\ mach.pc > Len(gen.file) /\ Stop("done")
  BY DEF Finish
<1>2. Running
  BY <1>1 DEF Sound
<1>3. PICK B : Runs(gen.file, B, mach)
  BY <1>2 DEF Running
<1> DEFINE p == gen.file
           k == mach.pc
<1>4. IsSeq(p) /\ B[Len(p)] = << >> /\ k \in 1 .. (Len(p) + 1) /\ Holds(mach, B[k - 1])
  BY <1>3 DEF Runs
<1>5. Len(p) \in Nat /\ k > Len(p)
  BY <1>1, <1>4, SeqLen
<1> HIDE DEF k, p
<1>6. k - 1 = Len(p)
  BY <1>4, <1>5
<1>7. Holds(mach, << >>)
  BY <1>4, <1>6
<1>8. Done
  BY <1>2, <1>7, HoldsNone DEF Done, Running
<1>9. phase' = "done" /\ mach' = mach /\ gen' = gen
  BY <1>1 DEF Stop
<1>10. Done'
  BY <1>8, <1>9 DEF Done
<1> QED
  BY <1>9, <1>10 DEF Sound

LEMMA StutterSound ==
  ASSUME NEW t, Sound(t), UNCHANGED vars
  PROVE  Sound(t)'
<1>1. prog' = prog /\ todo' = todo /\ vals' = vals /\ gen' = gen /\ mach' = mach /\ phase' = phase
  BY DEF vars
<1>2. Parsing(t) => Parsing(t)'
  BY <1>1 DEF Parsing
<1>3. Running => Running'
  BY <1>1 DEF Running
<1>4. Done => Done'
  BY <1>1 DEF Done
<1> QED
  BY <1>1, <1>2, <1>3, <1>4 DEF Sound

LEMMA ParserSound ==
  ASSUME NEW t, Plain(t), Sound(t), Parser
  PROVE  Sound(t)'
<1>0. PlainTrees(t)
  BY DEF Plain
<1>1. CASE BeginStatement \/ LoadVariable \/ LoadConstant \/ ParseUnary \/ Negate \/ Not
  BY <1>0, <1>1, BeginStatementSound, LoadVariableSound, LoadConstantSound, ParseUnarySound,
     NegateSound, NotSound
<1>2. CASE ParseOperator \/ RightOperand \/ Operator
  BY <1>0, <1>2, ParseOperatorSound, RightOperandSound, OperatorSound
<1>3. CASE ParseLogic \/ LogTerm \/ DropOperand \/ EndLogic
  BY <1>0, <1>3, ParseLogicSound, LogTermSound, DropOperandSound, EndLogicSound
<1>4. CASE ParseFuncCall \/ BeginArgument \/ PassArgument \/ CallFunction
  BY <1>0, <1>4, ParseFuncCallSound, BeginArgumentSound, PassArgumentSound, CallFunctionSound
<1>5. CASE GenerateAssignment \/ ParseIf \/ ParseReturn \/ EndCallStatement
  BY <1>0, <1>5, GenerateAssignmentSound, ParseIfSound, ParseReturnSound, EndCallStatementSound
<1> QED
  BY <1>1, <1>2, <1>3, <1>4, <1>5 DEF Parser

LEMMA MachineSound ==
  ASSUME NEW t, Sound(t), Machine
  PROVE  Sound(t)'
<1>1. CASE ExecLoad \/ ExecStack \/ ExecOperator \/ ExecJump \/ ExecCall
  BY <1>1, ExecLoadSound, ExecStackSound, ExecOperatorSound, ExecJumpSound, ExecCallSound
<1>2. CASE ExecFree \/ ExecStore \/ ExecEffect \/ ExecNothing \/ Finish
  BY <1>2, ExecFreeSound, ExecStoreSound, ExecEffectSound, ExecNothingSound, FinishSound
<1> QED
  BY <1>1, <1>2 DEF Machine

-----------------------------------------------------------------------------
\* The invariant: while a plain statement is parsed, the pieces of code on the
\* stack ArgCode, joined in the order in which the parser will join them, take
\* the words of the stack from one shape to the next; while the code runs, the
\* words on the stack have the shape that belongs to the instruction, and the
\* strings that were not there before are those of its temporaries.
THEOREM StatementsAreSound == ASSUME NEW t, Plain(t) PROVE Spec => []Sound(t)
<1>1. Init => Sound(t)
  BY InitSound
<1>2. Sound(t) /\ [Next]_vars => Sound(t)'
  BY ParserSound, MachineSound, StutterSound DEF Next
<1> QED
  BY <1>1, <1>2, PTL DEF Spec

\* However deep its expression, a plain statement leaves rsp and LocalSp where
\* they were when its code has run.
THEOREM PlainRestoresStack == ASSUME NEW t, Plain(t) PROVE Spec => []StackRestored
<1>1. Sound(t) => StackRestored
  BY DEF Sound, Done, StackRestored
<1> QED
  BY <1>1, StatementsAreSound, PTL

\* However many strings the calls of a plain statement make for each other,
\* every one is freed once when its code has run, and no other string is.
THEOREM PlainFreesTemps == ASSUME NEW t, Plain(t) PROVE Spec => []TempsFreed
<1>1. Sound(t) => TempsFreed
  BY DEF Sound, Done, TempsFreed
<1> QED
  BY <1>1, StatementsAreSound, PTL

\* The compiler never panics over a plain statement, and its code never pops
\* an empty stack and never frees a word that is not a string.
THEOREM PlainNeverPanics == ASSUME NEW t, Plain(t) PROVE Spec => []NoPanic
<1>1. Sound(t) => NoPanic
  BY DEF Sound, NoPanic
<1> QED
  BY <1>1, StatementsAreSound, PTL

=============================================================================
