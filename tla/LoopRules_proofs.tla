--------------------------- MODULE LoopRules_proofs ---------------------------
(***************************************************************************)
(* What the code of a function that keeps the rules does when it runs.     *)
(*                                                                         *)
(* For each place in the code there is a shape: which slots own an object, *)
(* how many words the parser believes to be on the stack, and the modes    *)
(* the machine may be in.  The code of a block is a path of shapes, from   *)
(* the parser's state before it to the parser's state behind it.           *)
(***************************************************************************)
EXTENDS LoopControl_proofs

-----------------------------------------------------------------------------
(* Shapes.                                                                 *)

Modes == {"ok", "failing", "broken", "returning", "over"}
Slot == [kind : {"str", "iter"}, ofs : Nat \ {0}]
Shape == [own : SUBSET Slot, sp : Nat, modes : SUBSET Modes]
ShapeIs(own, n, modes) == [own |-> own, sp |-> n, modes |-> modes]
Dead == ShapeIs({}, 0, {})

SlotOf(v) == [kind |-> v.kind, ofs |-> v.ofs]
Own(vs) == {SlotOf(v) : v \in Owning(vs)}
ShapeOf(vs, modes) == ShapeIs(Own(vs), Cardinality(vs), modes)

(* Mode m with n words on the stack is mode k with t words.                *)
Becomes(m, k, n, t) ==
  \/ m = k /\ m \in {"ok", "failing", "broken"} /\ n = t
  \/ m = "returning" /\ k = "returning" /\ t <= n
  \/ m \in {"ok", "failing", "over"} /\ k = "over"

Into(s, t) ==
  \A m \in s.modes : s.own = t.own /\ \E k \in t.modes : Becomes(m, k, s.sp, t.sp)

-----------------------------------------------------------------------------
(* What each instruction makes of the shape s before it, if t is the shape *)
(* behind it.  B[l] is the shape with which jumps to the label l arrive.   *)

FlowsNew(x, s, t) ==
  /\ s.modes \subseteq {"ok"} /\ x.ofs = s.sp + 1
  /\ Into(ShapeIs(IF x.kind = "int" THEN s.own ELSE s.own \cup {SlotOf(x)}, s.sp + 1, s.modes), t)

FlowsFree(x, s, t) ==
  \E w \in s.own : w.ofs = x.ofs /\ Into(ShapeIs(s.own \ {w}, s.sp, s.modes), t)

FlowsPop(x, s, t) ==
  /\ x.n <= s.sp /\ \A w \in s.own : w.ofs <= s.sp - x.n
  /\ "over" \in s.modes => s.own = {}
  /\ Into(ShapeIs(s.own, s.sp - x.n, s.modes), t)

ModeOf(x) == IF x.n = 1 THEN "broken" ELSE IF x.n = 2 THEN "returning" ELSE "failing"
FlowsMark(x, s, t) ==
  /\ s.modes \subseteq {"ok", "failing"} /\ (x.by = "return" <=> x.n = 2)
  /\ s.modes # {} => Into(ShapeIs(s.own, s.sp, {ModeOf(x)}), t)

Only(s, modes) == ShapeIs(s.own, s.sp, s.modes \cap modes)
Marked == {"failing", "broken", "returning"}
FlowsJumpError(x, s, t, B) ==
  /\ "over" \notin s.modes
  /\ Into(Only(s, Marked), B[x.label]) /\ Into(Only(s, {"ok"}), t)
FlowsJumpNoError(x, s, t, B) ==
  /\ "over" \notin s.modes
  /\ Into(Only(s, {"ok"}), B[x.label]) /\ Into(Only(s, Marked), t)

FlowsCall(s, t) ==
  /\ s.modes \subseteq {"ok"}
  /\ s.modes # {} => Into(ShapeIs(s.own, s.sp, {"ok", "failing"}), t)

FlowsNext(s, t) ==
  /\ s.modes \subseteq {"ok", "broken"}
  /\ s.modes # {} => /\ \E w \in s.own : w.kind = "iter" /\ w.ofs = s.sp
                     /\ Into(ShapeIs(s.own, s.sp, s.modes \cup {"broken"}), t)

FlowsReturnIfErr2(x, s, t, B) ==
  /\ s.modes \subseteq {"broken", "returning"}
  /\ "returning" \in s.modes => Into(ShapeIs(s.own, s.sp, {"over"}), B[x.label])
  /\ Into(Only(s, {"broken"}), t)

FlowsClear(s, t) ==
  /\ s.modes \subseteq {"broken"}
  /\ s.modes # {} => Into(ShapeIs(s.own, s.sp, {"ok"}), t)

FlowsLeave(s, t) ==
  /\ s.modes \subseteq {"over"} /\ s.own = {}
  /\ s.modes # {} => Into(ShapeIs({}, 0, {"over"}), t)

Flows(x, s, t, B) ==
  /\ x.op = "new" => FlowsNew(x, s, t)
  /\ x.op = "free" => FlowsFree(x, s, t)
  /\ x.op = "pop" => FlowsPop(x, s, t)
  /\ x.op = "mark" => FlowsMark(x, s, t)
  /\ x.op = "jump" => Into(s, B[x.label])
  /\ x.op = "jumpFalse" => Into(s, B[x.label]) /\ Into(s, t)
  /\ x.op = "jumpError" => FlowsJumpError(x, s, t, B)
  /\ x.op = "jumpNoError" => FlowsJumpNoError(x, s, t, B)
  /\ x.op = "label" => Into(s, t) /\ Into(B[x.label], t)
  /\ x.op = "call" => FlowsCall(s, t)
  /\ x.op = "next" => FlowsNext(s, t)
  /\ x.op = "returnIfErr2" => FlowsReturnIfErr2(x, s, t, B)
  /\ x.op = "clearBreakErr" => FlowsClear(s, t)
  /\ x.op = "leave" => FlowsLeave(s, t)

(* The code c leads from the shape s to the shape t.                       *)
IsPath(A, c, s, t, B) ==
  /\ A \in [1 .. Len(c) + 1 -> Shape] /\ A[1] = s /\ A[Len(c) + 1] = t
  /\ \A i \in 1 .. Len(c) : Flows(c[i], A[i], A[i + 1], B)
Path(c, s, t, B) == \E A : IsPath(A, c, s, t, B)

(* The shapes of the labels are only widened where code already jumps to,  *)
(* and kept where a label is placed.                                       *)
Widened(c, B, C) ==
  /\ \A l \in Placed(c) : C[l] = B[l]
  /\ \A l \in Targets(c) : Into(B[l], C[l])

-----------------------------------------------------------------------------
(* Shapes: they are ordered.                                               *)
LEMMA ShapeTypes ==
  /\ \A own \in SUBSET Slot, n \in Nat, modes \in SUBSET Modes :
       LET s == ShapeIs(own, n, modes)
       IN  s \in Shape /\ s.own = own /\ s.sp = n /\ s.modes = modes
  /\ Dead \in Shape
BY DEF ShapeIs, Shape, Dead

LEMMA IntoSame == \A s \in Shape : Into(s, s)
BY DEF Into, Becomes, Shape, Modes

LEMMA IntoTwice ==
  ASSUME NEW s \in Shape, NEW t \in Shape, NEW u \in Shape, Into(s, t), Into(t, u)
  PROVE  Into(s, u)
<1> SUFFICES ASSUME NEW m \in s.modes
             PROVE  s.own = u.own /\ \E k \in u.modes : Becomes(m, k, s.sp, u.sp)
  BY DEF Into
<1>1. PICK k \in t.modes : s.own = t.own /\ Becomes(m, k, s.sp, t.sp)
  BY DEF Into
<1>2. PICK j \in u.modes : t.own = u.own /\ Becomes(k, j, t.sp, u.sp)
  BY DEF Into
<1>3. s.sp \in Nat /\ t.sp \in Nat /\ u.sp \in Nat
  BY DEF Shape
<1>4. Becomes(m, j, s.sp, u.sp)
  BY <1>1, <1>2, <1>3 DEF Becomes
<1> QED
  BY <1>1, <1>2, <1>4

LEMMA IntoFromNone ==
  ASSUME NEW s, s.modes = {}, NEW t
  PROVE  Into(s, t)
BY DEF Into

(* An instruction's shape may be widened at the labels it jumps to.        *)
LEMMA FlowsWidened ==
  ASSUME NEW x \in Emitted, NEW s \in Shape, NEW t \in Shape,
         NEW B \in [Nat -> Shape], NEW C \in [Nat -> Shape],
         x.op \in JumpOps => Into(B[x.label], C[x.label]),
         x.op = "label" => C[x.label] = B[x.label],
         Flows(x, s, t, B)
  PROVE  Flows(x, s, t, C)
<1>1. ASSUME x.op \in JumpOps
      PROVE  /\ x.label \in Nat /\ B[x.label] \in Shape /\ C[x.label] \in Shape
             /\ \A u \in Shape : Into(u, B[x.label]) => Into(u, C[x.label])
  BY <1>1, InstructionTypes, IntoTwice
<1>2. \A modes \in SUBSET Modes : ShapeIs(s.own, s.sp, modes) \in Shape
  BY DEF Shape, ShapeIs
<1>3. \A modes : Only(s, modes) \in Shape
  BY DEF Shape, ShapeIs, Only
<1>4. x.op = "jump" => Into(s, C[x.label])
  BY <1>1 DEF Flows, JumpOps
<1>5. x.op = "jumpFalse" => Into(s, C[x.label]) /\ Into(s, t)
  BY <1>1 DEF Flows, JumpOps
<1>6. x.op = "jumpError" => FlowsJumpError(x, s, t, C)
  BY <1>1, <1>3 DEF Flows, JumpOps, FlowsJumpError
<1>7. x.op = "jumpNoError" => FlowsJumpNoError(x, s, t, C)
  BY <1>1, <1>3 DEF Flows, JumpOps, FlowsJumpNoError
<1>8. {"over"} \in SUBSET Modes
  BY DEF Modes
<1>9. x.op = "returnIfErr2" => FlowsReturnIfErr2(x, s, t, C)
  BY <1>1, <1>2, <1>8 DEF Flows, JumpOps, FlowsReturnIfErr2
<1>10. x.op = "label" => Into(s, t) /\ Into(C[x.label], t)
  BY DEF Flows
<1> QED
  BY <1>4, <1>5, <1>6, <1>7, <1>9, <1>10 DEF Flows

-----------------------------------------------------------------------------
(* Paths.                                                                  *)
LEMMA PathNone ==
  ASSUME NEW s \in Shape, NEW B
  PROVE  Path(<<>>, s, s, B)
<1> DEFINE A == [i \in 1 .. 1 |-> s]
<1>1. IsPath(A, <<>>, s, s, B)
  BY DEF IsPath
<1> QED
  BY <1>1 DEF Path

LEMMA PathOne ==
  ASSUME NEW x, NEW s \in Shape, NEW t \in Shape, NEW B, Flows(x, s, t, B)
  PROVE  Path(<<x>>, s, t, B)
<1> DEFINE A == [i \in 1 .. 2 |-> IF i = 1 THEN s ELSE t]
<1>1. Len(<<x>>) = 1 /\ <<x>>[1] = x
  OBVIOUS
<1>2. A \in [1 .. 2 -> Shape] /\ A[1] = s /\ A[2] = t
  OBVIOUS
<1>3. IsPath(A, <<x>>, s, t, B)
  BY <1>1, <1>2 DEF IsPath
<1> QED
  BY <1>3 DEF Path

LEMMA PathJoin ==
  ASSUME NEW S, NEW c \in Seq(S), NEW d \in Seq(S), NEW s, NEW t, NEW u, NEW B,
         Path(c, s, t, B), Path(d, t, u, B)
  PROVE  Path(c \o d, s, u, B)
<1>1. PICK A : IsPath(A, c, s, t, B)
  BY DEF Path
<1>2. PICK D : IsPath(D, d, t, u, B)
  BY DEF Path
<1>3. PICK m \in Nat, n \in Nat : m = Len(c) /\ n = Len(d)
  OBVIOUS
<1>4. PICK e : e = c \o d
  OBVIOUS
<1>5. /\ Len(e) = m + n
      /\ \A i \in 1 .. m : e[i] = c[i]
      /\ \A i \in 1 .. n : e[m + i] = d[i]
  BY <1>3, <1>4
<1> DEFINE E == [i \in 1 .. m + n + 1 |-> IF i <= m THEN A[i] ELSE D[i - m]]
<1>6. A \in [1 .. m + 1 -> Shape] /\ A[1] = s /\ A[m + 1] = t
  BY <1>1, <1>3 DEF IsPath
<1>7. D \in [1 .. n + 1 -> Shape] /\ D[1] = t /\ D[n + 1] = u
  BY <1>2, <1>3 DEF IsPath
<1>8. E \in [1 .. m + n + 1 -> Shape]
  <2> SUFFICES ASSUME NEW i \in 1 .. m + n + 1
               PROVE  (IF i <= m THEN A[i] ELSE D[i - m]) \in Shape
    OBVIOUS
  <2>1. CASE i <= m
    BY <2>1, <1>6
  <2>2. CASE ~(i <= m)
    BY <2>2, <1>7
  <2> QED
    BY <2>1, <2>2
<1>9. E[1] = s /\ E[m + n + 1] = u
  BY <1>6, <1>7
<1>10. ASSUME NEW i \in 1 .. m + n
       PROVE  Flows(e[i], E[i], E[i + 1], B)
  <2>1. CASE i < m
    <3>1. e[i] = c[i] /\ E[i] = A[i] /\ E[i + 1] = A[i + 1] /\ i \in 1 .. m
      BY <2>1, <1>5
    <3> QED
      BY <3>1, <1>1, <1>3 DEF IsPath
  <2>2. CASE i = m
    <3>1. e[i] = c[i] /\ E[i] = A[i] /\ E[i + 1] = A[i + 1] /\ i \in 1 .. m
      BY <2>2, <1>5, <1>6, <1>7
    <3> QED
      BY <3>1, <1>1, <1>3 DEF IsPath
  <2>3. CASE i > m
    <3>1. PICK j \in 1 .. n : j = i - m
      BY <2>3
    <3>2. e[i] = d[j] /\ E[i] = D[j] /\ E[i + 1] = D[j + 1]
      <4>1. i = m + j /\ ~(i <= m) /\ ~(i + 1 <= m) /\ i + 1 - m = j + 1 /\ i \in 1 .. m + n + 1
            /\ i + 1 \in 1 .. m + n + 1
        BY <2>3, <3>1
      <4>2. e[i] = d[j]
        BY <4>1, <3>1, <1>5
      <4>3. E[i] = D[j] /\ E[i + 1] = D[j + 1]
        <5>1. E[i] = D[i - m] /\ E[i + 1] = D[i + 1 - m]
          BY <4>1
        <5> QED
          BY <5>1, <4>1
      <4> QED
        BY <4>2, <4>3
    <3>3. Flows(d[j], D[j], D[j + 1], B)
      BY <1>2, <1>3 DEF IsPath
    <3> QED
      BY <3>2, <3>3
  <2> QED
    BY <2>1, <2>2, <2>3
<1> HIDE DEF E
<1>11. IsPath(E, e, s, u, B)
  BY <1>5, <1>8, <1>9, <1>10 DEF IsPath
<1> QED
  BY <1>4, <1>11 DEF Path

LEMMA PathWidened ==
  ASSUME NEW c \in Seq(Emitted), NEW s, NEW t, NEW B \in [Nat -> Shape], NEW C \in [Nat -> Shape],
         Path(c, s, t, B), Widened(c, B, C)
  PROVE  Path(c, s, t, C)
<1>1. PICK A : IsPath(A, c, s, t, B)
  BY DEF Path
<1>2. ASSUME NEW i \in 1 .. Len(c)
      PROVE  Flows(c[i], A[i], A[i + 1], C)
  <2>1. c[i] \in Emitted /\ A[i] \in Shape /\ A[i + 1] \in Shape /\ Flows(c[i], A[i], A[i + 1], B)
    BY SMTT(30), <1>1 DEF IsPath
  <2>2. c[i].op \in JumpOps => c[i].label \in Targets(c)
    BY DEF Targets, Range
  <2>3. c[i].op = "label" => c[i].label \in Placed(c)
    BY DEF Placed, Range
  <2> QED
    BY <2>1, <2>2, <2>3, FlowsWidened DEF Widened
<1>3. IsPath(A, c, s, t, C)
  BY <1>1, <1>2 DEF IsPath
<1> QED
  BY <1>3 DEF Path

(* New code behind code that is widened first.                             *)
LEMMA PathExtended ==
  ASSUME NEW c \in Seq(Emitted), NEW d \in Seq(Emitted), NEW s, NEW t, NEW u,
         NEW B \in [Nat -> Shape], NEW C \in [Nat -> Shape],
         Path(c, s, t, B), Widened(c, B, C), Path(d, t, u, C)
  PROVE  Path(c \o d, s, u, C)
BY PathWidened, PathJoin

-----------------------------------------------------------------------------
(* What variables own.                                                     *)
LEMMA OwnTypes ==
  ASSUME NEW vs, Dense(vs)
  PROVE  /\ Own(vs) \in SUBSET Slot /\ Cardinality(vs) \in Nat
         /\ \A modes \in SUBSET Modes : ShapeOf(vs, modes) \in Shape
         /\ \A w \in Own(vs) : w.ofs \in 1 .. Cardinality(vs)
         /\ \A v, w \in Own(vs) : v.ofs = w.ofs => v = w
<1>1. vs \subseteq VarType /\ \A v, w \in vs : v.ofs = w.ofs => v = w
  BY DEF Dense
<1>2. Cardinality(vs) \in Nat
  BY DenseFacts
<1>3. ASSUME NEW L \in Nat
      PROVE  Dense(Under(vs, L)) /\ {v.ofs : v \in Under(vs, L)} = 1 .. Cardinality(Under(vs, L))
             /\ Cardinality(Under(vs, L)) \in Nat /\ Cardinality(Under(vs, L)) <= Cardinality(vs)
  BY DenseFacts DEF Dense
<1>4. \A v \in vs : v.ofs \in 1 .. Cardinality(vs)
  <2> TAKE v \in vs
  <2>1. v.level \in Nat /\ v.level + 1 \in Nat /\ v \in Under(vs, v.level + 1)
    BY <1>1 DEF VarType, Under
  <2>2. v.ofs \in 1 .. Cardinality(Under(vs, v.level + 1))
    BY <2>1, <1>3
  <2> QED
    BY <2>1, <2>2, <1>2, <1>3
<1>5. \A v \in Owning(vs) : SlotOf(v) \in Slot /\ SlotOf(v).ofs = v.ofs /\ v \in vs
  BY <1>1, <1>4, <1>2 DEF Owning, SlotOf, Slot, VarType
<1>6. Own(vs) \in SUBSET Slot
  BY <1>5 DEF Own
<1>7. \A modes \in SUBSET Modes : ShapeOf(vs, modes) \in Shape
  BY <1>6, <1>2, ShapeTypes DEF ShapeOf
<1>8. \A w \in Own(vs) : w.ofs \in 1 .. Cardinality(vs)
  BY <1>4, <1>5 DEF Own
<1>9. \A v, w \in Own(vs) : v.ofs = w.ofs => v = w
  BY <1>1, <1>5 DEF Own
<1> QED
  BY <1>2, <1>6, <1>7, <1>8, <1>9

LEMMA OwnSplit ==
  ASSUME NEW vs, Dense(vs), NEW L \in Nat
  PROVE  /\ Own(Under(vs, L)) = Own(vs) \ Own(vs \ Under(vs, L))
         /\ Own(Under(vs, L)) \cup Own(vs \ Under(vs, L)) = Own(vs)
<1>1. \A v, w \in vs : SlotOf(v) = SlotOf(w) => v = w
  BY DEF Dense, SlotOf
<1>2. Owning(Under(vs, L)) = Owning(vs) \ Owning(vs \ Under(vs, L))
      /\ Owning(vs \ Under(vs, L)) \subseteq Owning(vs) /\ Owning(vs) \subseteq vs
  BY DEF Owning, Under
<1> QED
  BY <1>1, <1>2 DEF Own

-----------------------------------------------------------------------------
(* The code that frees and pops variables.                                 *)
LEMMA PathPops ==
  ASSUME NEW n \in Nat, NEW k \in Nat, n <= k, NEW own \in SUBSET Slot, NEW modes \in SUBSET Modes,
         \A w \in own : w.ofs <= k - n, "over" \in modes => own = {}, NEW B
  PROVE  Path(Pops(n), ShapeIs(own, k, modes), ShapeIs(own, k - n, modes), B)
<1>1. CASE n = 0
  <2>1. k - n = k /\ Pops(n) = <<>>
    BY <1>1 DEF Pops
  <2> QED
    BY <2>1, PathNone, ShapeTypes
<1>2. CASE n # 0
  <2>1. PICK x : x = [op |-> "pop", n |-> n]
    OBVIOUS
  <2>2. Pops(n) = <<x>>
    BY <1>2, <2>1 DEF Pops
  <2>3. PICK s \in Shape, t \in Shape : s = ShapeIs(own, k, modes) /\ t = ShapeIs(own, k - n, modes)
    BY ShapeTypes
  <2>4. s.own = own /\ s.sp = k /\ s.modes = modes /\ x.n = n /\ x.op = "pop"
    BY <2>1, <2>3 DEF ShapeIs
  <2>5. FlowsPop(x, s, t)
    BY <2>3, <2>4, IntoSame DEF FlowsPop
  <2>6. Flows(x, s, t, B)
    BY <2>4, <2>5 DEF Flows
  <2> QED
    BY <2>2, <2>3, <2>6, PathOne
<1> QED
  BY <1>1, <1>2

LEMMA PathFrees ==
  ASSUME NEW vs, vs \subseteq VarType, IsFiniteSet(vs), \A v \in vs : v.ofs # 0,
         \A v, w \in vs : v.ofs = w.ofs => v = w,
         NEW k \in Nat, NEW own \in SUBSET Slot, Own(vs) \subseteq own,
         NEW modes \in SUBSET Modes, NEW B
  PROVE  Path(Frees(vs), ShapeIs(own, k, modes), ShapeIs(own \ Own(vs), k, modes), B)
<1>1. PICK n \in Nat : n = Cardinality(Owning(vs))
  BY FreesList
<1>2. PICK f \in [1 .. n -> Owning(vs)] :
        /\ \A i, j \in 1 .. n : f[i] = f[j] => i = j
        /\ \A v \in Owning(vs) : \E i \in 1 .. n : f[i] = v
        /\ Frees(vs) = [i \in 1 .. n |-> Free(f[i])]
  BY <1>1, FreesList
<1>3. PICK c : c = Frees(vs)
  OBVIOUS
<1>4. Len(c) = n /\ \A i \in 1 .. n : c[i] = Free(f[i])
  BY <1>2, <1>3
<1> DEFINE Left1(i) == own \ {SlotOf(f[j]) : j \in 1 .. i - 1}
           A == [i \in 1 .. n + 1 |-> ShapeIs(Left1(i), k, modes)]
<1>5. \A i \in 1 .. n + 1 : Left1(i) \in SUBSET Slot
  OBVIOUS
<1>6. Left1(1) = own
  OBVIOUS
<1>7. Left1(n + 1) = own \ Own(vs)
  <2>1. n + 1 - 1 = n
    OBVIOUS
  <2>2. {SlotOf(f[j]) : j \in 1 .. n} = Own(vs)
    BY <1>2 DEF Own
  <2> QED
    BY <2>1, <2>2
<1>8. ASSUME NEW i \in 1 .. n
      PROVE  \E w \in Left1(i) : w.ofs = c[i].ofs /\ Left1(i + 1) = Left1(i) \ {w}
  <2>1. PICK w : w = SlotOf(f[i])
    OBVIOUS
  <2>2. f[i] \in Owning(vs) /\ w \in Own(vs) /\ w \in own
    BY <2>1, <1>2 DEF Own
  <2>3. \A j \in 1 .. i - 1 : SlotOf(f[j]) # w
    <3> TAKE j \in 1 .. i - 1
    <3>1. j \in 1 .. n /\ j # i /\ f[j] \in Owning(vs) /\ f[j] # f[i]
      BY <1>2
    <3>2. f[j].ofs # f[i].ofs
      BY <3>1, <2>2 DEF Owning
    <3> QED
      BY <3>2, <2>1 DEF SlotOf
  <2>4. w \in Left1(i)
    BY <2>2, <2>3
  <2>5. w.ofs = c[i].ofs
    BY <2>1, <1>4 DEF SlotOf, Free
  <2>6. 1 .. i + 1 - 1 = (1 .. i - 1) \cup {i}
    OBVIOUS
  <2>7. {SlotOf(f[j]) : j \in 1 .. i + 1 - 1} = {SlotOf(f[j]) : j \in 1 .. i - 1} \cup {w}
    BY <2>1, <2>6
  <2>8. Left1(i + 1) = Left1(i) \ {w}
    BY <2>7
  <2> QED
    BY <2>4, <2>5, <2>8
<1> HIDE DEF Left1
<1>9. A \in [1 .. n + 1 -> Shape]
  BY <1>5, ShapeTypes
<1>10. ASSUME NEW i \in 1 .. n
       PROVE  Flows(c[i], A[i], A[i + 1], B)
  <2>1. PICK w \in Left1(i) : w.ofs = c[i].ofs /\ Left1(i + 1) = Left1(i) \ {w}
    BY <1>8
  <2>2. PICK s \in Shape, t \in Shape : s = A[i] /\ t = A[i + 1]
    BY <1>9
  <2>3. s = ShapeIs(Left1(i), k, modes) /\ t = ShapeIs(Left1(i + 1), k, modes)
    BY <2>2
  <2>4. s.own = Left1(i) /\ s.sp = k /\ s.modes = modes /\ t = ShapeIs(s.own \ {w}, s.sp, s.modes)
    BY <2>1, <2>3 DEF ShapeIs
  <2>5. FlowsFree(c[i], s, t)
    BY <2>1, <2>4, IntoSame DEF FlowsFree
  <2>6. c[i].op = "free"
    BY <1>4 DEF Free
  <2> QED
    BY <2>2, <2>5, <2>6 DEF Flows
<1>11. A[1] = ShapeIs(own, k, modes) /\ A[n + 1] = ShapeIs(own \ Own(vs), k, modes)
  <2>1. 1 \in 1 .. n + 1 /\ n + 1 \in 1 .. n + 1
    OBVIOUS
  <2>2. A[1] = ShapeIs(Left1(1), k, modes) /\ A[n + 1] = ShapeIs(Left1(n + 1), k, modes)
    BY <2>1
  <2> HIDE DEF A
  <2> QED
    BY <2>2, <1>6, <1>7
<1> HIDE DEF A
<1>12. IsPath(A, c, ShapeIs(own, k, modes), ShapeIs(own \ Own(vs), k, modes), B)
  BY <1>4, <1>9, <1>10, <1>11 DEF IsPath
<1> QED
  BY <1>3, <1>12 DEF Path

(* The variables of the levels from L on are freed and popped.             *)
LEMMA PathFreeVars ==
  ASSUME NEW vs, Dense(vs), \A v \in vs : v.ofs # 0, NEW L \in Nat, NEW modes \in SUBSET Modes,
         "over" \in modes => Own(Under(vs, L)) = {}, NEW B
  PROVE  /\ Path(FreeVars(vs \ Under(vs, L)), ShapeOf(vs, modes), ShapeOf(Under(vs, L), modes), B)
         /\ Own(vs \ Under(vs, L)) = {} =>
              Path(Pops(Cardinality(vs \ Under(vs, L))), ShapeOf(vs, modes),
                   ShapeOf(Under(vs, L), modes), B)
<1>1. PICK us, ds : us = Under(vs, L) /\ ds = vs \ Under(vs, L)
  OBVIOUS
<1>2. PICK k \in Nat, m \in Nat : k = Cardinality(vs) /\ m = Cardinality(us)
  BY <1>1, DenseFacts
<1>3. Dense(us) /\ Cardinality(ds) = k - m /\ m <= k
  BY <1>1, <1>2, DenseFacts
<1>4. PICK n \in Nat : n = k - m
  BY <1>3
<1>5. Own(us) = Own(vs) \ Own(ds) /\ Own(ds) \subseteq Own(vs) /\ Own(us) \in SUBSET Slot
      /\ Own(vs) \in SUBSET Slot /\ \A w \in Own(us) : w.ofs \in 1 .. m
  <2>1. Own(us) = Own(vs) \ Own(ds) /\ Own(us) \cup Own(ds) = Own(vs)
    BY <1>1, OwnSplit
  <2>2. Own(vs) \in SUBSET Slot
    BY OwnTypes
  <2>3. Own(us) \in SUBSET Slot /\ \A w \in Own(us) : w.ofs \in 1 .. Cardinality(us)
    BY <1>3, OwnTypes
  <2>4. \A w \in Own(us) : w.ofs \in 1 .. m
    BY <2>3, <1>2
  <2>5. Own(ds) \subseteq Own(vs)
    BY <2>1
  <2> QED
    BY <2>1, <2>2, <2>3, <2>4, <2>5
<1>6. ds \subseteq VarType /\ IsFiniteSet(ds) /\ (\A v \in ds : v.ofs # 0)
      /\ \A v, w \in ds : v.ofs = w.ofs => v = w
  <2>1. ds \subseteq vs /\ IsFiniteSet(vs) /\ vs \subseteq VarType
    BY <1>1 DEF Dense
  <2>2. IsFiniteSet(ds)
    BY <2>1, FS_Subset
  <2> QED
    BY <2>1, <2>2 DEF Dense
<1>7. Path(Frees(ds), ShapeIs(Own(vs), k, modes), ShapeIs(Own(us), k, modes), B)
  BY <1>5, <1>6, PathFrees
<1>8. Path(Pops(n), ShapeIs(Own(us), k, modes), ShapeIs(Own(us), m, modes), B)
  <2>1. k - n = m /\ n <= k
    BY <1>4, <1>3
  <2>2. \A w \in Own(us) : w.ofs <= k - n
    BY <2>1, <1>5
  <2>3. "over" \in modes => Own(us) = {}
    BY <1>1
  <2>4. Path(Pops(n), ShapeIs(Own(us), k, modes), ShapeIs(Own(us), k - n, modes), B)
    BY <2>1, <2>2, <2>3, <1>5, PathPops
  <2> QED
    BY <2>1, <2>4
<1>9. Frees(ds) \in Seq(Emitted) /\ Pops(n) \in Seq(Emitted)
  BY <1>6, FreesEmitted, PopsEmitted
<1>10. Path(Frees(ds) \o Pops(n), ShapeIs(Own(vs), k, modes), ShapeIs(Own(us), m, modes), B)
  BY <1>7, <1>8, <1>9, PathJoin
<1>11. Cardinality(ds) = n
  BY <1>3, <1>4
<1>12. Path(FreeVars(ds), ShapeOf(vs, modes), ShapeOf(us, modes), B)
  BY <1>10, <1>11, <1>2 DEF FreeVars, ShapeOf
<1>13. Own(ds) = {} => Own(us) = Own(vs)
  BY <1>5
<1>14. Own(ds) = {} => Path(Pops(Cardinality(ds)), ShapeOf(vs, modes), ShapeOf(us, modes), B)
  BY <1>8, <1>11, <1>13, <1>2 DEF ShapeOf
<1> QED
  BY <1>1, <1>12, <1>14

-----------------------------------------------------------------------------
(* Marks, jumps and labels.                                                *)
LEMMA PathThen ==
  ASSUME NEW c \in Seq(Emitted), NEW x \in Emitted, NEW s, NEW t \in Shape, NEW u \in Shape,
         NEW B, Path(c, s, t, B), Flows(x, t, u, B)
  PROVE  c \o <<x>> \in Seq(Emitted) /\ Path(c \o <<x>>, s, u, B)
<1>1. <<x>> \in Seq(Emitted)
  OBVIOUS
<1>2. Path(<<x>>, t, u, B)
  BY PathOne
<1>3. PICK d : d = <<x>>
  OBVIOUS
<1> QED
  BY <1>1, <1>2, <1>3, PathJoin, EmittedConcat

(* Behind a jump the shape is any.                                         *)
LEMMA PathJump ==
  ASSUME NEW c \in Seq(Emitted), NEW l \in Nat, NEW s, NEW t \in Shape, NEW u \in Shape,
         NEW B \in [Nat -> Shape], Path(c, s, t, B), Into(t, B[l])
  PROVE  c \o <<Jump(l)>> \in Seq(Emitted) /\ Path(c \o <<Jump(l)>>, s, u, B)
<1>1. PICK x \in Emitted : x = Jump(l) /\ x.op = "jump" /\ x.label = l
  BY JumpType
<1>2. Flows(x, t, u, B)
  BY <1>1 DEF Flows
<1> QED
  BY <1>1, <1>2, PathThen

LEMMA PathLabel ==
  ASSUME NEW c \in Seq(Emitted), NEW l \in Nat, NEW s, NEW t \in Shape, NEW u \in Shape,
         NEW B \in [Nat -> Shape], Path(c, s, t, B), Into(t, u), Into(B[l], u)
  PROVE  c \o <<Label(l)>> \in Seq(Emitted) /\ Path(c \o <<Label(l)>>, s, u, B)
<1>1. PICK x \in Emitted : x = Label(l) /\ x.op = "label" /\ x.label = l
  BY LabelType
<1>2. Flows(x, t, u, B)
  BY <1>1 DEF Flows
<1> QED
  BY <1>1, <1>2, PathThen

LEMMA FlowsMarked ==
  ASSUME NEW x \in Emitted, x.op = "mark", NEW own \in SUBSET Slot, NEW k \in Nat,
         NEW m \in {"ok", "failing"}, NEW B
  PROVE  Flows(x, ShapeIs(own, k, {m}), ShapeIs(own, k, {ModeOf(x)}), B)
<1>1. {m} \in SUBSET Modes /\ {ModeOf(x)} \in SUBSET Modes
  BY DEF Modes, ModeOf
<1>2. PICK s \in Shape, t \in Shape : s = ShapeIs(own, k, {m}) /\ t = ShapeIs(own, k, {ModeOf(x)})
  BY <1>1, ShapeTypes
<1>3. s.own = own /\ s.sp = k /\ s.modes = {m}
  BY <1>2 DEF ShapeIs
<1>4. x.by = "return" <=> x.n = 2
  BY LoopAssumption DEF Emitted, JumpOps
<1>5. FlowsMark(x, s, t)
  BY <1>2, <1>3, <1>4, IntoSame DEF FlowsMark
<1> QED
  BY <1>2, <1>5 DEF Flows

(* A statement behind a condition: the label behind it is reached as if it *)
(* were not there.                                                         *)
LEMMA PathGuard ==
  ASSUME NEW form \in Forms, form # "plain", labels \in Nat,
         NEW own \in SUBSET Slot, NEW k \in Nat, NEW B \in [Nat -> Shape],
         B[labels + 1] = ShapeIs(own, k, {"ok"})
  PROVE  \E m \in {"ok", "failing"} :
           /\ Guard(form) \in Seq(Emitted)
           /\ Path(Guard(form), ShapeIs(own, k, {"ok"}), ShapeIs(own, k, {m}), B)
<1>1. PICK l \in Nat : l = labels + 1
  OBVIOUS
<1>2. PICK s \in Shape, f \in Shape, e \in Shape :
        /\ s = ShapeIs(own, k, {"ok"}) /\ f = ShapeIs(own, k, {"failing"})
        /\ e = ShapeIs(own, k, {"ok", "failing"})
  BY ShapeTypes DEF Modes
<1>3. /\ s.own = own /\ s.sp = k /\ s.modes = {"ok"}
      /\ f.own = own /\ f.sp = k /\ f.modes = {"failing"}
      /\ e.own = own /\ e.sp = k /\ e.modes = {"ok", "failing"}
  BY <1>2 DEF ShapeIs
<1>4. B[l] = s
  BY <1>1, <1>2
<1>5. CASE form = "if"
  <2>1. PICK x : x = JumpFalse(l)
    OBVIOUS
  <2>2. x \in Emitted /\ x.op = "jumpFalse" /\ x.label = l
    BY <2>1 DEF JumpFalse, Emitted, JumpOps
  <2>3. Flows(x, s, s, B)
    BY <2>2, <1>4, IntoSame DEF Flows
  <2>4. Guard(form) = <<x>>
    BY <1>1, <1>5, <2>1 DEF Guard
  <2>5. Path(Guard(form), s, s, B) /\ Guard(form) \in Seq(Emitted)
    BY <2>2, <2>3, <2>4, PathOne
  <2> QED
    BY <2>5, <1>2
<1>6. CASE form # "if"
  <2>1. PICK x, y : x = JumpNoError(l) /\ y = CallFailing
    OBVIOUS
  <2>2. x \in Emitted /\ x.op = "jumpNoError" /\ x.label = l /\ y \in Emitted /\ y.op = "call"
    BY <2>1 DEF JumpNoError, CallFailing, Emitted, JumpOps
  <2>3. FlowsCall(s, e)
    BY <1>2, <1>3, IntoSame DEF FlowsCall
  <2>4. Flows(y, s, e, B)
    BY <2>2, <2>3 DEF Flows
  <2>5. Only(e, {"ok"}) = s /\ Only(e, Marked) = f
    <3>1. {"ok", "failing"} \cap {"ok"} = {"ok"} /\ {"ok", "failing"} \cap Marked = {"failing"}
      BY DEF Marked
    <3> QED
      BY <3>1, <1>2, <1>3 DEF Only
  <2>6. FlowsJumpNoError(x, e, f, B)
    BY <2>2, <2>5, <1>3, <1>4, IntoSame DEF FlowsJumpNoError
  <2>7. Flows(x, e, f, B)
    BY <2>2, <2>6 DEF Flows
  <2>8. Path(<<y>>, s, e, B) /\ <<y>> \in Seq(Emitted)
    BY <2>2, <2>4, PathOne
  <2>9. PICK c \in Seq(Emitted) : c = <<y>>
    BY <2>8
  <2>10. c \o <<x>> \in Seq(Emitted) /\ Path(c \o <<x>>, s, f, B)
    BY <2>2, <2>7, <2>8, <2>9, PathThen
  <2>11. c \o <<x>> = <<y, x>>
    <3>1. PICK d \in Seq(Emitted), g \in Seq(Emitted) : d = <<x>> /\ g = <<y, x>>
      BY <2>2, SeqOne, SeqTwo
    <3>2. PICK h \in Seq(Emitted) : h = c \o d
      BY <3>1, <2>9, EmittedConcat
    <3>3. Len(c) = 1 /\ c[1] = y /\ Len(d) = 1 /\ d[1] = x /\ Len(g) = 2 /\ g[1] = y /\ g[2] = x
      BY <2>9, <3>1
    <3>4. Len(h) = 2 /\ h[1] = y /\ h[2] = x
      <4>1. c \in Seq(Emitted) /\ d \in Seq(Emitted)
        BY <2>9, <3>1
      <4>2. /\ Len(h) = Len(c) + Len(d)
            /\ \A i \in 1 .. Len(c) + Len(d) : h[i] = IF i <= Len(c) THEN c[i] ELSE d[i - Len(c)]
        BY <4>1, <3>2, ConcatProperties
      <4> QED
        BY <4>2, <3>3
    <3>5. h = g
      BY <3>3, <3>4
    <3> QED
      BY <3>1, <3>2, <3>5
  <2>12. Guard(form) = <<y, x>>
    BY <1>1, <1>6, <2>1 DEF Guard
  <2> QED
    BY <2>10, <2>11, <2>12, <1>2
<1> QED
  BY <1>5, <1>6

LEMMA PathGuarded ==
  ASSUME NEW form \in Forms, NEW d \in Seq(Emitted), Guarded(form, d),
         labels \in Nat, code \in Seq(Emitted),
         NEW own \in SUBSET Slot, NEW k \in Nat, NEW B \in [Nat -> Shape], NEW t \in Shape,
         form # "plain" => B[labels + 1] = ShapeIs(own, k, {"ok"}) /\ t = ShapeIs(own, k, {"ok"}),
         \A m \in {"ok", "failing"} : Path(d, ShapeIs(own, k, {m}), t, B)
  PROVE  \E e \in Seq(Emitted) : code' = code \o e /\ Path(e, ShapeIs(own, k, {"ok"}), t, B)
<1>1. CASE form = "plain"
  <2>1. code' = code \o d
    BY <1>1 DEF Guarded
  <2> QED
    BY <2>1
<1>2. CASE form # "plain"
  <2>1. PICK m \in {"ok", "failing"} :
           /\ Guard(form) \in Seq(Emitted)
           /\ Path(Guard(form), ShapeIs(own, k, {"ok"}), ShapeIs(own, k, {m}), B)
    BY <1>2, PathGuard
  <2>2. PICK g \in Seq(Emitted), l \in Nat : g = Guard(form) /\ l = labels + 1
    BY <2>1
  <2>3. code' = code \o g \o d \o <<Label(l)>>
    BY <1>2, <2>2 DEF Guarded
  <2>4. Path(g \o d, ShapeIs(own, k, {"ok"}), t, B) /\ g \o d \in Seq(Emitted)
    BY <2>1, <2>2, PathJoin, EmittedConcat
  <2>5. PICK e1 \in Seq(Emitted) : e1 = g \o d
    BY <2>4
  <2>6. B[l] = t
    BY <1>2, <2>2
  <2>7. e1 \o <<Label(l)>> \in Seq(Emitted) /\ Path(e1 \o <<Label(l)>>, ShapeIs(own, k, {"ok"}), t, B)
    BY <2>4, <2>5, <2>6, IntoSame, PathLabel
  <2>8. PICK s \in Seq(Emitted) : s = <<Label(l)>>
    BY LabelType, SeqOne
  <2>9. code' = code \o (e1 \o s)
    <3>1. PICK c \in Seq(Emitted) : c = code
      OBVIOUS
    <3>2. c \o g \o d = c \o (g \o d)
      BY <3>1, <2>2, RegroupThree
    <3>3. c \o e1 \o s = c \o (e1 \o s)
      BY SMTT(30), <3>1, <2>5, <2>8, RegroupThree
    <3> QED
      BY <2>3, <2>5, <2>8, <3>1, <3>2, <3>3
  <2> QED
    BY <2>7, <2>8, <2>9
<1> QED
  BY <1>1, <1>2

(* A variable is pushed.                                                   *)
LEMMA OwnAdd ==
  ASSUME NEW vs, NEW kind \in {"int", "str", "iter"}, NEW level \in Nat, NEW ofs \in Nat
  PROVE  LET own == Own(vs \cup {Define(kind, level, ofs)})
         IN  /\ kind = "int" => own = Own(vs)
             /\ kind # "int" => own = Own(vs) \cup {[kind |-> kind, ofs |-> ofs]}
<1>1. PICK v : v = Define(kind, level, ofs)
  OBVIOUS
<1>2. v.kind = kind /\ SlotOf(v) = [kind |-> kind, ofs |-> ofs]
  BY <1>1 DEF Define, SlotOf
<1>3. CASE kind = "int"
  <2>1. Owning(vs \cup {v}) = Owning(vs)
    BY <1>2, <1>3 DEF Owning
  <2> QED
    BY <1>1, <1>3, <2>1 DEF Own
<1>4. CASE kind # "int"
  <2>1. Owning(vs \cup {v}) = Owning(vs) \cup {v}
    BY <1>2, <1>4 DEF Owning
  <2> QED
    BY <1>1, <1>2, <1>4, <2>1 DEF Own
<1> QED
  BY <1>3, <1>4

LEMMA PathNew ==
  ASSUME NEW vs, Dense(vs), NEW level \in Nat, \A v \in vs : v.level <= level,
         NEW kind \in {"int", "str", "iter"}, NEW ofs \in Nat, ofs = Cardinality(vs) + 1, NEW B,
         NEW new, new = vs \cup {Define(kind, level, ofs)},
         NEW x, x = [op |-> "new", kind |-> kind, ofs |-> ofs]
  PROVE  /\ Dense(new) /\ Cardinality(new) = ofs /\ x \in Emitted
         /\ Flows(x, ShapeOf(vs, {"ok"}), ShapeOf(new, {"ok"}), B)
<1>2. Dense(new) /\ Cardinality(new) = ofs
  BY DenseAdd
<1>3. PICK k \in Nat : k = Cardinality(vs) /\ ofs = k + 1
  BY OwnTypes
<1>4. PICK s \in Shape, t \in Shape : s = ShapeOf(vs, {"ok"}) /\ t = ShapeOf(new, {"ok"})
  BY <1>2, OwnTypes DEF Modes
<1>5. /\ s.own = Own(vs) /\ s.sp = k /\ s.modes = {"ok"}
      /\ t = ShapeIs(Own(new), ofs, {"ok"})
  BY <1>2, <1>3, <1>4 DEF ShapeOf, ShapeIs
<1>6. x.kind = kind /\ x.ofs = ofs /\ x.op = "new" /\ SlotOf(x) = [kind |-> kind, ofs |-> ofs]
  BY DEF SlotOf
<1>7. Own(new) = IF kind = "int" THEN s.own ELSE s.own \cup {SlotOf(x)}
  <2>1. Own(new) = IF kind = "int" THEN Own(vs) ELSE Own(vs) \cup {[kind |-> kind, ofs |-> ofs]}
    <3>1. /\ kind = "int" => Own(new) = Own(vs)
          /\ kind # "int" => Own(new) = Own(vs) \cup {[kind |-> kind, ofs |-> ofs]}
      BY OwnAdd
    <3> QED
      BY <3>1
  <2> QED
    BY <2>1, <1>5, <1>6
<1>8. t = ShapeIs(IF x.kind = "int" THEN s.own ELSE s.own \cup {SlotOf(x)}, s.sp + 1, s.modes)
  BY <1>3, <1>5, <1>6, <1>7
<1>9. FlowsNew(x, s, t)
  BY <1>3, <1>5, <1>6, <1>8, IntoSame DEF FlowsNew
<1>10. Flows(x, s, t, B)
  BY <1>6, <1>9 DEF Flows
<1>11. x \in Emitted
  BY <1>3 DEF Emitted
<1> QED
  BY <1>2, <1>4, <1>10, <1>11

-----------------------------------------------------------------------------
(* The parser's state.                                                     *)

(* An iterator belongs to an open for loop; the variables of the body of a *)
(* "loop" own nothing.                                                     *)
RulesOK ==
  /\ \A v \in varDefs : v.kind = "iter" =>
       \E i \in DOMAIN blocks : blocks[i].kind = "for" /\ v.level = blocks[i].level - 1
  /\ \A i \in DOMAIN blocks : blocks[i].kind = "loop" =>
       \A v \in varDefs : v.level = blocks[i].level => v.kind = "int"

(* The labels of a block: a return may leave a for loop if the return      *)
(* label frees what the loops around it own, which is nothing.             *)
CanReturn(b, vs, hasReturn) == hasReturn /\ Own(Under(vs, b.level - 1)) = Own(Under(vs, 2))
Ends(b, vs, hasReturn) == IF CanReturn(b, vs, hasReturn) THEN {"broken", "returning"} ELSE {"broken"}
BreakShape(b, vs) ==
  IF b.broken
  THEN ShapeIs(Own(Under(vs, b.level)), Cardinality(Under(vs, b.level + 1)), {"broken"})
  ELSE Dead
ReturnShape(vs, hasReturn) ==
  IF hasReturn THEN ShapeIs(Own(Under(vs, 2)), 0, {"over"}) ELSE Dead

LabelsFit(b, vs, hasReturn, B) ==
  /\ b.kind = "function" => B[ReturnLabel] = ReturnShape(vs, hasReturn)
  /\ b.kind = "if" => B[b.exit] = ShapeOf(Under(vs, b.level), {"ok"})
  /\ b.kind = "for" => /\ B[b.start] = ShapeOf(Under(vs, b.level), {"ok", "broken"})
                       /\ B[b.exit] = ShapeOf(Under(vs, b.level), Ends(b, vs, hasReturn))
  /\ b.kind = "loop" => /\ B[b.start] = ShapeOf(Under(vs, b.level), {"ok"})
                        /\ B[b.break] = BreakShape(b, vs)
                        /\ B[b.exit] = Dead

Start == ShapeIs({}, 0, {"ok"})
Annotated(B) ==
  /\ B \in [Nat -> Shape]
  /\ Path(code, Start, ShapeOf(varDefs, {"ok"}), B)
  /\ \A i \in DOMAIN blocks : LabelsFit(blocks[i], varDefs, early, B)

(* The labels that code jumps to are widened, the new ones are free.       *)
LEMMA Widening ==
  ASSUME SInv, NEW B \in [Nat -> Shape], NEW C \in [Nat -> Shape],
         \A l \in 0 .. labels : C[l] = B[l] \/ (l \in Unplaced /\ Into(B[l], C[l]))
  PROVE  Widened(code, B, C)
<1>1. /\ Placed(code) \cap Unplaced = {} /\ Placed(code) \subseteq 0 .. labels
      /\ Targets(code) \subseteq Placed(code) \cup Unplaced /\ labels \in Nat
  BY DEF SInv, CodeOK, ParserOK
<1>2. Unplaced \subseteq 0 .. labels
  BY UnplacedLabels
<1>3. \A l \in Placed(code) : C[l] = B[l]
  BY <1>1
<1>4. \A l \in Targets(code) : l \in 0 .. labels
  BY <1>1, <1>2
<1>5. \A l \in Targets(code) : Into(B[l], C[l])
  <2> TAKE l \in Targets(code)
  <2>1. l \in 0 .. labels /\ l \in Nat /\ B[l] \in Shape
    BY <1>1, <1>4
  <2> QED
    BY <2>1, IntoSame
<1> QED
  BY <1>3, <1>5 DEF Widened

LEMMA Continued ==
  ASSUME SInv, NEW B, Annotated(B), NEW C \in [Nat -> Shape], Widened(code, B, C),
         NEW d \in Seq(Emitted), code' = code \o d,
         Path(d, ShapeOf(varDefs, {"ok"}), ShapeOf(varDefs', {"ok"}), C),
         \A i \in DOMAIN blocks' : LabelsFit(blocks'[i], varDefs', early', C)
  PROVE  Annotated(C)'
<1>1. B \in [Nat -> Shape] /\ Path(code, Start, ShapeOf(varDefs, {"ok"}), B) /\ code \in Seq(Emitted)
  BY DEF Annotated, SInv, CodeOK
<1>2. PICK c, s, t : c \in Seq(Emitted) /\ c = code /\ s = ShapeOf(varDefs, {"ok"}) /\ t = ShapeOf(varDefs', {"ok"})
  BY <1>1
<1>3. Path(c \o d, Start, t, C)
  BY <1>1, <1>2, PathExtended
<1>4. PICK e, u : e = code' /\ u = ShapeOf(varDefs', {"ok"})
  OBVIOUS
<1>5. Path(e, Start, u, C)
  BY <1>2, <1>3, <1>4
<1>6. Path(code, Start, ShapeOf(varDefs, {"ok"}), C)'
  BY <1>4, <1>5
<1> QED
  BY <1>6 DEF Annotated

(* Whose variables stay keeps its labels.                                  *)
LEMMA LabelsKept ==
  ASSUME NEW b \in BlockType, NEW vs, NEW ws, NEW hasReturn \in BOOLEAN, NEW B, NEW C,
         LabelsFit(b, vs, hasReturn, B),
         \A L \in Nat : L <= b.level => Under(ws, L) = Under(vs, L), b.level >= 1,
         b.kind = "for" => b.level >= 2,
         hasReturn => Own(Under(ws, 2)) = Own(Under(vs, 2)),
         b.kind = "loop" /\ b.broken => Under(ws, b.level + 1) = Under(vs, b.level + 1),
         \A l \in LabelsOf(b) \cup ToPlace(b) : C[l] = B[l]
  PROVE  LabelsFit(b, ws, hasReturn, C)
<1>1. b.level \in Nat /\ Under(ws, b.level) = Under(vs, b.level) /\ b.kind \in {"function", "if", "for", "loop"}
  BY DEF BlockType
<1>2. CASE b.kind = "function"
  <2>1. ReturnLabel \in ToPlace(b)
    BY <1>2 DEF ToPlace
  <2>2. ReturnShape(ws, hasReturn) = ReturnShape(vs, hasReturn)
    BY DEF ReturnShape
  <2> QED
    BY <1>2, <2>1, <2>2 DEF LabelsFit
<1>3. CASE b.kind = "if"
  <2>1. b.exit \in ToPlace(b)
    BY <1>3 DEF ToPlace
  <2> QED
    BY <1>1, <1>3, <2>1 DEF LabelsFit
<1>4. CASE b.kind = "for"
  <2>1. b.exit \in LabelsOf(b) /\ b.start \in LabelsOf(b)
    BY <1>4 DEF LabelsOf
  <2>2. b.level - 1 \in Nat /\ b.level - 1 <= b.level
    BY <1>1, <1>4
  <2>3. Ends(b, ws, hasReturn) = Ends(b, vs, hasReturn)
    BY <2>2 DEF Ends, CanReturn
  <2> QED
    BY <1>1, <1>4, <2>1, <2>3 DEF LabelsFit
<1>5. CASE b.kind = "loop"
  <2>1. b.exit \in LabelsOf(b) /\ b.start \in LabelsOf(b) /\ b.break \in LabelsOf(b)
    BY <1>5 DEF LabelsOf
  <2>2. BreakShape(b, ws) = BreakShape(b, vs)
    BY <1>1, <1>5 DEF BreakShape
  <2> QED
    BY <1>1, <1>5, <2>1, <2>2 DEF LabelsFit
<1> QED
  BY <1>1, <1>2, <1>3, <1>4, <1>5

(* Facts about the open blocks that every step uses.                       *)
LEMMA BlockFacts ==
  ASSUME SInv, Parsing
  PROVE  /\ Len(blocks) \in DOMAIN blocks /\ Block \in BlockType
         /\ BlockLevel \in Nat /\ BlockLevel >= 1
         /\ \A i \in DOMAIN blocks :
              /\ blocks[i] \in BlockType /\ blocks[i].level >= 1 /\ blocks[i].level <= BlockLevel
              /\ blocks[i].level = BlockLevel <=> i = Len(blocks)
              /\ blocks[i].kind # "function" => blocks[i].level >= 2
              /\ blocks[i].kind = "for" => blocks[i].level >= 3
              /\ LabelsOf(blocks[i]) \cup ToPlace(blocks[i]) \subseteq 0 .. labels
         /\ labels \in Nat /\ code \in Seq(Emitted) /\ early \in BOOLEAN
         /\ Dense(varDefs) /\ sp = Cardinality(varDefs) /\ sp \in Nat
         /\ \A v \in varDefs : v.ofs # 0 /\ v.level \in Nat /\ v.level >= 1 /\ v.level <= BlockLevel
<1>1. /\ Len(blocks) \in Nat \ {0} /\ Len(blocks) \in DOMAIN blocks /\ Block \in BlockType
      /\ BlockLevel \in Nat /\ BlockLevel >= 1
      /\ \A i \in DOMAIN blocks : i \in 1 .. Len(blocks) /\ blocks[i] \in BlockType
      /\ \A i \in DOMAIN blocks : 1 <= blocks[i].level /\ blocks[i].level <= BlockLevel
  BY OpenBlocks
<1>2. \A i, j \in DOMAIN blocks : i < j => blocks[i].level < blocks[j].level
  BY DEF SInv, BlocksOK
<1>3. ASSUME NEW i \in DOMAIN blocks
      PROVE  blocks[i].level = BlockLevel <=> i = Len(blocks)
  <2>1. i = Len(blocks) => blocks[i].level = BlockLevel
    BY DEF BlockLevel, Block
  <2>2. i # Len(blocks) => blocks[i].level < BlockLevel
    <3>1. i # Len(blocks) => i < Len(blocks)
      BY <1>1
    <3> QED
      BY <3>1, <1>1, <1>2 DEF BlockLevel, Block
  <2>3. BlockLevel \in Nat /\ blocks[i].level \in Nat
    BY <1>1 DEF BlockType
  <2> QED
    BY <2>1, <2>2, <2>3
<1>4. ASSUME NEW i \in DOMAIN blocks, blocks[i].kind # "function"
      PROVE  blocks[i].level >= 2 /\ (blocks[i].kind = "for" => blocks[i].level >= 3)
  <2>1. i # 1 /\ i \in 1 .. Len(blocks) /\ blocks[i].level = blocks[i - 1].level + Wide(blocks[i])
    BY <1>1, <1>4 DEF SInv, BlocksOK
  <2>2. i - 1 \in 1 .. Len(blocks)
    BY <2>1, <1>1
  <2>3. i - 1 \in DOMAIN blocks
    BY <2>2 DEF SInv, BlocksOK
  <2>4. blocks[i - 1].level >= 1 /\ blocks[i - 1].level \in Nat
    BY <2>3, <1>1 DEF BlockType
  <2>5. Wide(blocks[i]) \in {1, 2} /\ (blocks[i].kind = "for" => Wide(blocks[i]) = 2)
    BY DEF Wide
  <2> QED
    BY <2>1, <2>4, <2>5
<1>5. labels \in Nat /\ code \in Seq(Emitted) /\ early \in BOOLEAN
  BY DEF SInv, ParserOK, CodeOK
<1>6. ASSUME NEW i \in DOMAIN blocks
      PROVE  LabelsOf(blocks[i]) \cup ToPlace(blocks[i]) \subseteq 0 .. labels
  <2>1. LabelsOf(blocks[i]) \subseteq 1 .. labels
    BY DEF SInv, BlockLabelsOK
  <2>2. ToPlace(blocks[i]) \subseteq Unplaced /\ Unplaced \subseteq 0 .. labels
    BY UnplacedLabels
  <2>3. 1 .. labels \subseteq 0 .. labels
    BY <1>5
  <2> QED
    BY <2>1, <2>2, <2>3
<1>7. Dense(varDefs) /\ sp = Cardinality(varDefs) /\ sp \in Nat
  BY DenseFacts DEF SInv, SlotsOK
<1>8. \A v \in varDefs : v.ofs # 0 /\ v.level \in Nat /\ v.level >= 1 /\ v.level <= BlockLevel
  <2>1. \A v \in varDefs : v.ofs # 0
    BY Levels DEF SInv
  <2>2. varDefs \subseteq VarType
    BY <1>7 DEF Dense
  <2> QED
    BY <2>1, <2>2 DEF SInv, SlotsOK, VarType
<1> QED
  BY <1>1, <1>3, <1>4, <1>5, <1>6, <1>7, <1>8

(* A block that is not concerned.                                          *)
LEMMA OthersKept ==
  ASSUME SInv, Parsing, NEW B, Annotated(B), NEW C, NEW ws, NEW i \in DOMAIN blocks,
         \A L \in Nat : L <= blocks[i].level => Under(ws, L) = Under(varDefs, L),
         early => Own(Under(ws, 2)) = Own(Under(varDefs, 2)),
         blocks[i].kind = "loop" /\ blocks[i].broken =>
           Under(ws, blocks[i].level + 1) = Under(varDefs, blocks[i].level + 1),
         \A l \in LabelsOf(blocks[i]) \cup ToPlace(blocks[i]) : C[l] = B[l]
  PROVE  LabelsFit(blocks[i], ws, early, C)
<1>1. PICK b \in BlockType : b = blocks[i]
  BY BlockFacts
<1>2. LabelsFit(b, varDefs, early, B) /\ early \in BOOLEAN
  BY <1>1, BlockFacts DEF Annotated
<1>3. b.level >= 1 /\ (b.kind = "for" => b.level >= 2) /\ b.level \in Nat
  BY <1>1, BlockFacts DEF BlockType
<1> QED
  BY <1>1, <1>2, <1>3, LabelsKept

(* A variable's level is that of the current block.                        *)
LEMMA NewVarRuled ==
  ASSUME SInv, Ruled, RulesOK, NEW B, Annotated(B), NEW kind \in Kinds, NewVar(kind)
  PROVE  RulesOK' /\ Annotated(B)'
<1>1. Parsing /\ MayDeclare(kind) /\ code' = Append(code, New(kind)) /\ blocks' = blocks /\ early' = early
      /\ varDefs' = varDefs \cup {Define(kind, BlockLevel, sp + 1)}
  BY DEF NewVar, Statement
<1>2. PICK k \in Nat, level \in Nat : k = sp /\ level = BlockLevel
  BY <1>1, BlockFacts
<1>3. kind \in {"int", "str"}
  BY LoopAssumption
<1>4. PICK v : v = Define(kind, level, k + 1)
  OBVIOUS
<1>5. v.kind = kind /\ v.level = level /\ varDefs' = varDefs \cup {v}
  BY <1>1, <1>2, <1>4 DEF Define
<1>6. /\ ~(Block.kind = "loop" /\ Block.broken) /\ (kind = "str" => Block.kind # "loop")
      /\ early => kind # "str"
  BY <1>1 DEF MayDeclare, May, Ruled
<1>7. \A i \in DOMAIN blocks : blocks[i].level = level => blocks[i] = Block
  BY <1>1, <1>2, BlockFacts DEF Block
<1>8. RulesOK'
  <2>1. \A w \in varDefs' : w.kind = "iter" =>
          \E i \in DOMAIN blocks : blocks[i].kind = "for" /\ w.level = blocks[i].level - 1
    BY <1>3, <1>5 DEF RulesOK
  <2>2. \A i \in DOMAIN blocks : blocks[i].kind = "loop" =>
          \A w \in varDefs' : w.level = blocks[i].level => w.kind = "int"
    BY <1>3, <1>5, <1>6, <1>7 DEF RulesOK
  <2> QED
    BY <2>1, <2>2, <1>1 DEF RulesOK
<1>9. \A L \in Nat : L <= level => Under(varDefs', L) = Under(varDefs, L)
  BY <1>5 DEF Under
<1>10. early => Own(Under(varDefs', 2)) = Own(Under(varDefs, 2))
  <2>1. CASE level >= 2
    BY <2>1, <1>9
  <2>2. CASE ~(level >= 2) /\ early
    <3>1. kind = "int"
      BY <2>2, <1>3, <1>6
    <3>2. Under(varDefs', 2) = Under(varDefs, 2) \cup {v}
      BY <2>2, <1>5 DEF Under
    <3>3. Own(Under(varDefs, 2) \cup {v}) = Own(Under(varDefs, 2))
      <4>1. PICK us, m : us = Under(varDefs, 2) /\ m = k + 1 /\ m \in Nat
        OBVIOUS
      <4>2. v = Define(kind, level, m) /\ kind \in {"int", "str", "iter"}
        BY <4>1, <1>4, <3>1
      <4>3. Own(us \cup {v}) = Own(us)
        BY <4>1, <4>2, <3>1, <1>2, OwnAdd
      <4> QED
        BY <4>1, <4>3
    <3> QED
      BY <3>2, <3>3
  <2> QED
    BY <2>1, <2>2
<1>11. ASSUME NEW i \in DOMAIN blocks
       PROVE  LabelsFit(blocks[i], varDefs', early, B)
  <2>1. PICK ws : ws = varDefs'
    OBVIOUS
  <2>2. blocks[i].level \in Nat /\ blocks[i].level <= level
    BY <1>1, <1>2, BlockFacts DEF BlockType
  <2>3. \A L \in Nat : L <= blocks[i].level => Under(ws, L) = Under(varDefs, L)
    BY <2>1, <2>2, <1>9
  <2>4. blocks[i].kind = "loop" /\ blocks[i].broken => blocks[i].level + 1 <= level
    BY <2>2, <1>6, <1>7
  <2>5. blocks[i].kind = "loop" /\ blocks[i].broken =>
           Under(ws, blocks[i].level + 1) = Under(varDefs, blocks[i].level + 1)
    BY <2>1, <2>2, <2>4, <1>9
  <2> QED
    BY <2>1, <2>3, <2>5, <1>1, <1>10, OthersKept
<1>12. Widened(code, B, B) /\ B \in [Nat -> Shape]
  BY Widening DEF Annotated
<1>13. PICK x : x = [op |-> "new", kind |-> kind, ofs |-> k + 1]
  OBVIOUS
<1>14. /\ x \in Emitted /\ Flows(x, ShapeOf(varDefs, {"ok"}), ShapeOf(varDefs', {"ok"}), B)
       /\ ShapeOf(varDefs, {"ok"}) \in Shape /\ ShapeOf(varDefs', {"ok"}) \in Shape
  <2>1. PICK vs, ws, n : vs = varDefs /\ ws = varDefs' /\ n = k + 1 /\ n \in Nat
    OBVIOUS
  <2>2. Dense(vs) /\ (\A w \in vs : w.level <= level) /\ n = Cardinality(vs) + 1
    BY <2>1, <1>1, <1>2, BlockFacts
  <2>3. /\ Dense(vs \cup {Define(kind, level, n)}) /\ x \in Emitted
        /\ Flows(x, ShapeOf(vs, {"ok"}), ShapeOf(vs \cup {Define(kind, level, n)}, {"ok"}), B)
    BY <2>1, <2>2, <1>3, <1>13, PathNew
  <2>4. ws = vs \cup {Define(kind, level, n)}
    BY <2>1, <1>4, <1>5
  <2>5. Dense(ws) /\ Flows(x, ShapeOf(vs, {"ok"}), ShapeOf(ws, {"ok"}), B)
    BY <2>3, <2>4
  <2>6. ShapeOf(vs, {"ok"}) \in Shape /\ ShapeOf(ws, {"ok"}) \in Shape
    BY <2>2, <2>5, OwnTypes DEF Modes
  <2> QED
    BY <2>1, <2>3, <2>5, <2>6
<1>15. PICK d \in Seq(Emitted) : d = <<x>>
  BY <1>14, SeqOne
<1>16. Path(d, ShapeOf(varDefs, {"ok"}), ShapeOf(varDefs', {"ok"}), B)
  BY <1>14, <1>15, PathOne
<1>17. code' = code \o d
  <2>1. New(kind) = x
    BY <1>2, <1>13 DEF New
  <2> QED
    BY <2>1, <1>1, <1>15, <1>14, BlockFacts
<1>18. \A i \in DOMAIN blocks' : LabelsFit(blocks'[i], varDefs', early', B)
  BY <1>1, <1>11
<1> QED
  BY <1>8, <1>12, <1>16, <1>17, <1>18, Continued

LEMMA JumpFalseType ==
  \A l \in Nat : JumpFalse(l) \in Emitted /\ JumpFalse(l).op = "jumpFalse" /\ JumpFalse(l).label = l
BY DEF JumpFalse, Emitted, JumpOps

(* A block is opened, with labels of its own.                              *)
LEMMA AppendedBlock ==
  ASSUME SInv, NEW b, blocks' = Append(blocks, b)
  PROVE  /\ \A i \in DOMAIN blocks : i \in DOMAIN blocks' /\ blocks'[i] = blocks[i]
         /\ Len(blocks) + 1 \in DOMAIN blocks' /\ blocks'[Len(blocks) + 1] = b
         /\ \A i \in DOMAIN blocks' : blocks'[i] = b \/ (i \in DOMAIN blocks /\ blocks'[i] = blocks[i])
<1>1. PICK n \in Nat : n = Len(blocks) /\ DOMAIN blocks = 1 .. n
  BY DEF SInv, BlocksOK
<1>2. DOMAIN blocks' = 1 .. n + 1
  BY <1>1 DEF SInv, BlocksOK
<1>3. \A i \in 1 .. n : blocks'[i] = blocks[i]
  BY <1>1 DEF SInv, BlocksOK
<1>4. blocks'[n + 1] = b
  BY <1>1 DEF SInv, BlocksOK
<1>5. \A i \in 1 .. n + 1 : i = n + 1 \/ i \in 1 .. n
  BY <1>1
<1>6. n + 1 \in 1 .. n + 1 /\ \A i \in 1 .. n : i \in 1 .. n + 1
  BY <1>1
<1> QED
  BY <1>1, <1>2, <1>3, <1>4, <1>5, <1>6

LEMMA OpenRuled ==
  ASSUME SInv, Parsing, NEW B, Annotated(B), NEW C \in [Nat -> Shape],
         NEW b, blocks' = Append(blocks, b), early' = early,
         \A L \in Nat : L <= BlockLevel + 1 => Under(varDefs', L) = Under(varDefs, L),
         \A l \in 0 .. labels : C[l] = B[l], LabelsFit(b, varDefs', early, C),
         NEW d \in Seq(Emitted), code' = code \o d,
         Path(d, ShapeOf(varDefs, {"ok"}), ShapeOf(varDefs', {"ok"}), C)
  PROVE  Annotated(C)'
<1>1. ASSUME NEW i \in DOMAIN blocks
      PROVE  LabelsFit(blocks[i], varDefs', early, C)
  <2>1. PICK ws : ws = varDefs'
    OBVIOUS
  <2>2. blocks[i].level \in Nat /\ blocks[i].level <= BlockLevel /\ BlockLevel \in Nat /\ BlockLevel >= 1
    BY BlockFacts DEF BlockType
  <2>3. /\ \A L \in Nat : L <= blocks[i].level => Under(ws, L) = Under(varDefs, L)
        /\ Under(ws, blocks[i].level + 1) = Under(varDefs, blocks[i].level + 1)
        /\ Under(ws, 2) = Under(varDefs, 2)
    BY <2>1, <2>2
  <2>4. \A l \in LabelsOf(blocks[i]) \cup ToPlace(blocks[i]) : C[l] = B[l]
    BY BlockFacts
  <2> QED
    BY <2>1, <2>3, <2>4, OthersKept
<1>2. \A i \in DOMAIN blocks' : LabelsFit(blocks'[i], varDefs', early', C)
  BY <1>1, AppendedBlock
<1>3. Widened(code, B, C)
  BY Widening DEF Annotated
<1> QED
  BY <1>2, <1>3, Continued

LEMMA OpenIfRuled ==
  ASSUME SInv, RulesOK, NEW B, Annotated(B), OpenIf
  PROVE  RulesOK' /\ \E C : Annotated(C)'
<1>1. Parsing /\ varDefs' = varDefs /\ early' = early /\ code' = Append(code, JumpFalse(labels + 1))
  BY DEF OpenIf, Statement
<1>2. PICK b : /\ b = [kind |-> "if", level |-> BlockLevel + 1, start |-> 0, exit |-> labels + 1,
                       break |-> 0, broken |-> FALSE]
               /\ blocks' = Append(blocks, b)
  BY DEF OpenIf
<1>3. PICK l \in Nat : l = labels + 1
  BY <1>1, BlockFacts
<1>4. b.kind = "if" /\ b.level = BlockLevel + 1 /\ b.exit = l
  BY <1>2, <1>3
<1>5. RulesOK'
  BY <1>1, <1>2, <1>4, AppendedBlock DEF RulesOK
<1>6. PICK s \in Shape : s = ShapeOf(varDefs, {"ok"})
  BY <1>1, BlockFacts, OwnTypes DEF Modes
<1>7. B \in [Nat -> Shape]
  BY DEF Annotated
<1>8. PICK C \in [Nat -> Shape] : C = [B EXCEPT ![l] = s]
  BY <1>7
<1>9. C[l] = s /\ \A j \in 0 .. labels : C[j] = B[j]
  BY <1>1, <1>3, <1>7, <1>8, BlockFacts
<1>10. PICK x \in Emitted : x = JumpFalse(l) /\ x.op = "jumpFalse" /\ x.label = l
  BY JumpFalseType
<1>11. Flows(x, s, s, C)
  BY <1>9, <1>10, IntoSame DEF Flows
<1>12. PICK d \in Seq(Emitted) : d = <<x>>
  BY SeqOne
<1>13. Path(d, s, s, C)
  BY <1>11, <1>12, PathOne
<1>14. code' = code \o d
  BY <1>1, <1>3, <1>10, <1>12, BlockFacts
<1>15. Under(varDefs, b.level) = varDefs
  BY <1>1, <1>4, BlockFacts DEF Under
<1>16. LabelsFit(b, varDefs, early, C)
  BY <1>4, <1>6, <1>9, <1>15 DEF LabelsFit
<1>17. Annotated(C)'
  BY <1>1, <1>2, <1>6, <1>9, <1>13, <1>14, <1>16, OpenRuled
<1> QED
  BY <1>5, <1>17

LEMMA OpenLoopRuled ==
  ASSUME SInv, RulesOK, NEW B, Annotated(B), OpenLoop
  PROVE  RulesOK' /\ \E C : Annotated(C)'
<1>1. Parsing /\ varDefs' = varDefs /\ early' = early /\ code' = Append(code, Label(labels + 1))
  BY DEF OpenLoop, Statement
<1>2. PICK b : /\ b = [kind |-> "loop", level |-> BlockLevel + 1, start |-> labels + 1,
                       exit |-> labels + 2, break |-> labels + 3, broken |-> FALSE]
               /\ blocks' = Append(blocks, b)
  BY DEF OpenLoop
<1>3. PICK l \in Nat : l = labels + 1
  BY <1>1, BlockFacts
<1>4. /\ b.kind = "loop" /\ b.level = BlockLevel + 1 /\ b.start = l /\ b.exit = l + 1 /\ b.break = l + 2
      /\ ~b.broken
  BY SMTT(30), <1>2, <1>3, <1>1, BlockFacts
<1>5. RulesOK'
  <2>1. \A v \in varDefs : v.level # b.level
    BY <1>1, <1>4, BlockFacts
  <2>2. /\ \A i \in DOMAIN blocks : i \in DOMAIN blocks' /\ blocks'[i] = blocks[i]
        /\ \A i \in DOMAIN blocks' : blocks'[i] = b \/ (i \in DOMAIN blocks /\ blocks'[i] = blocks[i])
    BY <1>2, AppendedBlock
  <2>3. ASSUME NEW v \in varDefs, v.kind = "iter"
        PROVE  \E i \in DOMAIN blocks' : blocks'[i].kind = "for" /\ v.level = blocks'[i].level - 1
    <3>1. PICK i \in DOMAIN blocks : blocks[i].kind = "for" /\ v.level = blocks[i].level - 1
      BY <2>3 DEF RulesOK
    <3> QED
      BY <3>1, <2>2
  <2>4. ASSUME NEW i \in DOMAIN blocks', blocks'[i].kind = "loop",
               NEW v \in varDefs, v.level = blocks'[i].level
        PROVE  v.kind = "int"
    <3>1. CASE blocks'[i] = b
      BY <3>1, <2>4, <2>1
    <3>2. CASE i \in DOMAIN blocks /\ blocks'[i] = blocks[i]
      BY <3>2, <2>4 DEF RulesOK
    <3> QED
      BY <3>1, <3>2, <2>2
  <2> QED
    BY <1>1, <2>3, <2>4 DEF RulesOK
<1>6. PICK s \in Shape : s = ShapeOf(varDefs, {"ok"})
  BY <1>1, BlockFacts, OwnTypes DEF Modes
<1>7. B \in [Nat -> Shape]
  BY DEF Annotated
<1>8. PICK C \in [Nat -> Shape] : C = [B EXCEPT ![l] = s, ![l + 1] = Dead, ![l + 2] = Dead]
  BY <1>7, ShapeTypes
<1>9. C[l] = s /\ C[l + 1] = Dead /\ C[l + 2] = Dead /\ \A j \in 0 .. labels : C[j] = B[j]
  <2>1. labels \in Nat
    BY <1>1, BlockFacts
  <2>2. \A j \in 0 .. labels : j \in Nat /\ j # l /\ j # l + 1 /\ j # l + 2
    BY <2>1, <1>3
  <2>3. l + 1 \in Nat /\ l + 2 \in Nat /\ l # l + 1 /\ l # l + 2 /\ l + 1 # l + 2
    BY <1>3
  <2> QED
    BY <2>2, <2>3, <1>7, <1>8
<1>10. PICK x \in Emitted : x = Label(l) /\ x.op = "label" /\ x.label = l
  BY LabelType
<1>11. Flows(x, s, s, C)
  BY <1>9, <1>10, IntoSame DEF Flows
<1>12. PICK d \in Seq(Emitted) : d = <<x>>
  BY SeqOne
<1>13. Path(d, s, s, C)
  BY <1>11, <1>12, PathOne
<1>14. code' = code \o d
  BY <1>1, <1>3, <1>10, <1>12, BlockFacts
<1>15. Under(varDefs, b.level) = varDefs
  BY <1>1, <1>4, BlockFacts DEF Under
<1>16. LabelsFit(b, varDefs, early, C)
  BY <1>4, <1>6, <1>9, <1>15 DEF LabelsFit, BreakShape
<1>17. Annotated(C)'
  BY <1>1, <1>2, <1>6, <1>9, <1>13, <1>14, <1>16, OpenRuled
<1> QED
  BY <1>5, <1>17

LEMMA PathFive ==
  ASSUME NEW x1 \in Emitted, NEW x2 \in Emitted, NEW x3 \in Emitted, NEW x4 \in Emitted, NEW x5 \in Emitted,
         NEW s0 \in Shape, NEW s1 \in Shape, NEW s2 \in Shape, NEW s3 \in Shape, NEW s4 \in Shape,
         NEW s5 \in Shape, NEW B,
         Flows(x1, s0, s1, B), Flows(x2, s1, s2, B), Flows(x3, s2, s3, B), Flows(x4, s3, s4, B),
         Flows(x5, s4, s5, B)
  PROVE  <<x1, x2, x3, x4, x5>> \in Seq(Emitted) /\ Path(<<x1, x2, x3, x4, x5>>, s0, s5, B)
<1>1. PICK c : c = <<x1, x2, x3, x4, x5>>
  OBVIOUS
<1>2. c \in Seq(Emitted) /\ Len(c) = 5 /\ c[1] = x1 /\ c[2] = x2 /\ c[3] = x3 /\ c[4] = x4 /\ c[5] = x5
  BY <1>1
<1> DEFINE A == [i \in 1 .. 6 |-> CASE i = 1 -> s0 [] i = 2 -> s1 [] i = 3 -> s2
                                    [] i = 4 -> s3 [] i = 5 -> s4 [] i = 6 -> s5]
<1>3. A[1] = s0 /\ A[2] = s1 /\ A[3] = s2 /\ A[4] = s3 /\ A[5] = s4 /\ A[6] = s5
  OBVIOUS
<1>4. \A i \in 1 .. 6 : i = 1 \/ i = 2 \/ i = 3 \/ i = 4 \/ i = 5 \/ i = 6
  OBVIOUS
<1>5. DOMAIN A = 1 .. 6 /\ A = [i \in 1 .. 6 |-> A[i]]
  OBVIOUS
<1> HIDE DEF A
<1>6. A \in [1 .. 6 -> Shape]
  BY <1>3, <1>4, <1>5
<1>7. \A i \in 1 .. 5 : i = 1 \/ i = 2 \/ i = 3 \/ i = 4 \/ i = 5
  OBVIOUS
<1>8. \A i \in 1 .. 5 : Flows(c[i], A[i], A[i + 1], B)
  BY <1>2, <1>3, <1>7
<1>9. IsPath(A, c, s0, s5, B)
  BY <1>2, <1>3, <1>6, <1>8 DEF IsPath
<1> QED
  BY <1>1, <1>2, <1>9 DEF Path

(* The head of a for loop.                                                 *)
LEMMA PathHead ==
  ASSUME NEW vs, Dense(vs), NEW level \in Nat, \A v \in vs : v.level <= level,
         NEW k \in Nat, k = Cardinality(vs), NEW l \in Nat, NEW B \in [Nat -> Shape],
         NEW ws, ws = vs \cup {Define("int", level, k + 1), Define("iter", level, k + 2)},
         B[l] = ShapeOf(ws, {"ok", "broken"}),
         NEW ends \in SUBSET Modes, "broken" \in ends, B[l + 1] = ShapeOf(ws, ends),
         NEW d, d = <<[op |-> "new", kind |-> "int", ofs |-> k + 1],
                      [op |-> "new", kind |-> "iter", ofs |-> k + 2],
                      Label(l), CallNext, JumpError(l + 1)>>
  PROVE  d \in Seq(Emitted) /\ Path(d, ShapeOf(vs, {"ok"}), ShapeOf(ws, {"ok"}), B) /\ Dense(ws)
<1>1. PICK m, n : m = k + 1 /\ n = k + 2 /\ m \in Nat /\ n \in Nat /\ n = m + 1
  OBVIOUS
<1>2. PICK us : us = vs \cup {Define("int", level, m)}
  OBVIOUS
<1>3. ws = us \cup {Define("iter", level, n)}
  BY <1>1, <1>2
<1>4. PICK x1, x2 : /\ x1 = [op |-> "new", kind |-> "int", ofs |-> m]
                    /\ x2 = [op |-> "new", kind |-> "iter", ofs |-> n]
  OBVIOUS
<1>5. /\ Dense(us) /\ Cardinality(us) = m /\ x1 \in Emitted
      /\ Flows(x1, ShapeOf(vs, {"ok"}), ShapeOf(us, {"ok"}), B)
  <2>1. PICK kind \in {"int", "str", "iter"} : kind = "int"
    OBVIOUS
  <2>2. us = vs \cup {Define(kind, level, m)} /\ x1 = [op |-> "new", kind |-> kind, ofs |-> m]
        /\ m = Cardinality(vs) + 1 /\ m \in Nat
    BY <2>1, <1>1, <1>2, <1>4
  <2> QED
    BY <2>1, <2>2, PathNew
<1>6. \A v \in us : v.level <= level
  BY <1>2 DEF Define
<1>7. /\ Dense(ws) /\ Cardinality(ws) = n /\ x2 \in Emitted
      /\ Flows(x2, ShapeOf(us, {"ok"}), ShapeOf(ws, {"ok"}), B)
  <2>1. PICK kind \in {"int", "str", "iter"} : kind = "iter"
    OBVIOUS
  <2>2. ws = us \cup {Define(kind, level, n)} /\ x2 = [op |-> "new", kind |-> kind, ofs |-> n]
        /\ n = Cardinality(us) + 1 /\ n \in Nat
    BY <2>1, <1>1, <1>3, <1>4, <1>5
  <2>3. Dense(us) /\ Cardinality(us) = m /\ \A v \in us : v.level <= level
    BY <1>5, <1>6
  <2>4. n = Cardinality(us) + 1
    BY <1>1, <2>3
  <2>5. /\ Dense(ws) /\ Cardinality(ws) = n /\ x2 \in Emitted
        /\ Flows(x2, ShapeOf(us, {"ok"}), ShapeOf(ws, {"ok"}), B)
    BY <2>1, <2>2, <2>3, <2>4, PathNew
  <2> QED
    BY <2>5
<1>8. PICK s0 \in Shape, s1 \in Shape, s2 \in Shape, s3 \in Shape :
        /\ s0 = ShapeOf(vs, {"ok"}) /\ s1 = ShapeOf(us, {"ok"}) /\ s2 = ShapeOf(ws, {"ok"})
        /\ s3 = ShapeOf(ws, {"ok", "broken"})
  BY <1>5, <1>7, OwnTypes DEF Modes
<1>9. /\ s2.own = Own(ws) /\ s2.sp = n /\ s2.modes = {"ok"}
      /\ s3.own = Own(ws) /\ s3.sp = n /\ s3.modes = {"ok", "broken"}
  BY <1>7, <1>8 DEF ShapeOf, ShapeIs
<1>10. PICK s4 \in Shape : s4 = B[l + 1] /\ s4 = ShapeOf(ws, ends)
  BY <1>7, OwnTypes
<1>11. s4.own = Own(ws) /\ s4.sp = n /\ s4.modes = ends
  BY <1>7, <1>10 DEF ShapeOf, ShapeIs
<1>12. PICK x3 \in Emitted : x3 = Label(l) /\ x3.op = "label" /\ x3.label = l
  BY LabelType
<1>13. Into(s2, s3) /\ Into(s3, s3) /\ Into(s2, s2)
  BY <1>9, IntoSame DEF Into, Becomes
<1>14. Flows(x3, s2, s3, B)
  BY <1>8, <1>12, <1>13 DEF Flows
<1>15. PICK x4, x5 : x4 = CallNext /\ x5 = JumpError(l + 1)
  OBVIOUS
<1>16. x4 \in Emitted /\ x4.op = "next" /\ x5 \in Emitted /\ x5.op = "jumpError" /\ x5.label = l + 1
  BY <1>15 DEF CallNext, JumpError, Emitted, JumpOps
<1>17. Flows(x4, s3, s3, B)
  <2>1. \E w \in Own(ws) : w.kind = "iter" /\ w.ofs = n
    <3>1. PICK w : w = Define("iter", level, n)
      OBVIOUS
    <3>2. w \in Owning(ws) /\ SlotOf(w).kind = "iter" /\ SlotOf(w).ofs = n
      BY <3>1, <1>3 DEF Define, Owning, SlotOf
    <3> QED
      BY <3>2 DEF Own
  <2>2. s3.modes \cup {"broken"} = {"ok", "broken"}
    BY <1>9
  <2>3. ShapeIs(s3.own, s3.sp, s3.modes \cup {"broken"}) = s3
    BY <2>2, <1>7, <1>8, <1>9 DEF ShapeOf
  <2>4. FlowsNext(s3, s3)
    BY <2>1, <2>3, <1>9, <1>13 DEF FlowsNext
  <2> QED
    BY <2>4, <1>16 DEF Flows
<1>18. Flows(x5, s3, s2, B)
  <2>1. Only(s3, {"ok"}) = s2
    <3>1. s3.modes \cap {"ok"} = {"ok"}
      BY <1>9
    <3> QED
      BY <3>1, <1>7, <1>8, <1>9 DEF Only, ShapeOf
  <2>2. Into(Only(s3, Marked), s4)
    <3>1. PICK s : s = Only(s3, Marked)
      OBVIOUS
    <3>2. s.own = Own(ws) /\ s.sp = n /\ s.modes = {"broken"}
      BY <3>1, <1>9 DEF Only, ShapeIs, Marked
    <3>3. Into(s, s4)
      BY <3>2, <1>11 DEF Into, Becomes
    <3> QED
      BY <3>1, <3>3
  <2>3. FlowsJumpError(x5, s3, s2, B)
    BY <2>1, <2>2, <1>9, <1>10, <1>13, <1>16 DEF FlowsJumpError
  <2> QED
    BY <2>3, <1>16 DEF Flows
<1>19. PICK c : c = <<x1, x2, x3, x4, x5>>
  OBVIOUS
<1>20. c \in Seq(Emitted) /\ Path(c, s0, s2, B)
  BY <1>5, <1>7, <1>8, <1>12, <1>14, <1>16, <1>17, <1>18, <1>19, PathFive
<1>21. c = d
  BY <1>1, <1>4, <1>12, <1>15, <1>19
<1> QED
  BY <1>7, <1>8, <1>20, <1>21

LEMMA OpenForRuled ==
  ASSUME SInv, RulesOK, NEW B, Annotated(B), OpenFor
  PROVE  RulesOK' /\ \E C : Annotated(C)'
<1>1. Parsing /\ early' = early
  BY DEF OpenFor, Statement
<1>2. PICK k \in Nat, level \in Nat, l \in Nat : k = sp /\ level = BlockLevel + 1 /\ l = labels + 1
  <2>1. sp \in Nat /\ BlockLevel + 1 \in Nat /\ labels + 1 \in Nat
    BY <1>1, BlockFacts
  <2> QED
    BY <2>1
<1>3. PICK b : /\ b = [kind |-> "for", level |-> BlockLevel + 2, start |-> labels + 1,
                       exit |-> labels + 2, break |-> labels + 1, broken |-> FALSE]
               /\ blocks' = Append(blocks, b)
  BY DEF OpenFor
<1>4. b.kind = "for" /\ b.level = level + 1 /\ b.start = l /\ b.exit = l + 1
  BY <1>1, <1>2, <1>3, BlockFacts
<1>5. PICK ws : ws = varDefs'
  OBVIOUS
<1>6. ws = varDefs \cup {Define("int", level, k + 1), Define("iter", level, k + 2)}
  BY <1>2, <1>5 DEF OpenFor
<1>7. \A v \in ws \ varDefs : v.level = level
  BY <1>6 DEF Define
<1>8. \A v \in varDefs : v.level < level /\ v.level \in Nat
  BY <1>1, <1>2, BlockFacts
<1>9. RulesOK'
  <2>1. \A v \in ws : v.kind = "iter" =>
          \E i \in DOMAIN blocks' : blocks'[i].kind = "for" /\ v.level = blocks'[i].level - 1
    <3> SUFFICES ASSUME NEW v \in ws, v.kind = "iter"
                 PROVE  \E i \in DOMAIN blocks' : blocks'[i].kind = "for" /\ v.level = blocks'[i].level - 1
      OBVIOUS
    <3>1. CASE v \in varDefs
      <4>1. PICK i \in DOMAIN blocks : blocks[i].kind = "for" /\ v.level = blocks[i].level - 1
        BY <3>1 DEF RulesOK
      <4> QED
        BY <4>1, <1>3, AppendedBlock
    <3>2. CASE v \notin varDefs
      <4>1. v.level = b.level - 1
        BY <3>2, <1>4, <1>7
      <4> QED
        BY SMTT(30), <4>1, <1>3, <1>4, AppendedBlock
    <3> QED
      BY <3>1, <3>2
  <2>2. \A i \in DOMAIN blocks' : blocks'[i].kind = "loop" =>
          \A v \in ws : v.level = blocks'[i].level => v.kind = "int"
    <3> SUFFICES ASSUME NEW i \in DOMAIN blocks', blocks'[i].kind = "loop", NEW v \in ws,
                        v.level = blocks'[i].level
                 PROVE  v.kind = "int"
      OBVIOUS
    <3>1. i \in DOMAIN blocks /\ blocks'[i] = blocks[i]
      BY <1>3, <1>4, AppendedBlock
    <3>2. blocks[i].level < level /\ blocks[i].level \in Nat
      <4>1. blocks[i].level \in Nat /\ blocks[i].level <= BlockLevel /\ BlockLevel \in Nat
        BY <3>1, <1>1, BlockFacts DEF BlockType
      <4> QED
        BY <4>1, <1>2
    <3>3. v \in varDefs
      BY <3>1, <3>2, <1>7
    <3> QED
      BY <3>1, <3>3 DEF RulesOK
  <2> QED
    BY <2>1, <2>2, <1>5 DEF RulesOK
<1>10. B \in [Nat -> Shape]
  BY DEF Annotated
<1>11. /\ Dense(ws) /\ \A v \in varDefs : v.level <= level
       /\ Dense(varDefs) /\ k = Cardinality(varDefs)
  <2>1. Dense(varDefs) /\ k = Cardinality(varDefs) /\ \A v \in varDefs : v.level <= level
    BY <1>1, <1>2, <1>8, BlockFacts
  <2>2. PICK m, n, ms : /\ m \in Nat /\ n \in Nat /\ ms = varDefs \cup {Define("int", level, m)}
                          /\ m = k + 1 /\ n = k + 2 /\ n = m + 1
    <3>1. k + 1 \in Nat /\ k + 2 \in Nat /\ k + 2 = k + 1 + 1
      OBVIOUS
    <3> QED
      BY <3>1
  <2>3. Dense(ms) /\ Cardinality(ms) = m
    BY <2>1, <2>2, DenseAdd
  <2>4. \A v \in ms : v.level <= level
    BY <2>1, <2>2 DEF Define
  <2>5. ws = ms \cup {Define("iter", level, n)}
    BY <2>2, <1>6
  <2>6. Dense(ws)
    BY ZenonT(40), <2>2, <2>3, <2>4, <2>5, DenseAdd
  <2> QED
    BY <2>1, <2>6
<1>12. PICK ends : ends = Ends(b, ws, early)
  OBVIOUS
<1>13. ends \in SUBSET Modes /\ "broken" \in ends
  BY <1>12 DEF Ends, Modes
<1>14. PICK s \in Shape, t \in Shape : s = ShapeOf(ws, {"ok", "broken"}) /\ t = ShapeOf(ws, ends)
  BY <1>11, <1>13, OwnTypes DEF Modes
<1>15. PICK C \in [Nat -> Shape] : C = [B EXCEPT ![l] = s, ![l + 1] = t]
  BY <1>10
<1>16. C[l] = s /\ C[l + 1] = t /\ \A j \in 0 .. labels : C[j] = B[j]
  <2>1. labels \in Nat
    BY <1>1, BlockFacts
  <2>2. \A j \in 0 .. labels : j \in Nat /\ j # l /\ j # l + 1
    BY <2>1, <1>2
  <2>3. l + 1 \in Nat /\ l # l + 1
    BY <1>2
  <2> QED
    BY <2>2, <2>3, <1>10, <1>15
<1>17. PICK d : d = <<[op |-> "new", kind |-> "int", ofs |-> k + 1],
                      [op |-> "new", kind |-> "iter", ofs |-> k + 2],
                      Label(l), CallNext, JumpError(l + 1)>>
  OBVIOUS
<1>18. d \in Seq(Emitted) /\ Path(d, ShapeOf(varDefs, {"ok"}), ShapeOf(ws, {"ok"}), C)
  <2>1. PICK vs : vs = varDefs
    OBVIOUS
  <2>2. Dense(vs) /\ (\A v \in vs : v.level <= level) /\ k = Cardinality(vs)
    BY <2>1, <1>11
  <2>3. ws = vs \cup {Define("int", level, k + 1), Define("iter", level, k + 2)}
    BY <2>1, <1>6
  <2>4. C[l] = ShapeOf(ws, {"ok", "broken"}) /\ C[l + 1] = ShapeOf(ws, ends)
    BY <1>14, <1>16
  <2>5. d \in Seq(Emitted) /\ Path(d, ShapeOf(vs, {"ok"}), ShapeOf(ws, {"ok"}), C)
    BY ZenonT(40), <2>2, <2>3, <2>4, <1>13, <1>17, PathHead
  <2> QED
    BY <2>1, <2>5
<1>19. code' = code \o d
  <2>1. New("int") = [op |-> "new", kind |-> "int", ofs |-> k + 1] /\ sp + 2 = k + 2
        /\ labels + 1 = l /\ labels + 2 = l + 1
    BY <1>1, <1>2, BlockFacts DEF New
  <2> QED
    BY <2>1, <1>17 DEF OpenFor
<1>20. Under(ws, b.level) = ws
  BY <1>4, <1>7, <1>8 DEF Under
<1>21. LabelsFit(b, ws, early, C)
  BY <1>4, <1>12, <1>14, <1>16, <1>20 DEF LabelsFit
<1>22. \A L \in Nat : L <= level => Under(ws, L) = Under(varDefs, L)
  BY <1>2, <1>6, <1>7 DEF Under
<1>23. Annotated(C)'
  BY <1>1, <1>2, <1>3, <1>5, <1>16, <1>18, <1>19, <1>21, <1>22, OpenRuled
<1> QED
  BY <1>9, <1>23

-----------------------------------------------------------------------------
(* The closing braces.                                                     *)
LEMMA CloseRuled ==
  ASSUME SInv, Parsing, Block.kind # "function", Closed, early' = early,
         NEW L \in Nat, L = BlockLevel - Wide(Block) + 1, varDefs' = Below(L)
  PROVE  /\ RulesOK => RulesOK'
         /\ \A B : Annotated(B) => \A i \in DOMAIN blocks' : LabelsFit(blocks'[i], varDefs', early', B)
         /\ L >= 2
<1>1. PICK n \in Nat : n = Len(blocks) /\ DOMAIN blocks = 1 .. n /\ n >= 1
  BY BlockFacts DEF SInv, BlocksOK
<1>2. n # 1
  BY <1>1, BlockFacts DEF SInv, BlocksOK, Block
<1>3. blocks[n].level = BlockLevel /\ blocks[n] = Block
  BY <1>1 DEF BlockLevel, Block
<1>4. n - 1 \in 1 .. n /\ BlockLevel = blocks[n - 1].level + Wide(Block)
  BY <1>1, <1>2, <1>3 DEF SInv, BlocksOK
<1>5. blocks[n - 1].level \in Nat /\ BlockLevel \in Nat /\ Wide(Block) \in {1, 2}
  BY <1>1, <1>4, BlockFacts DEF BlockType, Wide
<1>6. L = blocks[n - 1].level + 1
  BY <1>4, <1>5
<1>7. ASSUME NEW i \in DOMAIN blocks'
      PROVE  /\ i \in DOMAIN blocks /\ i # n /\ blocks'[i] = blocks[i] /\ blocks[i].level + 1 <= L
             /\ blocks[i].level \in Nat /\ blocks[i].level >= 1
  <2>1. i \in 1 .. n - 1 /\ blocks'[i] = blocks[i]
    BY <1>1, <1>2 DEF Closed, SInv, BlocksOK
  <2>2. i \in DOMAIN blocks /\ i # n
    BY <1>1, <2>1
  <2>3. blocks[i].level <= blocks[n - 1].level
    <3>1. i = n - 1 \/ i < n - 1
      BY <1>1, <2>1
    <3>2. blocks[i].level \in Nat /\ blocks[n - 1].level \in Nat
      BY <2>2, <1>5, BlockFacts DEF BlockType
    <3>3. i < n - 1 => blocks[i].level < blocks[n - 1].level
      BY <1>1, <1>4, <2>2 DEF SInv, BlocksOK
    <3> QED
      BY <3>1, <3>2, <3>3
  <2>4. blocks[i].level \in Nat /\ blocks[i].level >= 1
    BY <2>2, BlockFacts DEF BlockType
  <2> QED
    BY <2>1, <2>2, <2>3, <2>4, <1>5, <1>6
<1>8. \A i \in DOMAIN blocks : i # n => i \in DOMAIN blocks'
  BY <1>1, <1>2 DEF Closed, SInv, BlocksOK
<1>9. L >= 2
  <2>1. n - 1 \in DOMAIN blocks
    BY <1>1, <1>4
  <2>2. blocks[n - 1].level >= 1
    BY <2>1, BlockFacts
  <2> QED
    BY <2>2, <1>5, <1>6
<1>10. PICK ws : ws = varDefs' /\ ws = {v \in varDefs : v.level < L}
  BY DEF Below, Under
<1>11. ASSUME RulesOK
       PROVE  RulesOK'
  <2>1. ASSUME NEW v \in ws, v.kind = "iter"
        PROVE  \E i \in DOMAIN blocks' : blocks'[i].kind = "for" /\ v.level = blocks'[i].level - 1
    <3>1. PICK i \in DOMAIN blocks : blocks[i].kind = "for" /\ v.level = blocks[i].level - 1
      BY <1>10, <1>11, <2>1 DEF RulesOK
    <3>2. i # n
      <4> SUFFICES ASSUME i = n
                   PROVE  FALSE
        OBVIOUS
      <4>1. Wide(Block) = 2 /\ v.level = BlockLevel - 1
        BY <3>1, <1>3 DEF Wide
      <4> QED
        BY <4>1, <2>1, <1>5, <1>10
    <3> QED
      BY <3>1, <3>2, <1>7, <1>8
  <2>2. \A i \in DOMAIN blocks' : blocks'[i].kind = "loop" =>
          \A v \in ws : v.level = blocks'[i].level => v.kind = "int"
    BY <1>7, <1>10, <1>11 DEF RulesOK
  <2> QED
    BY <2>1, <2>2, <1>10 DEF RulesOK
<1>12. \A M \in Nat : M <= L => Under(ws, M) = Under(varDefs, M)
  <2>1. \A v \in varDefs : v.level \in Nat
    BY BlockFacts
  <2> QED
    BY <2>1, <1>10 DEF Under
<1>13. ASSUME NEW B, Annotated(B), NEW i \in DOMAIN blocks'
       PROVE  LabelsFit(blocks'[i], varDefs', early', B)
  <2>1. i \in DOMAIN blocks /\ blocks'[i] = blocks[i] /\ blocks[i].level + 1 <= L
        /\ blocks[i].level \in Nat
    BY <1>7
  <2>2. \A M \in Nat : M <= blocks[i].level => Under(ws, M) = Under(varDefs, M)
    BY <2>1, <1>12
  <2>3. Under(ws, 2) = Under(varDefs, 2) /\ Under(ws, blocks[i].level + 1) = Under(varDefs, blocks[i].level + 1)
    BY <2>1, <1>9, <1>12
  <2>4. LabelsFit(blocks[i], ws, early, B)
    BY <1>13, <2>1, <2>2, <2>3, OthersKept
  <2> QED
    BY <2>1, <2>4, <1>10
<1> QED
  BY <1>9, <1>11, <1>13

(* The variables that a block frees.                                       *)
LEMMA PathBlockVars ==
  ASSUME SInv, Parsing, NEW L \in Nat, NEW modes \in SUBSET Modes,
         "over" \in modes => Own(Below(L)) = {}, NEW B
  PROVE  /\ Dense(Below(L)) /\ ShapeOf(varDefs, modes) \in Shape /\ ShapeOf(Below(L), modes) \in Shape
         /\ FreeBlockVars(L) \in Seq(Emitted) /\ FreeBlockVarsNoDelete(L) \in Seq(Emitted)
         /\ Path(FreeBlockVars(L), ShapeOf(varDefs, modes), ShapeOf(Below(L), modes), B)
         /\ Own(VarsAt(L)) = {} =>
              Path(FreeBlockVarsNoDelete(L), ShapeOf(varDefs, modes), ShapeOf(Below(L), modes), B)
<1>1. PICK vs : vs = varDefs
  OBVIOUS
<1>2. Dense(vs) /\ \A v \in vs : v.ofs # 0 /\ v.level \in Nat
  BY <1>1, BlockFacts
<1>3. PICK ds : ds = VarsAt(L)
  OBVIOUS
<1>4. ds = vs \ Under(vs, L) /\ Below(L) = Under(vs, L)
  BY <1>1, <1>2, <1>3 DEF VarsAt, Under, Below
<1>5. Dense(Under(vs, L))
  BY <1>2, DenseFacts
<1>6. ShapeOf(vs, modes) \in Shape /\ ShapeOf(Under(vs, L), modes) \in Shape
  BY <1>2, <1>5, OwnTypes
<1>7. /\ Path(FreeVars(ds), ShapeOf(vs, modes), ShapeOf(Under(vs, L), modes), B)
      /\ Own(ds) = {} => Path(Pops(Cardinality(ds)), ShapeOf(vs, modes), ShapeOf(Under(vs, L), modes), B)
  BY <1>2, <1>4, PathFreeVars
<1>8. FreeBlockVars(L) \in Seq(Emitted) /\ FreeBlockVarsNoDelete(L) \in Seq(Emitted)
  BY FreeLevels DEF SInv
<1> QED
  BY <1>1, <1>3, <1>4, <1>5, <1>6, <1>7, <1>8 DEF FreeBlockVars, FreeBlockVarsNoDelete

LEMMA ForgetsBelow ==
  ASSUME SInv, NEW L \in Nat, Forget(L)
  PROVE  varDefs' = Below(L)
BY Levels DEF SInv, Forget

LEMMA CloseIfRuled ==
  ASSUME SInv, RulesOK, NEW B, Annotated(B), CloseIf
  PROVE  RulesOK' /\ Annotated(B)'
<1>1. /\ Parsing /\ Block.kind = "if" /\ Closed /\ early' = early /\ Forget(BlockLevel)
      /\ code' = code \o FreeBlockVars(BlockLevel) \o <<Label(Block.exit)>>
  BY DEF CloseIf
<1>2. PICK L \in Nat, l \in Nat : L = BlockLevel /\ l = Block.exit
  BY <1>1, BlockFacts DEF BlockType
<1>3. varDefs' = Below(L) /\ L = BlockLevel - Wide(Block) + 1
  BY <1>1, <1>2, ForgetsBelow DEF Wide
<1>4. RulesOK' /\ \A i \in DOMAIN blocks' : LabelsFit(blocks'[i], varDefs', early', B)
  BY <1>1, <1>3, CloseRuled
<1>5. PICK s, t : s = ShapeOf(varDefs, {"ok"}) /\ t = ShapeOf(Below(L), {"ok"})
  OBVIOUS
<1>6. PICK f : f = FreeBlockVars(L)
  OBVIOUS
<1>7. s \in Shape /\ t \in Shape /\ f \in Seq(Emitted) /\ Path(f, s, t, B)
  BY <1>1, <1>5, <1>6, PathBlockVars DEF Modes
<1>8. B \in [Nat -> Shape] /\ B[l] = t
  <2>1. LabelsFit(Block, varDefs, early, B)
    BY <1>1, BlockFacts DEF Annotated, Block
  <2> QED
    BY <2>1, <1>1, <1>2, <1>5 DEF Annotated, LabelsFit, BlockLevel, Below
<1>9. PICK d : d = f \o <<Label(l)>>
  OBVIOUS
<1>10. d \in Seq(Emitted) /\ Path(d, s, t, B)
  BY <1>7, <1>8, <1>9, IntoSame, PathLabel
<1>11. code' = code \o d
  <2>1. PICK c \in Seq(Emitted), e \in Seq(Emitted) : c = code /\ e = <<Label(l)>>
    BY <1>1, BlockFacts, LabelType, SeqOne
  <2>2. c \o f \o e = c \o (f \o e)
    BY <2>1, <1>7, RegroupThree
  <2> QED
    BY <2>1, <2>2, <1>1, <1>2, <1>6, <1>9
<1>12. Widened(code, B, B)
  BY <1>8, Widening
<1> QED
  BY <1>3, <1>4, <1>5, <1>8, <1>10, <1>11, <1>12, Continued

LEMMA ReturnLabelShape ==
  ASSUME SInv, Parsing, NEW B, Annotated(B)
  PROVE  B[ReturnLabel] = ReturnShape(varDefs, early)
<1>1. 1 \in DOMAIN blocks
  BY BlockFacts DEF SInv, BlocksOK
<1>2. blocks[1].kind = "function"
  BY <1>1 DEF SInv, BlocksOK
<1> QED
  BY <1>1, <1>2 DEF Annotated, LabelsFit

LEMMA AppendTwo ==
  ASSUME NEW c \in Seq(Emitted), NEW a \in Emitted, NEW b \in Emitted
  PROVE  c \o <<a, b>> = c \o <<a>> \o <<b>>
<1>1. PICK d \in Seq(Emitted), e \in Seq(Emitted), f \in Seq(Emitted) : d = <<a>> /\ e = <<b>> /\ f = <<a, b>>
  BY SeqOne, SeqTwo
<1>2. Len(d) = 1 /\ d[1] = a /\ Len(e) = 1 /\ e[1] = b /\ Len(f) = 2 /\ f[1] = a /\ f[2] = b
  BY <1>1
<1>3. PICK g \in Seq(Emitted), h \in Seq(Emitted), i \in Seq(Emitted) : g = c \o d /\ h = g \o e /\ i = c \o f
  <2>1. c \o d \in Seq(Emitted) /\ c \o f \in Seq(Emitted)
    BY <1>1, EmittedConcat
  <2>2. PICK g : g = c \o d
    OBVIOUS
  <2>3. g \o e \in Seq(Emitted)
    BY <1>1, <2>1, <2>2, EmittedConcat
  <2> QED
    BY <2>1, <2>2, <2>3
<1>4. PICK n \in Nat : n = Len(c)
  OBVIOUS
<1>5. /\ Len(g) = n + 1 /\ (\A j \in 1 .. n + 1 : g[j] = IF j <= n THEN c[j] ELSE d[j - n])
      /\ Len(i) = n + 2 /\ (\A j \in 1 .. n + 2 : i[j] = IF j <= n THEN c[j] ELSE f[j - n])
  BY <1>1, <1>2, <1>3, <1>4, ConcatProperties
<1>6. Len(h) = n + 2 /\ (\A j \in 1 .. n + 2 : h[j] = IF j <= n + 1 THEN g[j] ELSE e[j - (n + 1)])
  <2>1. /\ Len(h) = Len(g) + Len(e)
        /\ \A j \in 1 .. Len(g) + Len(e) : h[j] = IF j <= Len(g) THEN g[j] ELSE e[j - Len(g)]
    BY <1>1, <1>3, ConcatProperties
  <2>2. Len(g) = n + 1 /\ Len(g) + Len(e) = n + 2
    BY <1>2, <1>5
  <2> QED
    BY <2>1, <2>2
<1>7. ASSUME NEW j \in 1 .. n + 2
      PROVE  h[j] = i[j]
  <2>1. CASE j <= n
    <3>1. j \in 1 .. n + 1 /\ j <= n + 1
      BY <2>1, <1>4
    <3> QED
      BY <2>1, <3>1, <1>5, <1>6
  <2>2. CASE j = n + 1
    <3>1. j \in 1 .. n + 1 /\ ~(j <= n) /\ j <= n + 1 /\ j - n = 1
      BY <2>2, <1>4
    <3>2. h[j] = g[j] /\ g[j] = d[j - n] /\ i[j] = f[j - n]
      BY <3>1, <1>5, <1>6
    <3> QED
      BY <3>1, <3>2, <1>2
  <2>3. CASE j = n + 2
    <3>1. ~(j <= n) /\ ~(j <= n + 1) /\ j - n = 2 /\ j - (n + 1) = 1
      BY <2>3, <1>4
    <3>2. h[j] = e[j - (n + 1)] /\ i[j] = f[j - n]
      BY <3>1, <1>5, <1>6
    <3> QED
      BY <3>1, <3>2, <1>2
  <2>4. j <= n \/ j = n + 1 \/ j = n + 2
    <3>1. n \in Int /\ j \in Int /\ j <= n + 2
      BY <1>4
    <3> QED
      BY ONLY <3>1
  <2> QED
    BY <2>1, <2>2, <2>3, <2>4
<1>8. h = i
  BY <1>3, <1>5, <1>6, <1>7, SeqEqual
<1> QED
  BY <1>1, <1>3, <1>8

(* The code behind a for loop.                                             *)
LEMMA PathAfterFor ==
  ASSUME NEW own \in SUBSET Slot, NEW k \in Nat, NEW ends \in SUBSET {"broken", "returning"},
         "broken" \in ends, NEW B \in [Nat -> Shape],
         "returning" \in ends => B[ReturnLabel] = ShapeIs(own, 0, {"over"})
  PROVE  /\ ReturnIfErr2 \in Emitted /\ ClearBreakErr \in Emitted
         /\ Flows(ReturnIfErr2, ShapeIs(own, k, ends), ShapeIs(own, k, {"broken"}), B)
         /\ Flows(ClearBreakErr, ShapeIs(own, k, {"broken"}), ShapeIs(own, k, {"ok"}), B)
         /\ ShapeIs(own, k, ends) \in Shape /\ ShapeIs(own, k, {"broken"}) \in Shape
         /\ ShapeIs(own, k, {"ok"}) \in Shape
<1>1. PICK x, y : x = ReturnIfErr2 /\ y = ClearBreakErr
  OBVIOUS
<1>2. x \in Emitted /\ x.op = "returnIfErr2" /\ x.label = ReturnLabel /\ y \in Emitted /\ y.op = "clearBreakErr"
  BY <1>1 DEF ReturnIfErr2, ClearBreakErr, Emitted, JumpOps, ReturnLabel
<1>3. PICK s \in Shape, t \in Shape, u \in Shape :
        s = ShapeIs(own, k, ends) /\ t = ShapeIs(own, k, {"broken"}) /\ u = ShapeIs(own, k, {"ok"})
  BY ShapeTypes DEF Modes
<1>4. /\ s.own = own /\ s.sp = k /\ s.modes = ends /\ t.own = own /\ t.sp = k /\ t.modes = {"broken"}
      /\ u.own = own /\ u.sp = k /\ u.modes = {"ok"}
  BY <1>3 DEF ShapeIs
<1>5. "returning" \in ends => Into(ShapeIs(s.own, s.sp, {"over"}), B[x.label])
  <2> SUFFICES ASSUME "returning" \in ends
               PROVE  Into(ShapeIs(s.own, s.sp, {"over"}), B[x.label])
    OBVIOUS
  <2>1. PICK v, w : v = ShapeIs(own, k, {"over"}) /\ w = ShapeIs(own, 0, {"over"})
    OBVIOUS
  <2>2. v.own = own /\ v.modes = {"over"} /\ w.own = own /\ w.modes = {"over"}
    BY <2>1 DEF ShapeIs
  <2>3. Into(v, w)
    BY <2>2 DEF Into, Becomes
  <2> QED
    BY <2>1, <2>3, <1>2, <1>4
<1>6. Only(s, {"broken"}) = t
  <2>1. s.modes \cap {"broken"} = {"broken"}
    BY <1>4
  <2> QED
    BY <2>1, <1>3, <1>4 DEF Only
<1>7. FlowsReturnIfErr2(x, s, t, B)
  BY <1>4, <1>5, <1>6, IntoSame DEF FlowsReturnIfErr2
<1>8. FlowsClear(t, u)
  BY <1>3, <1>4, IntoSame DEF FlowsClear
<1>9. Flows(x, s, t, B) /\ Flows(y, t, u, B)
  BY <1>2, <1>7, <1>8 DEF Flows
<1> QED
  BY <1>1, <1>2, <1>3, <1>9

LEMMA CloseForRuled ==
  ASSUME SInv, RulesOK, NEW B, Annotated(B), CloseFor
  PROVE  RulesOK' /\ Annotated(B)'
<1>1. /\ Parsing /\ Block.kind = "for" /\ Closed /\ early' = early /\ Forget(BlockLevel - 1)
      /\ code' = code \o FreeBlockVars(BlockLevel)
                  \o <<Jump(Block.start), Label(Block.exit)>>
                  \o FreeVars({v \in varDefs : v.level = BlockLevel - 1})
                  \o <<ReturnIfErr2, ClearBreakErr>>
  BY DEF CloseFor, AfterFor
<1>2. PICK L \in Nat, l \in Nat, e \in Nat, K \in Nat :
        L = BlockLevel /\ l = Block.start /\ e = Block.exit /\ K = L - 1 /\ K < L
  <2>1. Block.level >= 3 /\ Block.level \in Nat
    BY <1>1, BlockFacts DEF BlockType, Block
  <2> QED
    BY SMTT(30), <2>1, <1>1, BlockFacts DEF BlockType, BlockLevel
<1>3. varDefs' = Below(K) /\ K = BlockLevel - Wide(Block) + 1
  BY <1>1, <1>2, ForgetsBelow DEF Wide
<1>4. RulesOK' /\ (\A i \in DOMAIN blocks' : LabelsFit(blocks'[i], varDefs', early', B)) /\ K >= 2
  BY <1>1, <1>3, CloseRuled
<1>5. PICK s, t, vs : s = ShapeOf(varDefs, {"ok"}) /\ t = ShapeOf(Below(L), {"ok"}) /\ vs = Below(L)
  OBVIOUS
<1>6. PICK f : f = FreeBlockVars(L)
  OBVIOUS
<1>7. s \in Shape /\ t \in Shape /\ f \in Seq(Emitted) /\ Path(f, s, t, B) /\ Dense(vs)
  BY SMTT(30), <1>1, <1>5, <1>6, PathBlockVars DEF Modes
<1>8. PICK ends, ws : ends = Ends(Block, varDefs, early) /\ ws = Under(vs, K)
  OBVIOUS
<1>9. ends \in SUBSET {"broken", "returning"} /\ "broken" \in ends
  BY <1>8 DEF Ends
<1>10. ws = Below(K) /\ Dense(ws) /\ \A v \in vs : v.ofs # 0 /\ v.level \in Nat
  <2>1. \A v \in varDefs : v.ofs # 0 /\ v.level \in Nat
    BY <1>1, BlockFacts
  <2>2. ws = Below(K)
    BY <2>1, <1>2, <1>5, <1>8 DEF Below, Under
  <2> QED
    <3>1. Dense(ws)
      BY <1>7, <1>8, DenseFacts
    <3>2. vs \subseteq varDefs
      BY <1>5 DEF Below, Under
    <3> QED
      BY <3>1, <3>2, <2>1, <2>2
<1>11. PICK u, w, x : u = ShapeOf(vs, ends) /\ w = ShapeOf(ws, ends) /\ x = ShapeOf(ws, {"broken"})
  OBVIOUS
<1>12. B \in [Nat -> Shape] /\ LabelsFit(Block, varDefs, early, B)
  BY <1>1, BlockFacts DEF Annotated, Block
<1>13. Into(t, B[l]) /\ B[e] = u
  <2>1. B[l] = ShapeOf(vs, {"ok", "broken"}) /\ B[e] = ShapeOf(vs, Ends(Block, varDefs, early))
    BY <1>12, <1>1, <1>2, <1>5 DEF LabelsFit, BlockLevel, Below
  <2>2. t = ShapeOf(vs, {"ok"})
    BY <1>5
  <2>3. Into(t, B[l])
    BY <2>1, <2>2 DEF Into, ShapeOf, ShapeIs, Becomes
  <2> QED
    BY <2>1, <2>3, <1>8, <1>11
<1>14. ends \in SUBSET Modes
  BY <1>9 DEF Modes
<1>15. u \in Shape /\ w \in Shape /\ x \in Shape
  BY <1>7, <1>10, <1>11, <1>14, OwnTypes DEF Modes
<1>16. PICK g : g = FreeVars({v \in varDefs : v.level = BlockLevel - 1})
  OBVIOUS
<1>17. g \in Seq(Emitted) /\ Path(g, u, w, B)
  <2>1. {v \in varDefs : v.level = BlockLevel - 1} = vs \ Under(vs, K)
    <3>1. \A v \in varDefs : v.level \in Nat
      BY <1>1, BlockFacts
    <3> QED
      BY <3>1, <1>2, <1>5 DEF Below, Under
  <2>2. "over" \notin ends
    BY <1>9
  <2>3. Path(FreeVars(vs \ Under(vs, K)), ShapeOf(vs, ends), ShapeOf(Under(vs, K), ends), B)
    BY <2>2, <1>7, <1>10, <1>14, PathFreeVars
  <2>4. FreeVars(vs \ Under(vs, K)) \in Seq(Emitted)
    <3>1. PICK ds : ds = vs \ Under(vs, K)
      OBVIOUS
    <3>2. ds \subseteq vs /\ vs \subseteq VarType /\ IsFiniteSet(vs)
      BY <3>1, <1>7 DEF Dense
    <3>3. IsFiniteSet(ds)
      BY <3>2, FS_Subset
    <3> QED
      BY <3>1, <3>2, <3>3, <1>10, FreeVarsEmitted
  <2> QED
    BY <2>1, <2>3, <2>4, <1>8, <1>11, <1>16
<1>18. PICK j \in Emitted, b \in Emitted : j = Jump(l) /\ b = Label(e)
  BY JumpType, LabelType
<1>19. PICK f1 : f1 = f \o <<j>>
  OBVIOUS
<1>20. f1 \in Seq(Emitted) /\ Path(f1, s, Dead, B)
  BY <1>7, <1>12, <1>13, <1>18, <1>19, ShapeTypes, PathJump
<1>21. PICK f2 : f2 = f1 \o <<b>>
  OBVIOUS
<1>22. f2 \in Seq(Emitted) /\ Path(f2, s, u, B)
  <2>1. Dead \in Shape /\ Into(Dead, u)
    BY ShapeTypes DEF Into, Dead, ShapeIs
  <2>2. Into(B[e], u)
    BY <1>13, <1>15, IntoSame
  <2> QED
    BY <2>1, <2>2, <1>12, <1>15, <1>18, <1>20, <1>21, PathLabel
<1>23. PICK f3 : f3 = f2 \o g
  OBVIOUS
<1>24. f3 \in Seq(Emitted) /\ Path(f3, s, w, B)
  BY <1>17, <1>22, <1>23, PathJoin, EmittedConcat
<1>25. PICK y, z, o : y = ReturnIfErr2 /\ z = ClearBreakErr /\ o = ShapeOf(ws, {"ok"})
  OBVIOUS
<1>26. y \in Emitted /\ z \in Emitted /\ o \in Shape /\ Flows(y, w, x, B) /\ Flows(z, x, o, B)
  <2>1. PICK own, k : own = Own(ws) /\ k = Cardinality(ws)
    OBVIOUS
  <2>2. own \in SUBSET Slot /\ k \in Nat
    BY <2>1, <1>10, OwnTypes
  <2>3. w = ShapeIs(own, k, ends) /\ x = ShapeIs(own, k, {"broken"}) /\ o = ShapeIs(own, k, {"ok"})
    BY <2>1, <1>11, <1>25 DEF ShapeOf
  <2>4. "returning" \in ends => B[ReturnLabel] = ShapeIs(own, 0, {"over"})
    <3> SUFFICES ASSUME "returning" \in ends
                 PROVE  B[ReturnLabel] = ShapeIs(own, 0, {"over"})
      OBVIOUS
    <3>1. CanReturn(Block, varDefs, early)
      BY <1>8 DEF Ends
    <3>2. early /\ Own(Under(varDefs, K)) = Own(Under(varDefs, 2))
      BY <3>1, <1>2 DEF CanReturn, BlockLevel
    <3>3. own = Own(Under(varDefs, 2))
      BY <3>2, <2>1, <1>10 DEF Below
    <3> QED
      BY <3>2, <3>3, <1>1, ReturnLabelShape DEF ReturnShape
  <2> QED
    BY <2>2, <2>3, <2>4, <1>9, <1>12, <1>25, PathAfterFor
<1>27. PICK f4 : f4 = f3 \o <<y>>
  OBVIOUS
<1>28. f4 \in Seq(Emitted) /\ Path(f4, s, x, B)
  BY <1>15, <1>24, <1>26, <1>27, PathThen
<1>29. PICK d : d = f4 \o <<z>>
  OBVIOUS
<1>30. d \in Seq(Emitted) /\ Path(d, s, o, B)
  BY <1>15, <1>26, <1>28, <1>29, PathThen
<1>31. code' = code \o d
  <2>1. PICK c \in Seq(Emitted), p \in Seq(Emitted), q \in Seq(Emitted) : c = code /\ p = <<j, b>> /\ q = <<y, z>>
    BY <1>1, <1>18, <1>26, BlockFacts, SeqTwo
  <2>2. Cat(Cat(Cat(Cat(c, f), p), g), q) = Cat(c, Cat(Cat(Cat(f, p), g), q))
    <3>1. /\ c \in Seq(Emitted) /\ f \in Seq(Emitted) /\ p \in Seq(Emitted) /\ g \in Seq(Emitted)
          /\ q \in Seq(Emitted)
      BY <2>1, <1>7, <1>17
    <3> QED
      BY <3>1, RegroupFive
  <2>3. f \o p = f2
    BY ZenonT(40), <2>1, <1>7, <1>18, <1>19, <1>21, AppendTwo
  <2>4. f3 \o q = d
    BY <2>1, <1>24, <1>26, <1>27, <1>29, AppendTwo
  <2>5. Cat(Cat(Cat(f, p), g), q) = d
    BY <2>3, <2>4, <1>23 DEF Cat
  <2>6. code' = Cat(Cat(Cat(Cat(c, f), p), g), q)
    BY <2>1, <1>1, <1>2, <1>6, <1>16, <1>18, <1>25 DEF Cat
  <2> QED
    BY <2>1, <2>2, <2>5, <2>6 DEF Cat
<1>32. Widened(code, B, B)
  BY <1>12, Widening
<1>33. Path(d, ShapeOf(varDefs, {"ok"}), ShapeOf(varDefs', {"ok"}), B)
  BY <1>3, <1>5, <1>10, <1>25, <1>30
<1> QED
  BY <1>4, <1>12, <1>30, <1>31, <1>32, <1>33, Continued

LEMMA CloseLoopRuled ==
  ASSUME SInv, RulesOK, NEW B, Annotated(B), CloseLoop
  PROVE  RulesOK' /\ Annotated(B)'
<1>1. /\ Parsing /\ Block.kind = "loop" /\ Closed /\ early' = early /\ Forget(BlockLevel)
      /\ code' = code \o FreeBlockVarsNoDelete(BlockLevel)
                  \o <<Jump(Block.start), Label(Block.break)>>
                  \o FreeBlockVars(BlockLevel)
                  \o <<Label(Block.exit)>> \o <<ClearBreakErr>>
  BY DEF CloseLoop, AfterLoop
<1>2. PICK L \in Nat, l \in Nat, e \in Nat, h \in Nat :
        L = BlockLevel /\ l = Block.start /\ e = Block.exit /\ h = Block.break
  BY <1>1, BlockFacts DEF BlockType, BlockLevel
<1>3. varDefs' = Below(L) /\ L = BlockLevel - Wide(Block) + 1
  BY <1>1, <1>2, ForgetsBelow DEF Wide
<1>4. RulesOK' /\ \A i \in DOMAIN blocks' : LabelsFit(blocks'[i], varDefs', early', B)
  BY <1>1, <1>3, CloseRuled
<1>5. Own(VarsAt(L)) = {}
  <2>1. \A v \in VarsAt(L) : v.level = L /\ v \in varDefs
    BY <1>1, <1>2, BlockFacts DEF VarsAt
  <2>2. \A v \in VarsAt(L) : v.kind = "int"
    <3>1. Len(blocks) \in DOMAIN blocks /\ blocks[Len(blocks)].kind = "loop"
          /\ blocks[Len(blocks)].level = L
      BY <1>1, <1>2, BlockFacts DEF Block, BlockLevel
    <3> QED
      BY <2>1, <3>1 DEF RulesOK
  <2> QED
    BY <2>2 DEF Own, Owning
<1>6. PICK m, vs, ws : m = (IF Block.broken THEN {"broken"} ELSE {}) /\ vs = varDefs /\ ws = Below(L)
  OBVIOUS
<1>7. m \in SUBSET Modes /\ m \subseteq {"broken"} /\ "over" \notin m
  BY <1>6 DEF Modes
<1>8. PICK s, t, u, w, o : /\ s = ShapeOf(vs, {"ok"}) /\ t = ShapeOf(ws, {"ok"})
                           /\ u = ShapeOf(vs, m) /\ w = ShapeOf(ws, m) /\ o = t
  OBVIOUS
<1>9. PICK f, g : f = FreeBlockVarsNoDelete(L) /\ g = FreeBlockVars(L)
  OBVIOUS
<1>10. s \in Shape /\ t \in Shape /\ f \in Seq(Emitted) /\ Path(f, s, t, B) /\ Dense(ws)
  <2>1. {"ok"} \in SUBSET Modes /\ "over" \notin {"ok"}
    BY DEF Modes
  <2> QED
    BY <2>1, <1>1, <1>5, <1>6, <1>8, <1>9, PathBlockVars
<1>11. u \in Shape /\ w \in Shape /\ g \in Seq(Emitted) /\ Path(g, u, w, B)
  BY <1>1, <1>6, <1>7, <1>8, <1>9, PathBlockVars
<1>12. B \in [Nat -> Shape] /\ LabelsFit(Block, varDefs, early, B)
  BY <1>1, BlockFacts DEF Annotated, Block
<1>13. Dead \in Shape /\ \A v : Into(Dead, v)
  BY ShapeTypes DEF Into, Dead, ShapeIs
<1>14. B[l] = t /\ B[e] = Dead /\ Into(B[h], u)
  <2>1. B[l] = t /\ B[e] = Dead /\ B[h] = BreakShape(Block, varDefs)
    BY <1>1, <1>2, <1>6, <1>8, <1>12 DEF LabelsFit, BlockLevel, Below
  <2>2. CASE ~Block.broken
    <3>1. B[h] = Dead
      BY <2>1, <2>2 DEF BreakShape
    <3> QED
      BY <2>1, <3>1, <1>13
  <2>3. CASE Block.broken
    <3>1. B[h] = ShapeIs(Own(Under(varDefs, L)), Cardinality(Under(varDefs, L + 1)), {"broken"})
      BY <2>1, <2>3, <1>2 DEF BreakShape, BlockLevel
    <3>2. Under(varDefs, L + 1) = varDefs
      BY <1>1, <1>2, BlockFacts DEF Under
    <3>3. Own(Under(varDefs, L)) = Own(varDefs)
      <4>1. \A v \in varDefs : v.level \in Nat
        BY <1>1, BlockFacts
      <4>2. varDefs \ Under(varDefs, L) = VarsAt(L)
        BY <4>1 DEF Under, VarsAt
      <4>3. Dense(varDefs)
        BY <1>1, BlockFacts
      <4> QED
        BY <4>2, <4>3, <1>5, OwnSplit
    <3>4. B[h] = u
      BY <3>1, <3>2, <3>3, <2>3, <1>6, <1>8 DEF ShapeOf
    <3> QED
      BY <2>1, <3>4, <1>11, IntoSame
  <2> QED
    BY <2>2, <2>3
<1>15. PICK j \in Emitted, b \in Emitted, a \in Emitted : j = Jump(l) /\ b = Label(h) /\ a = Label(e)
  BY JumpType, LabelType
<1>16. PICK f1 : f1 = f \o <<j>>
  OBVIOUS
<1>17. f1 \in Seq(Emitted) /\ Path(f1, s, Dead, B)
  BY <1>10, <1>12, <1>13, <1>14, <1>15, <1>16, IntoSame, PathJump
<1>18. PICK f2 : f2 = f1 \o <<b>>
  OBVIOUS
<1>19. f2 \in Seq(Emitted) /\ Path(f2, s, u, B)
  BY <1>11, <1>12, <1>13, <1>14, <1>15, <1>17, <1>18, PathLabel
<1>20. PICK f3 : f3 = f2 \o g
  OBVIOUS
<1>21. f3 \in Seq(Emitted) /\ Path(f3, s, w, B)
  BY <1>11, <1>19, <1>20, PathJoin, EmittedConcat
<1>22. PICK f4 : f4 = f3 \o <<a>>
  OBVIOUS
<1>23. f4 \in Seq(Emitted) /\ Path(f4, s, w, B)
  <2>1. Into(w, w) /\ Into(B[e], w)
    BY <1>11, <1>13, <1>14, IntoSame
  <2> QED
    BY <2>1, <1>11, <1>12, <1>15, <1>21, <1>22, PathLabel
<1>24. PICK z : z = ClearBreakErr
  OBVIOUS
<1>25. z \in Emitted /\ Flows(z, w, t, B)
  <2>1. z \in Emitted /\ z.op = "clearBreakErr"
    BY <1>24 DEF ClearBreakErr, Emitted
  <2>2. w.modes = m /\ ShapeIs(w.own, w.sp, {"ok"}) = t
    BY <1>8 DEF ShapeOf, ShapeIs
  <2>3. FlowsClear(w, t)
    BY <2>2, <1>7, <1>10, IntoSame DEF FlowsClear
  <2> QED
    BY <2>1, <2>3 DEF Flows
<1>26. PICK d : d = f4 \o <<z>>
  OBVIOUS
<1>27. d \in Seq(Emitted) /\ Path(d, s, t, B)
  BY <1>10, <1>11, <1>23, <1>25, <1>26, PathThen
<1>28. code' = code \o d
  <2>1. PICK c \in Seq(Emitted), p \in Seq(Emitted), q \in Seq(Emitted), r \in Seq(Emitted) :
          c = code /\ p = <<j, b>> /\ q = <<a>> /\ r = <<z>>
    BY <1>1, <1>15, <1>25, BlockFacts, SeqOne, SeqTwo
  <2>2. /\ c \in Seq(Emitted) /\ f \in Seq(Emitted) /\ p \in Seq(Emitted) /\ g \in Seq(Emitted)
        /\ q \in Seq(Emitted) /\ r \in Seq(Emitted)
    BY <2>1, <1>10, <1>11
  <2>3. Cat(Cat(Cat(Cat(c, f), p), g), q) = Cat(c, Cat(Cat(Cat(f, p), g), q))
        /\ Cat(Cat(Cat(f, p), g), q) \in Seq(Emitted)
    BY <2>2, RegroupFive
  <2>4. f \o p = f2
    <3>1. f \o <<j, b>> = f \o <<j>> \o <<b>>
      BY ZenonT(40), <2>2, <1>15, AppendTwo
    <3> QED
      BY <3>1, <2>1, <1>16, <1>18
  <2>5. Cat(Cat(Cat(f, p), g), q) = f4
    BY <2>1, <2>4, <1>20, <1>22 DEF Cat
  <2>6. code' = Cat(Cat(Cat(Cat(Cat(c, f), p), g), q), r)
    BY <2>1, <1>1, <1>2, <1>9, <1>15, <1>24 DEF Cat
  <2>7. code' = Cat(Cat(c, f4), r)
    BY <2>3, <2>5, <2>6
  <2>8. Cat(Cat(c, f4), r) = Cat(c, Cat(f4, r))
    BY <2>2, <2>3, <2>5, CatAssociative
  <2> QED
    BY <2>1, <2>7, <2>8, <1>26 DEF Cat
<1>29. Widened(code, B, B)
  BY <1>12, Widening
<1>30. Path(d, ShapeOf(varDefs, {"ok"}), ShapeOf(varDefs', {"ok"}), B)
  BY <1>3, <1>6, <1>8, <1>27
<1> QED
  BY <1>4, <1>12, <1>27, <1>28, <1>29, <1>30, Continued

-----------------------------------------------------------------------------
(* The statements that jump.                                               *)
LEMMA JumpRuled ==
  ASSUME SInv, Parsing, NEW B, Annotated(B), NEW C \in [Nat -> Shape], Widened(code, B, C),
         NEW form \in Forms, NEW d \in Seq(Emitted), Guarded(form, d),
         Dense(varDefs'),
         form # "plain" => C[labels + 1] = ShapeOf(varDefs, {"ok"}) /\ varDefs' = varDefs,
         \A m \in {"ok", "failing"} :
           Path(d, ShapeOf(varDefs, {m}), ShapeOf(varDefs', {"ok"}), C),
         \A i \in DOMAIN blocks' : LabelsFit(blocks'[i], varDefs', early', C)
  PROVE  Annotated(C)'
<1>1. PICK vs, ws : vs = varDefs /\ ws = varDefs'
  OBVIOUS
<1>2. PICK own, k : own = Own(vs) /\ k = Cardinality(vs)
  OBVIOUS
<1>3. own \in SUBSET Slot /\ k \in Nat
  BY <1>1, <1>2, BlockFacts, OwnTypes
<1>4. \A modes : ShapeOf(vs, modes) = ShapeIs(own, k, modes)
  BY <1>2 DEF ShapeOf
<1>5. PICK t \in Shape : t = ShapeOf(ws, {"ok"})
  BY <1>1, OwnTypes DEF Modes
<1>6. \A m \in {"ok", "failing"} : Path(d, ShapeIs(own, k, {m}), t, C)
  BY <1>1, <1>4, <1>5
<1>7. form # "plain" => C[labels + 1] = ShapeIs(own, k, {"ok"}) /\ t = ShapeIs(own, k, {"ok"})
  BY <1>1, <1>4, <1>5
<1>8. labels \in Nat /\ code \in Seq(Emitted)
  BY BlockFacts
<1>9. PICK e \in Seq(Emitted) : code' = code \o e /\ Path(e, ShapeIs(own, k, {"ok"}), t, C)
  BY <1>3, <1>6, <1>7, <1>8, PathGuarded
<1>10. Path(e, ShapeOf(varDefs, {"ok"}), ShapeOf(varDefs', {"ok"}), C)
  BY <1>1, <1>4, <1>5, <1>9
<1> QED
  BY <1>9, <1>10, Continued

(* The innermost loop.                                                     *)
LEMMA InnermostLoop ==
  ASSUME SInv, Parsing, InLoop
  PROVE  /\ InnermostAt \in DOMAIN blocks /\ Loop = blocks[InnermostAt] /\ Loop.kind \in {"for", "loop"}
         /\ Loop.level \in Nat /\ Loop.level >= 2 /\ Loop.level <= BlockLevel
         /\ \A i \in DOMAIN blocks : blocks[i].kind \in {"for", "loop"} => blocks[i].level <= Loop.level
         /\ Loop.break \in 1 .. labels /\ Loop.exit \in 1 .. labels /\ Loop.start \in 1 .. labels
         /\ Loop.break # Loop.exit /\ Loop.start # Loop.exit
         /\ Loop.kind = "loop" => Loop.break \in Unplaced /\ Loop.break # Loop.start
         /\ Loop.kind = "for" => Loop.break = Loop.start
         /\ Loop.exit \in Unplaced
<1>1. PICK p : p = InnermostAt
  OBVIOUS
<1>2. p \in LoopBlocks /\ \A j \in LoopBlocks : j <= p
  BY <1>1, OpenBlocks
<1>3. p \in DOMAIN blocks /\ Loop = blocks[p] /\ Loop.kind \in {"for", "loop"}
  BY <1>1, <1>2 DEF LoopBlocks, Loop
<1>4. Loop.level \in Nat /\ Loop.level >= 2 /\ Loop.level <= BlockLevel
  BY <1>3, BlockFacts DEF BlockType
<1>5. ASSUME NEW i \in DOMAIN blocks, blocks[i].kind \in {"for", "loop"}
      PROVE  blocks[i].level <= Loop.level
  <2>1. i <= p
    BY <1>2, <1>5 DEF LoopBlocks
  <2>2. i \in Nat /\ p \in Nat
    BY <1>3 DEF SInv, BlocksOK
  <2>3. i = p \/ i < p
    BY <2>1, <2>2
  <2>4. i < p => blocks[i].level < Loop.level
    BY <1>3 DEF SInv, BlocksOK
  <2>5. blocks[i].level \in Nat
    BY BlockFacts DEF BlockType
  <2> QED
    BY <2>3, <2>4, <2>5, <1>3, <1>4
<1>6. PICK b : b = blocks[p]
  OBVIOUS
<1>7. /\ LabelsOf(b) \subseteq 1 .. labels /\ ToPlace(b) \subseteq Unplaced
      /\ b.kind = "for" => b.break = b.start /\ b.start # b.exit
      /\ b.kind = "loop" => b.break # b.start /\ b.start # b.exit /\ b.break # b.exit
  BY <1>3, <1>6, UnplacedLabels DEF SInv, BlockLabelsOK
<1>8. CASE b.kind = "for"
  <2>1. LabelsOf(b) = {b.start, b.exit} /\ ToPlace(b) = {b.exit}
    BY <1>8 DEF LabelsOf, ToPlace
  <2> QED
    BY <2>1, <1>1, <1>3, <1>4, <1>5, <1>6, <1>7, <1>8
<1>9. CASE b.kind = "loop"
  <2>1. LabelsOf(b) = {b.start, b.exit, b.break} /\ ToPlace(b) = {b.exit, b.break}
    BY <1>9 DEF LabelsOf, ToPlace
  <2> QED
    BY <2>1, <1>1, <1>3, <1>4, <1>5, <1>6, <1>7, <1>9
<1> QED
  BY <1>3, <1>6, <1>8, <1>9

(* A label of one loop is none of another block.                           *)
LEMMA LabelsApart ==
  ASSUME SInv, NEW p \in DOMAIN blocks, NEW i \in DOMAIN blocks, i # p, NEW l \in LabelsOf(blocks[p])
  PROVE  l \notin LabelsOf(blocks[i]) \cup ToPlace(blocks[i])
<1>1. LabelsOf(blocks[p]) \cap LabelsOf(blocks[i]) = {} /\ LabelsOf(blocks[p]) \subseteq 1 .. labels
  BY DEF SInv, BlockLabelsOK
<1>2. l # ReturnLabel
  BY <1>1 DEF SInv, ParserOK, ReturnLabel
<1>3. ToPlace(blocks[i]) \subseteq LabelsOf(blocks[i]) \cup {ReturnLabel}
  <2>1. blocks[i].kind \in {"function", "if", "for", "loop"}
    BY OpenBlocks DEF BlockType
  <2> QED
    BY <2>1 DEF ToPlace, LabelsOf
<1> QED
  BY <1>1, <1>2, <1>3

(* A break: from the loop's body on there are only numbers, and those it   *)
(* does not pop belong to the loop.                                        *)
LEMMA BreakPath ==
  ASSUME SInv, Parsing, Ruled, RulesOK, InLoop, NEW form \in Forms, MayBreak(form)
  PROVE  /\ Own(VarsAt(LevelIn(form))) = {} /\ LevelIn(form) \in Nat
         /\ Loop.kind = "for" => Below(LevelIn(form)) = Below(Loop.level)
         /\ Loop.kind = "loop" => /\ Below(LevelIn(form)) = Below(Loop.level + 1)
                                  /\ Own(Below(LevelIn(form))) = Own(Below(Loop.level))
<1>1. PICK M \in Nat, L \in Nat : M = LevelIn(form) /\ L = Loop.level /\ L <= M
  <2>1. LevelIn(form) \in Nat /\ BlockLevel <= LevelIn(form) /\ BlockLevel \in Nat
    BY FormLevel
  <2>2. Loop.level \in Nat /\ Loop.level <= BlockLevel
    BY InnermostLoop
  <2> QED
    BY <2>1, <2>2
<1>2. LeftOnStack(form) = {} /\ PoppedTwice(form) = {} /\ LoopStrings = {}
  BY DEF MayBreak, May, Ruled
<1>3. \A v \in varDefs : v.level \in Nat /\ v.kind \in {"int", "str", "iter"}
  BY BlockFacts DEF Dense, VarType
<1>4. ASSUME NEW v \in varDefs, v.level >= L
      PROVE  v.kind = "int"
  <2>1. v.kind # "str"
    BY <1>1, <1>2, <1>4 DEF LoopStrings
  <2>2. v.kind # "iter"
    <3> SUFFICES ASSUME v.kind = "iter"
                 PROVE  FALSE
      OBVIOUS
    <3>1. PICK i \in DOMAIN blocks : blocks[i].kind = "for" /\ v.level = blocks[i].level - 1
      BY DEF RulesOK
    <3>2. blocks[i].level <= L /\ blocks[i].level \in Nat
      BY <3>1, <1>1, InnermostLoop, BlockFacts DEF BlockType
    <3> QED
      BY <3>1, <3>2, <1>1, <1>4
  <2> QED
    BY <2>1, <2>2, <1>3
<1>5. Own(VarsAt(M)) = {}
  <2>1. \A v \in VarsAt(M) : v.kind = "int"
    BY <1>1, <1>3, <1>4 DEF VarsAt
  <2> QED
    BY <2>1 DEF Own, Owning
<1>6. CASE Loop.kind = "for"
  <2>1. \A v \in varDefs : v.level < M => v.level < L
    BY <1>1, <1>2, <1>3, <1>6 DEF LeftOnStack
  <2>2. Below(M) = Below(L)
    BY <2>1, <1>1, <1>3 DEF Below, Under
  <2> QED
    BY <2>2, <1>1, <1>5, <1>6
<1>7. CASE Loop.kind = "loop"
  <2>3. Below(M) = Below(L + 1)
    <3>1. CASE L < M
      <4>1. \A v \in varDefs : v.level < M => v.level < L + 1
        BY <3>1, <1>1, <1>2, <1>3, <1>7 DEF LeftOnStack
      <4> QED
        BY <4>1, <3>1, <1>1, <1>3 DEF Below, Under
    <3>2. CASE L = M
      <4>1. \A v \in varDefs : v.level # L
        BY <3>2, <1>1, <1>2, <1>3, <1>7 DEF PoppedTwice
      <4> QED
        BY <4>1, <3>2, <1>1, <1>3 DEF Below, Under
    <3> QED
      BY <3>1, <3>2, <1>1
  <2>4. Owning(Below(M)) = Owning(Below(L))
    BY <1>1, <1>3, <1>4 DEF Owning, Below, Under
  <2> QED
    BY <2>3, <2>4, <1>1, <1>5, <1>7 DEF Own
<1> QED
  BY <1>6, <1>7, InnermostLoop

LEMMA BreakRuled ==
  ASSUME SInv, Ruled, RulesOK, NEW B, Annotated(B), NEW form \in Forms, Break(form)
  PROVE  RulesOK' /\ \E C : Annotated(C)'
<1>1. /\ Parsing /\ InLoop /\ MayBreak(form) /\ varDefs' = varDefs /\ early' = early
      /\ Guarded(form, <<Mark(1)>> \o FreeBlockVarsNoDelete(LevelIn(form)) \o <<Jump(Loop.break)>>)
      /\ blocks' = [blocks EXCEPT ![InnermostAt].broken = TRUE]
  BY DEF Break, Statement
<1>2. PICK p, b : p = InnermostAt /\ b = blocks[p]
  OBVIOUS
<1>3. p \in DOMAIN blocks /\ Loop = b /\ b \in BlockType /\ b.kind \in {"for", "loop"}
  BY <1>1, <1>2, InnermostLoop, BlockFacts
<1>4. PICK M \in Nat, L \in Nat, h \in Nat, l \in Nat :
        M = LevelIn(form) /\ L = b.level /\ h = b.break /\ l = labels + 1
  <2>1. LevelIn(form) \in Nat
    BY <1>1, BreakPath
  <2>2. b.level \in Nat /\ b.break \in Nat
    BY <1>3 DEF BlockType
  <2>3. labels + 1 \in Nat
    BY <1>1, BlockFacts
  <2> QED
    BY <2>1, <2>2, <2>3
<1>5. /\ h \in 1 .. labels /\ b.start \in 1 .. labels /\ b.exit \in 1 .. labels /\ h # b.exit
      /\ b.kind = "loop" => h \in Unplaced /\ h # b.start
      /\ b.kind = "for" => h = b.start
  BY <1>1, <1>3, <1>4, InnermostLoop
<1>6. DOMAIN blocks' = DOMAIN blocks /\ \A i \in DOMAIN blocks : i # p => blocks'[i] = blocks[i]
  BY <1>1, <1>2 DEF SInv, BlocksOK
<1>7. PICK e : e = blocks'[p]
  OBVIOUS
<1>8. /\ e.kind = b.kind /\ e.level = b.level /\ e.start = b.start /\ e.exit = b.exit /\ e.break = b.break
      /\ e.broken = TRUE
  <2>1. e = [b EXCEPT !.broken = TRUE]
    BY <1>1, <1>2, <1>3, <1>7 DEF SInv, BlocksOK
  <2> QED
    BY <2>1, <1>3 DEF BlockType
<1>9. \A i \in DOMAIN blocks : blocks'[i].kind = blocks[i].kind /\ blocks'[i].level = blocks[i].level
  BY <1>2, <1>6, <1>7, <1>8
<1>10. RulesOK'
  BY <1>1, <1>6, <1>9 DEF RulesOK
<1>11. /\ B \in [Nat -> Shape] /\ LabelsFit(b, varDefs, early, B)
       /\ labels \in Nat /\ Dense(varDefs)
  BY <1>1, <1>2, <1>3, BlockFacts DEF Annotated
<1>12. PICK s : s = ShapeOf(varDefs, {"ok"})
  OBVIOUS
<1>13. PICK x : x = IF b.kind = "loop" THEN BreakShape(e, varDefs) ELSE B[h]
  OBVIOUS
<1>14. Dense(Below(L)) /\ Dense(Below(L + 1)) /\ Dense(Below(M))
  <2>1. L + 1 \in Nat
    BY <1>4
  <2>2. \A N \in Nat : Dense(Under(varDefs, N))
    BY <1>11, DenseFacts
  <2> QED
    BY <2>1, <2>2, <1>4 DEF Below
<1>15. s \in Shape /\ x \in Shape
  <2>1. b.kind = "loop" => BreakShape(e, varDefs) = ShapeIs(Own(Below(L)), Cardinality(Below(L + 1)), {"broken"})
    BY <1>4, <1>8 DEF BreakShape, Below
  <2>2. ShapeIs(Own(Below(L)), Cardinality(Below(L + 1)), {"broken"}) \in Shape
    BY <1>14, OwnTypes, ShapeTypes DEF Modes
  <2> QED
    BY <2>1, <2>2, <1>11, <1>12, <1>13, OwnTypes DEF Modes
<1>16. PICK C \in [Nat -> Shape] : C = [B EXCEPT ![h] = x, ![l] = s]
  BY <1>11, <1>15
<1>17. C[h] = x /\ C[l] = s /\ \A j \in 0 .. labels : j # h => C[j] = B[j]
  <2>1. h # l /\ \A j \in 0 .. labels : j \in Nat /\ j # l
    BY <1>4, <1>5, <1>11
  <2> QED
    BY <2>1, <1>11, <1>16
<1>18. Into(B[h], x) /\ (b.kind = "for" => x = B[h])
  <2>1. CASE b.kind = "for"
    BY <2>1, <1>11, <1>13, IntoSame
  <2>2. CASE b.kind = "loop"
    <3>1. B[h] = BreakShape(b, varDefs) /\ x = BreakShape(e, varDefs)
      BY <2>2, <1>4, <1>11, <1>13 DEF LabelsFit
    <3>2. b.broken => B[h] = x
      BY <3>1, <1>8 DEF BreakShape
    <3>3. ~b.broken => B[h] = Dead
      BY <3>1 DEF BreakShape
    <3>4. Into(Dead, x)
      BY DEF Into, Dead, ShapeIs
    <3> QED
      BY <2>2, <3>2, <3>3, <3>4, <1>15, IntoSame
  <2> QED
    BY <2>1, <2>2, <1>3
<1>19. Widened(code, B, C)
  <2>1. \A j \in 0 .. labels : C[j] = B[j] \/ (j \in Unplaced /\ Into(B[j], C[j]))
    BY <1>3, <1>5, <1>17, <1>18
  <2> QED
    BY <2>1, <1>11, Widening
<1>20. ASSUME NEW i \in DOMAIN blocks'
       PROVE  LabelsFit(blocks'[i], varDefs', early', C)
  <2>1. CASE i # p
    <3>1. i \in DOMAIN blocks /\ blocks'[i] = blocks[i]
      BY <2>1, <1>6
    <3>2. \A j \in LabelsOf(blocks[i]) \cup ToPlace(blocks[i]) : C[j] = B[j]
      <4>1. b.kind = "loop" => h \in LabelsOf(b)
        BY <1>4 DEF LabelsOf
      <4>2. b.kind = "for" => h \in LabelsOf(b)
        BY <1>5 DEF LabelsOf
      <4>3. h \notin LabelsOf(blocks[i]) \cup ToPlace(blocks[i])
        BY <4>1, <4>2, <3>1, <2>1, <1>2, <1>3, LabelsApart
      <4>4. LabelsOf(blocks[i]) \cup ToPlace(blocks[i]) \subseteq 0 .. labels
        BY <3>1, <1>1, BlockFacts
      <4> QED
        BY <4>3, <4>4, <1>17
    <3>3. LabelsFit(blocks[i], varDefs, early, C)
      BY <3>1, <3>2, <1>1, OthersKept
    <3> QED
      BY <3>1, <3>3, <1>1
  <2>2. CASE i = p
    <3>1. 0 .. labels = {0} \cup 1 .. labels
      BY <1>11
    <3>2. C[b.exit] = B[b.exit] /\ C[b.start] = B[b.start]
      BY <3>1, <1>3, <1>5, <1>17, <1>18
    <3>3. b.kind = "loop" => C[b.break] = BreakShape(e, varDefs)
      BY <1>4, <1>13, <1>17
    <3>4. Ends(e, varDefs, early) = Ends(b, varDefs, early)
      BY <1>8 DEF Ends, CanReturn
    <3>5. LabelsFit(e, varDefs, early, C)
      BY <3>2, <3>3, <3>4, <1>3, <1>8, <1>11 DEF LabelsFit
    <3> QED
      BY <2>2, <3>5, <1>1, <1>7
  <2> QED
    BY <2>1, <2>2
<1>21. PICK f, a, d : f = FreeBlockVarsNoDelete(M) /\ a = Mark(1) /\ d = <<a>> \o f \o <<Jump(h)>>
  OBVIOUS
<1>22. a \in Emitted /\ a.op = "mark" /\ ModeOf(a) = "broken"
  BY <1>21 DEF Mark, Emitted, ModeOf
<1>23. PICK y, t : y = ShapeOf(varDefs, {"broken"}) /\ t = ShapeOf(Below(M), {"broken"})
  OBVIOUS
<1>24. y \in Shape /\ t \in Shape /\ f \in Seq(Emitted) /\ Path(f, y, t, C)
  <2>1. {"broken"} \in SUBSET Modes /\ "over" \notin {"broken"}
    BY DEF Modes
  <2>2. Own(VarsAt(M)) = {}
    BY <1>1, <1>4, BreakPath
  <2> QED
    BY <2>1, <2>2, <1>1, <1>21, <1>23, PathBlockVars
<1>25. Into(t, C[h])
  <2>1. CASE b.kind = "for"
    <3>1. C[h] = ShapeOf(Below(L), {"ok", "broken"}) /\ Below(M) = Below(L)
      BY <2>1, <1>1, <1>3, <1>4, <1>5, <1>11, <1>17, <1>18, BreakPath DEF LabelsFit, Below
    <3> QED
      BY <3>1, <1>23 DEF Into, Becomes, ShapeOf, ShapeIs
  <2>2. CASE b.kind = "loop"
    <3>1. Below(M) = Below(L + 1) /\ Own(Below(M)) = Own(Below(L))
      BY <2>2, <1>1, <1>3, <1>4, BreakPath
    <3>2. C[h] = ShapeIs(Own(Below(L)), Cardinality(Below(L + 1)), {"broken"})
      BY <2>2, <1>4, <1>8, <1>13, <1>17 DEF BreakShape, Below
    <3>3. C[h] = t
      BY <3>1, <3>2, <1>23 DEF ShapeOf
    <3> QED
      BY <3>3, <1>24, IntoSame
  <2> QED
    BY <2>1, <2>2, <1>3
<1>26. <<a>> \in Seq(Emitted) /\ d \in Seq(Emitted)
       /\ \A m \in {"ok", "failing"} : Path(d, ShapeOf(varDefs, {m}), s, C)
  <2>1. PICK c0, c1 : c0 = <<a>> /\ c1 = c0 \o f
    OBVIOUS
  <2>2. c0 \in Seq(Emitted)
    BY <2>1, <1>22, SeqOne
  <2>3. c1 \in Seq(Emitted)
    BY <2>1, <2>2, <1>24, EmittedConcat
  <2>4. ASSUME NEW m \in {"ok", "failing"}
        PROVE  Path(c1, ShapeOf(varDefs, {m}), t, C)
    <3>1. PICK own, k : own = Own(varDefs) /\ k = Cardinality(varDefs)
      OBVIOUS
    <3>2. own \in SUBSET Slot /\ k \in Nat
      BY <3>1, <1>11, OwnTypes
    <3>3. Flows(a, ShapeIs(own, k, {m}), ShapeIs(own, k, {"broken"}), C)
      BY <3>2, <1>22, FlowsMarked
    <3>4. ShapeOf(varDefs, {m}) \in Shape
      BY <1>11, OwnTypes DEF Modes
    <3>5. Flows(a, ShapeOf(varDefs, {m}), y, C)
      BY <3>1, <3>3, <1>23 DEF ShapeOf
    <3>6. Path(c0, ShapeOf(varDefs, {m}), y, C)
      BY <3>4, <3>5, <2>1, <1>24, PathOne
    <3> QED
      BY <3>6, <2>1, <2>2, <1>24, PathJoin
  <2>5. d = c1 \o <<Jump(h)>>
    BY <2>1, <1>21
  <2>6. \A m \in {"ok", "failing"} : Path(d, ShapeOf(varDefs, {m}), s, C)
    BY <2>3, <2>4, <2>5, <1>15, <1>24, <1>25, PathJump
  <2>7. d \in Seq(Emitted)
    <3>1. PICK j \in Seq(Emitted) : j = <<Jump(h)>>
      BY JumpType, SeqOne
    <3> QED
      BY <3>1, <2>3, <2>5, EmittedConcat
  <2> QED
    BY <2>1, <2>2, <2>6, <2>7
<1>27. Guarded(form, d)
  BY <1>1, <1>3, <1>4, <1>21
<1>28. Annotated(C)'
  <2>1. /\ Dense(varDefs') /\ C[labels + 1] = ShapeOf(varDefs, {"ok"}) /\ varDefs' = varDefs
        /\ s = ShapeOf(varDefs', {"ok"})
    BY <1>1, <1>4, <1>11, <1>12, <1>17
  <2>2. \A m \in {"ok", "failing"} : Path(d, ShapeOf(varDefs, {m}), ShapeOf(varDefs', {"ok"}), C)
    BY <2>1, <1>26
  <2> QED
    BY <2>1, <2>2, <1>1, <1>19, <1>20, <1>26, <1>27, JumpRuled
<1> QED
  BY <1>10, <1>28

LEMMA JoinOnes ==
  ASSUME NEW a \in Emitted, NEW b \in Emitted
  PROVE  <<a>> \o <<b>> = <<a, b>>
<1>1. PICK d \in Seq(Emitted), e \in Seq(Emitted), f \in Seq(Emitted) : d = <<a>> /\ e = <<b>> /\ f = <<a, b>>
  BY SeqOne, SeqTwo
<1>2. Len(d) = 1 /\ d[1] = a /\ Len(e) = 1 /\ e[1] = b /\ Len(f) = 2 /\ f[1] = a /\ f[2] = b
  BY <1>1
<1>3. PICK h \in Seq(Emitted) : h = d \o e
  BY <1>1, EmittedConcat
<1>4. Len(h) = 2 /\ h[1] = a /\ h[2] = b
  <2>1. /\ Len(h) = Len(d) + Len(e)
        /\ \A i \in 1 .. Len(d) + Len(e) : h[i] = IF i <= Len(d) THEN d[i] ELSE e[i - Len(d)]
    BY <1>1, <1>3, ConcatProperties
  <2> QED
    BY <2>1, <1>2
<1>5. h = f
  BY <1>2, <1>3, <1>4
<1> QED
  BY <1>1, <1>3, <1>5

LEMMA JoinTwoOne ==
  ASSUME NEW a \in Emitted, NEW b \in Emitted, NEW c \in Emitted
  PROVE  <<a, b>> \o <<c>> = <<a, b, c>>
<1>1. PICK d \in Seq(Emitted), e \in Seq(Emitted), f \in Seq(Emitted) : d = <<a, b>> /\ e = <<c>> /\ f = <<a, b, c>>
  BY SeqOne, SeqTwo, SeqThree
<1>2. /\ Len(d) = 2 /\ d[1] = a /\ d[2] = b /\ Len(e) = 1 /\ e[1] = c
      /\ Len(f) = 3 /\ f[1] = a /\ f[2] = b /\ f[3] = c
  BY <1>1
<1>3. PICK h \in Seq(Emitted) : h = d \o e
  BY <1>1, EmittedConcat
<1>4. Len(h) = 3 /\ h[1] = a /\ h[2] = b /\ h[3] = c
  <2>1. /\ Len(h) = Len(d) + Len(e)
        /\ \A i \in 1 .. Len(d) + Len(e) : h[i] = IF i <= Len(d) THEN d[i] ELSE e[i - Len(d)]
    BY <1>1, <1>3, ConcatProperties
  <2> QED
    BY <2>1, <1>2
<1>5. h = f
  BY <1>2, <1>3, <1>4
<1> QED
  BY <1>1, <1>3, <1>5

LEMMA AppendThree ==
  ASSUME NEW f \in Seq(Emitted), NEW a \in Emitted, NEW b \in Emitted, NEW c \in Emitted
  PROVE  f \o <<a, b, c>> = f \o <<a>> \o <<b>> \o <<c>>
<1>1. PICK d \in Seq(Emitted), e \in Seq(Emitted) : d = <<a, b>> /\ e = <<c>>
  BY SeqOne, SeqTwo
<1>2. f \o (d \o e) = f \o d \o e
  BY RegroupThree
<1>3. d \o e = <<a, b, c>> /\ f \o d = f \o <<a>> \o <<b>>
  BY <1>1, JoinTwoOne, AppendTwo
<1> QED
  BY <1>1, <1>2, <1>3

(* The first return or fail: from now on the return label and the labels   *)
(* behind the for loops are reached with its mark.                         *)
LEMMA EarlyRaised ==
  ASSUME SInv, Parsing, NEW B, Annotated(B), NEW ws, Dense(ws),
         \A L \in Nat : L <= BlockLevel => Under(ws, L) = Under(varDefs, L),
         BlockLevel = 1 \/ Block.kind = "loop" => ws = varDefs,
         NEW s \in Shape
  PROVE  \E C \in [Nat -> Shape] :
           /\ Widened(code, B, C) /\ C[labels + 1] = s
           /\ \A i \in DOMAIN blocks : LabelsFit(blocks[i], ws, TRUE, C)
<1>1. /\ B \in [Nat -> Shape] /\ labels \in Nat /\ BlockLevel \in Nat /\ early \in BOOLEAN /\ Dense(varDefs)
      /\ \A i \in DOMAIN blocks : LabelsFit(blocks[i], varDefs, early, B)
  BY BlockFacts DEF Annotated
<1>2. PICK r : r = ReturnShape(ws, TRUE)
  OBVIOUS
<1>3. \A L \in Nat : Dense(Under(ws, L))
  BY DenseFacts
<1>4. r \in Shape
  <2>1. PICK L \in Nat : L = 2
    OBVIOUS
  <2>2. Own(Under(ws, L)) \in SUBSET Slot /\ {"over"} \in SUBSET Modes
    BY <1>3, <2>1, OwnTypes DEF Modes
  <2>3. ShapeIs(Own(Under(ws, L)), 0, {"over"}) \in Shape
    BY <2>2, ShapeTypes
  <2> QED
    BY <1>2, <2>1, <2>3 DEF ReturnShape
<1> DEFINE Fors == {i \in DOMAIN blocks : blocks[i].kind = "for"}
           End(i) == ShapeOf(Under(ws, blocks[i].level), Ends(blocks[i], ws, TRUE))
           At1(j) == CHOOSE i \in Fors : blocks[i].exit = j
           C == [j \in Nat |-> IF j = labels + 1 THEN s
                               ELSE IF j = 0 THEN r
                               ELSE IF \E i \in Fors : blocks[i].exit = j THEN End(At1(j))
                               ELSE B[j]]
<1>5. \A i \in Fors : i \in DOMAIN blocks /\ blocks[i].kind = "for"
  OBVIOUS
<1>6. ASSUME NEW i \in Fors
      PROVE  /\ End(i) \in Shape /\ blocks[i].exit \in 1 .. labels /\ blocks[i].exit \in Unplaced
             /\ At1(blocks[i].exit) = i
             /\ Into(B[blocks[i].exit], End(i))
  <2>1. PICK b \in BlockType : b = blocks[i]
    BY <1>5, BlockFacts
  <2>2. b.level \in Nat /\ b.kind = "for" /\ b.level >= 3 /\ b.level <= BlockLevel
    BY <1>5, <2>1, BlockFacts DEF BlockType
  <2>3. PICK us, e : us = Under(ws, b.level) /\ e = Ends(b, ws, TRUE)
    OBVIOUS
  <2>4. e \in SUBSET Modes
    BY <2>3 DEF Ends, Modes
  <2>5. End(i) \in Shape /\ End(i) = ShapeOf(us, e)
    BY <2>1, <2>2, <2>3, <2>4, <1>3, OwnTypes
  <2>6. b.exit \in LabelsOf(b) /\ b.exit \in ToPlace(b)
    BY <2>2 DEF LabelsOf, ToPlace
  <2>7. b.exit \in 1 .. labels /\ b.exit \in Unplaced
    BY <1>5, <2>1, <2>6, UnplacedLabels DEF SInv, BlockLabelsOK
  <2>8. \A j \in Fors : blocks[j].exit = b.exit => j = i
    <3> SUFFICES ASSUME NEW j \in Fors, j # i, blocks[j].exit = b.exit
                 PROVE  FALSE
      OBVIOUS
    <3>1. blocks[j].exit \in LabelsOf(blocks[j])
      BY <1>5 DEF LabelsOf
    <3>2. b.exit \notin LabelsOf(blocks[j])
      BY <1>5, <2>1, <2>6, LabelsApart
    <3> QED
      BY <3>1, <3>2
  <2>9. At1(b.exit) = i
    BY <2>1, <2>8
  <2>10. us = Under(varDefs, b.level) /\ Under(ws, 2) = Under(varDefs, 2)
         /\ Under(ws, b.level - 1) = Under(varDefs, b.level - 1)
    <3>1. 2 \in Nat /\ 2 <= BlockLevel /\ b.level - 1 \in Nat /\ b.level - 1 <= BlockLevel
      BY <2>2, <1>1
    <3> QED
      BY <3>1, <2>2, <2>3
  <2>11. PICK f : f = Ends(b, varDefs, early)
    OBVIOUS
  <2>12. f \subseteq e /\ e \subseteq {"broken", "returning"}
    BY <2>3, <2>10, <2>11 DEF Ends, CanReturn
  <2>13. B[b.exit] = ShapeOf(us, f)
    BY <1>1, <1>5, <2>1, <2>2, <2>10, <2>11 DEF LabelsFit
  <2>14. Cardinality(us) \in Nat
    BY <1>3, <2>2, <2>3, OwnTypes
  <2>15. Into(ShapeOf(us, f), ShapeOf(us, e))
    BY <2>12, <2>14 DEF Into, Becomes, ShapeOf, ShapeIs
  <2> QED
    BY <2>1, <2>5, <2>7, <2>9, <2>13, <2>15
<1> HIDE DEF Fors, End, At1
<1>7. C \in [Nat -> Shape]
  <2> SUFFICES ASSUME NEW j \in Nat
               PROVE  C[j] \in Shape
    OBVIOUS
  <2>1. CASE \E i \in Fors : blocks[i].exit = j
    <3>1. PICK i \in Fors : blocks[i].exit = j
      BY <2>1
    <3>2. At1(j) = i
      BY <1>6, <3>1
    <3>3. End(At1(j)) \in Shape
      BY <1>6, <3>2
    <3> QED
      BY <3>3, <1>1, <1>4
  <2>2. CASE ~ \E i \in Fors : blocks[i].exit = j
    BY <2>2, <1>1, <1>4
  <2> QED
    BY <2>1, <2>2
<1>8. /\ C[labels + 1] = s /\ C[0] = r
      /\ \A i \in Fors : C[blocks[i].exit] = End(i)
      /\ \A j \in 1 .. labels : (\A i \in Fors : blocks[i].exit # j) => C[j] = B[j]
  <2>1. C[labels + 1] = s /\ C[0] = r
    BY <1>1
  <2>2. ASSUME NEW i \in Fors
        PROVE  C[blocks[i].exit] = End(i)
    <3>1. PICK j \in Nat : j = blocks[i].exit /\ j # labels + 1 /\ j # 0
      BY <1>1, <1>6
    <3>2. C[j] = End(At1(j))
      BY <3>1
    <3> QED
      BY <3>1, <3>2, <1>6
  <2>3. ASSUME NEW j \in 1 .. labels, \A i \in Fors : blocks[i].exit # j
        PROVE  C[j] = B[j]
    BY <2>3, <1>1
  <2> QED
    BY <2>1, <2>2, <2>3
<1> HIDE DEF C
<1>9. Under(ws, 2) = Under(varDefs, 2)
  <2>1. CASE BlockLevel = 1
    BY <2>1
  <2>2. CASE BlockLevel # 1
    <3>1. 2 \in Nat /\ 2 <= BlockLevel
      BY <2>2, <1>1, BlockFacts
    <3> QED
      BY <3>1
  <2> QED
    BY <2>1, <2>2
<1>10. Widened(code, B, C)
  <2>1. ASSUME NEW l \in 0 .. labels
        PROVE  C[l] = B[l] \/ (l \in Unplaced /\ Into(B[l], C[l]))
    <3>1. CASE l = 0
      <4>1. B[0] = ReturnShape(varDefs, early) /\ C[0] = ReturnShape(ws, TRUE)
        BY <1>2, <1>8, ReturnLabelShape DEF ReturnLabel
      <4>2. early => B[0] = C[0]
        BY <4>1, <1>9 DEF ReturnShape
      <4>3. ~early => B[0] = Dead
        BY <4>1 DEF ReturnShape
      <4>4. Into(Dead, C[0])
        BY DEF Into, Dead, ShapeIs
      <4> QED
        BY <3>1, <4>2, <4>3, <4>4, UnplacedLabels DEF ReturnLabel
    <3>2. CASE \E i \in Fors : blocks[i].exit = l
      BY <3>2, <1>6, <1>8
    <3>3. CASE l # 0 /\ ~ \E i \in Fors : blocks[i].exit = l
      <4>1. l \in 1 .. labels
        BY <3>3, <1>1
      <4> QED
        BY <4>1, <3>3, <1>8
    <3> QED
      BY <3>1, <3>2, <3>3
  <2> QED
    BY <2>1, <1>1, <1>7, Widening
<1>11. ASSUME NEW i \in DOMAIN blocks
       PROVE  LabelsFit(blocks[i], ws, TRUE, C)
  <2>1. PICK b \in BlockType : b = blocks[i]
    BY BlockFacts
  <2>2. LabelsFit(b, varDefs, early, B) /\ LabelsOf(b) \subseteq 1 .. labels
    BY <1>1, <2>1 DEF SInv, BlockLabelsOK
  <2>3. b.level \in Nat /\ b.level <= BlockLevel /\ b.kind \in {"function", "if", "for", "loop"}
    BY <2>1, BlockFacts DEF BlockType
  <2>4. Under(ws, b.level) = Under(varDefs, b.level)
    BY <2>3
  <2>5. \A l \in LabelsOf(b) : b.kind # "for" \/ l # b.exit => C[l] = B[l]
    <3> SUFFICES ASSUME NEW l \in LabelsOf(b), b.kind # "for" \/ l # b.exit
                 PROVE  C[l] = B[l]
      OBVIOUS
    <3>1. ASSUME NEW j \in Fors, blocks[j].exit = l
          PROVE  FALSE
      <4>1. j # i
        BY <3>1, <2>1, <1>5 DEF Fors
      <4>2. blocks[j].exit \in LabelsOf(blocks[j]) /\ j \in DOMAIN blocks
        BY <3>1 DEF LabelsOf, Fors
      <4>3. l \notin LabelsOf(blocks[j])
        BY <2>1, <4>1, <4>2, LabelsApart
      <4> QED
        BY <3>1, <4>2, <4>3
    <3> QED
      BY <3>1, <1>8, <2>2
  <2>6. CASE b.kind = "function"
    BY <2>1, <2>6, <1>2, <1>8 DEF LabelsFit, ReturnLabel
  <2>7. CASE b.kind = "if"
    <3>1. b.exit \in LabelsOf(b)
      BY <2>7 DEF LabelsOf
    <3> QED
      BY <3>1, <2>1, <2>2, <2>4, <2>5, <2>7 DEF LabelsFit
  <2>8. CASE b.kind = "for"
    <3>1. b.start \in LabelsOf(b) /\ b.start # b.exit
      BY <2>1, <2>8 DEF LabelsOf, SInv, BlockLabelsOK
    <3>2. C[b.start] = B[b.start]
      BY <3>1, <2>5
    <3>3. C[b.exit] = End(i)
      BY <1>8, <2>1, <2>8 DEF Fors
    <3>4. End(i) = ShapeOf(Under(ws, b.level), Ends(b, ws, TRUE))
      BY <2>1 DEF End
    <3> QED
      BY <3>2, <3>3, <3>4, <2>1, <2>2, <2>4, <2>8 DEF LabelsFit
  <2>9. CASE b.kind = "loop"
    <3>1. b.start \in LabelsOf(b) /\ b.exit \in LabelsOf(b) /\ b.break \in LabelsOf(b)
      BY <2>9 DEF LabelsOf
    <3>2. C[b.start] = B[b.start] /\ C[b.exit] = B[b.exit] /\ C[b.break] = B[b.break]
      BY <3>1, <2>5, <2>9
    <3>3. Under(ws, b.level + 1) = Under(varDefs, b.level + 1)
      <4>1. CASE i = Len(blocks)
        BY <4>1, <2>1, <2>9 DEF Block
      <4>2. CASE i # Len(blocks)
        <5>1. b.level # BlockLevel
          BY <4>2, <2>1, BlockFacts
        <5>2. b.level + 1 \in Nat /\ b.level + 1 <= BlockLevel
          BY <5>1, <2>3, <1>1
        <5> QED
          BY <5>2
      <4> QED
        BY <4>1, <4>2
    <3>4. BreakShape(b, ws) = BreakShape(b, varDefs)
      BY <3>3, <2>4 DEF BreakShape
    <3> QED
      BY <3>2, <3>4, <2>1, <2>2, <2>4, <2>9 DEF LabelsFit
  <2> QED
    BY <2>3, <2>6, <2>7, <2>8, <2>9
<1> QED
  BY <1>7, <1>8, <1>10, <1>11

LEMMA ParseFailRuled ==
  ASSUME SInv, Ruled, RulesOK, NEW B, Annotated(B), NEW form \in Forms, NEW k \in Codes, ParseFail(form, k)
  PROVE  RulesOK' /\ \E C : Annotated(C)'
<1>1. /\ Parsing /\ MayFail /\ varDefs' = varDefs /\ blocks' = blocks /\ early' = TRUE
      /\ Guarded(form, <<Mark(k), Jump(ReturnLabel)>>)
  BY DEF ParseFail, Statement
<1>2. RulesOK'
  BY <1>1 DEF RulesOK
<1>3. Dense(varDefs) /\ labels \in Nat /\ \A v \in varDefs : v.level \in Nat
  BY <1>1, BlockFacts
<1>4. PICK s \in Shape : s = ShapeOf(varDefs, {"ok"})
  BY <1>3, OwnTypes DEF Modes
<1>5. PICK C \in [Nat -> Shape] :
        /\ Widened(code, B, C) /\ C[labels + 1] = s
        /\ \A i \in DOMAIN blocks : LabelsFit(blocks[i], varDefs, TRUE, C)
  BY <1>1, <1>3, EarlyRaised
<1>6. PICK own, n, us : own = Own(varDefs) /\ n = Cardinality(varDefs) /\ us = Under(varDefs, 2)
  OBVIOUS
<1>7. own \in SUBSET Slot /\ n \in Nat /\ own = Own(us)
  <2>1. varDefs \ us = VarsAt(2)
    BY <1>3, <1>6 DEF Under, VarsAt
  <2>2. Own(varDefs \ us) = {}
    BY <1>1, <2>1 DEF MayFail, May, Ruled, Own
  <2>3. PICK L \in Nat : L = 2
    OBVIOUS
  <2>4. Own(Under(varDefs, L)) = Own(varDefs) \ Own(varDefs \ Under(varDefs, L))
    BY <1>3, OwnSplit
  <2> QED
    BY <2>2, <2>3, <2>4, <1>3, <1>6, OwnTypes
<1>8. C[0] = ShapeIs(own, 0, {"over"})
  <2>1. 1 \in DOMAIN blocks /\ blocks[1].kind = "function"
    BY <1>1, BlockFacts DEF SInv, BlocksOK
  <2> QED
    BY <2>1, <1>5, <1>6, <1>7 DEF LabelsFit, ReturnShape, ReturnLabel
<1>9. PICK a, f : a = Mark(k) /\ f = ShapeIs(own, n, {"failing"})
  OBVIOUS
<1>10. a \in Emitted /\ a.op = "mark" /\ ModeOf(a) = "failing" /\ f \in Shape
  <2>1. k \in Nat /\ k # 1 /\ k # 2
    BY LoopAssumption
  <2>2. f \in Shape
    BY <1>7, <1>9, ShapeTypes DEF Modes
  <2> QED
    BY <2>1, <2>2, <1>9 DEF Mark, Emitted, ModeOf
<1>11. PICK z, c, d : c = <<a>> /\ z \in Nat /\ z = 0 /\ d = c \o <<Jump(z)>>
  OBVIOUS
<1>12. c \in Seq(Emitted)
  BY <1>10, <1>11, SeqOne
<1>13. Into(f, C[z])
  BY <1>8, <1>9, <1>11 DEF Into, Becomes, ShapeIs
<1>14. ASSUME NEW m \in {"ok", "failing"}
       PROVE  d \in Seq(Emitted) /\ Path(d, ShapeOf(varDefs, {m}), s, C)
  <2>1. Flows(a, ShapeIs(own, n, {m}), ShapeIs(own, n, {"failing"}), C)
    BY <1>7, <1>10, FlowsMarked
  <2>2. ShapeOf(varDefs, {m}) \in Shape
    BY <1>3, OwnTypes DEF Modes
  <2>3. Flows(a, ShapeOf(varDefs, {m}), f, C)
    BY <2>1, <1>6, <1>9 DEF ShapeOf
  <2>4. Path(c, ShapeOf(varDefs, {m}), f, C)
    BY <2>2, <2>3, <1>10, <1>11, PathOne
  <2> QED
    BY <2>4, <1>10, <1>11, <1>12, <1>13, PathJump
<1>15. Guarded(form, d)
  <2>1. PICK j \in Emitted : j = Jump(z)
    BY <1>11, JumpType
  <2>2. d = <<a, j>>
    BY <2>1, <1>10, <1>11, JoinOnes
  <2> QED
    BY <2>1, <2>2, <1>1, <1>9, <1>11 DEF ReturnLabel
<1>16. Annotated(C)'
  <2>1. /\ Dense(varDefs') /\ C[labels + 1] = ShapeOf(varDefs, {"ok"})
        /\ s = ShapeOf(varDefs', {"ok"}) /\ d \in Seq(Emitted)
        /\ \A i \in DOMAIN blocks' : LabelsFit(blocks'[i], varDefs', early', C)
    BY <1>1, <1>3, <1>4, <1>5, <1>14
  <2>2. \A m \in {"ok", "failing"} : Path(d, ShapeOf(varDefs, {m}), ShapeOf(varDefs', {"ok"}), C)
    BY <2>1, <1>14
  <2> QED
    BY <2>1, <2>2, <1>1, <1>5, <1>15, JumpRuled
<1> QED
  BY <1>2, <1>16

(* A return inside loops: what it leaves on the stack belongs to the loop  *)
(* it leaves by.                                                           *)
LEMMA ReturnPath ==
  ASSUME SInv, Parsing, Ruled, InLoop, NEW form \in Forms, MayReturn(form)
  PROVE  /\ Loop.kind = "for" /\ Block.kind # "loop" /\ BlockLevel >= 2
         /\ form # "plain" => VarsAt(LevelIn(form)) = {}
         /\ Own(Below(LevelIn(form))) = Own(Below(Loop.level))
         /\ Own(Under(Below(LevelIn(form)), Loop.level - 1)) = Own(Under(Below(LevelIn(form)), 2))
<1>1. PICK M \in Nat, L \in Nat : M = LevelIn(form) /\ L = Loop.level /\ L <= BlockLevel /\ BlockLevel <= M
  <2>1. LevelIn(form) \in Nat /\ BlockLevel <= LevelIn(form) /\ BlockLevel \in Nat
    BY FormLevel
  <2>2. Loop.level \in Nat /\ Loop.level <= BlockLevel
    BY InnermostLoop
  <2> QED
    BY <2>1, <2>2
<1>2. Loop.kind = "for" /\ LostOnReturn(form) = {} /\ (form = "if" => VarsAt(BlockLevel) = {})
  BY InnermostLoop DEF MayReturn, May, Ruled
<1>3. L >= 3 /\ BlockLevel \in Nat
  BY <1>1, <1>2, InnermostLoop, BlockFacts
<1>4. \A v \in varDefs : v.level \in Nat /\ v.level <= BlockLevel
  BY BlockFacts
<1>5. Block.kind # "loop"
  <2> SUFFICES ASSUME Block.kind = "loop"
               PROVE  FALSE
    OBVIOUS
  <2>1. PICK i \in DOMAIN blocks : i = Len(blocks) /\ blocks[i].kind = "loop" /\ blocks[i].level = BlockLevel
    BY BlockFacts DEF Block, BlockLevel
  <2>2. BlockLevel <= L
    BY <2>1, <1>1, InnermostLoop
  <2>3. InnermostAt \in DOMAIN blocks /\ Loop = blocks[InnermostAt] /\ Loop.level = BlockLevel
    BY <2>2, <1>1, <1>3, InnermostLoop
  <2>4. Loop = Block
    BY <2>3, BlockFacts DEF Block
  <2> QED
    BY <2>4, <1>2
<1>6. form # "plain" => VarsAt(M) = {}
  <2>1. form = "if" => M = BlockLevel
    BY <1>1 DEF LevelIn
  <2>2. form = "else" => M = BlockLevel + 1
    BY <1>1 DEF LevelIn
  <2>3. form = "else" => VarsAt(M) = {}
    BY <2>2, <1>3, <1>4 DEF VarsAt
  <2> QED
    BY <2>1, <2>3, <1>2 DEF Forms
<1>7. PICK ws : ws = Below(M)
  OBVIOUS
<1>8. \A v \in ws : v \in varDefs /\ v.level \in Nat /\ v.level < M
  BY <1>4, <1>7 DEF Below, Under
<1>9. \A v \in ws : v.kind # "int" /\ v.level >= 2 => v.level = L - 1
  BY <1>1, <1>2, <1>8 DEF LostOnReturn, Owning, VarsAt
<1>10. Owning(ws) = Owning(Below(L))
  <2>1. \A v \in varDefs : v.level < L => v.level < M
    BY <1>1, <1>3, <1>4
  <2>2. \A v \in ws : v.kind # "int" => v.level < L
    BY <1>3, <1>8, <1>9
  <2>3. Below(L) \subseteq ws
    BY <2>1, <1>7 DEF Below, Under
  <2>4. Owning(ws) \subseteq Below(L)
    BY <2>2, <1>8 DEF Owning, Below, Under
  <2> QED
    BY <2>3, <2>4 DEF Owning
<1>11. Owning(Under(ws, L - 1)) = Owning(Under(ws, 2))
  <2>1. \A v \in ws : v.kind # "int" => (v.level < L - 1 <=> v.level < 2)
    BY <1>3, <1>8, <1>9
  <2> QED
    BY <2>1 DEF Owning, Under
<1> QED
  BY <1>1, <1>2, <1>3, <1>5, <1>6, <1>7, <1>10, <1>11 DEF Own

LEMMA LoopReturnRuled ==
  ASSUME SInv, Ruled, RulesOK, NEW B, Annotated(B), NEW form \in Forms, Return(form), InLoop
  PROVE  RulesOK' /\ \E C : Annotated(C)'
<1>1. /\ Parsing /\ MayReturn(form) /\ blocks' = blocks /\ early' = TRUE /\ Forget(LevelIn(form))
      /\ Guarded(form, FreeBlockVars(LevelIn(form)) \o
                         <<MarkReturn(ReturnMark), Jump(Loop.exit), Jump(ReturnLabel)>>)
  BY DEF Return, Statement
<1>2. PICK M \in Nat, L \in Nat, e \in Nat, z \in Nat :
        M = LevelIn(form) /\ L = Loop.level /\ e = Loop.exit /\ z = ReturnLabel
  <2>1. LevelIn(form) \in Nat
    BY <1>1, FormLevel
  <2>2. Loop.level \in Nat
    BY <1>1, InnermostLoop
  <2>3. Loop.exit \in Nat
    BY LoopLabels
  <2>4. ReturnLabel \in Nat
    BY DEF ReturnLabel
  <2> QED
    BY <2>1, <2>2, <2>3, <2>4
<1>3. PICK ws : ws = Below(M)
  OBVIOUS
<1>4. varDefs' = ws
  BY <1>1, <1>2, <1>3, ForgetsBelow
<1>5. /\ L >= 2 /\ L <= BlockLevel /\ BlockLevel <= M /\ BlockLevel \in Nat /\ labels \in Nat
      /\ Dense(varDefs) /\ \A v \in varDefs : v.level \in Nat
  BY <1>1, <1>2, InnermostLoop, BlockFacts, FormLevel
<1>6. Dense(ws) /\ ws \subseteq varDefs
  BY <1>3, <1>5, DenseFacts DEF Below, Under
<1>7. RulesOK'
  BY <1>1, <1>4, <1>6 DEF RulesOK
<1>8. /\ Loop.kind = "for" /\ Block.kind # "loop" /\ BlockLevel # 1
      /\ form # "plain" => VarsAt(M) = {}
      /\ Own(ws) = Own(Below(L)) /\ Own(Under(ws, L - 1)) = Own(Under(ws, 2))
  BY <1>1, <1>2, <1>3, <1>5, ReturnPath
<1>9. \A N \in Nat : N <= BlockLevel => Under(ws, N) = Under(varDefs, N)
  BY <1>3, <1>5 DEF Below, Under
<1>10. PICK s \in Shape : s = ShapeOf(varDefs, {"ok"})
  BY <1>5, OwnTypes DEF Modes
<1>11. PICK C \in [Nat -> Shape] :
         /\ Widened(code, B, C) /\ C[labels + 1] = s
         /\ \A i \in DOMAIN blocks : LabelsFit(blocks[i], ws, TRUE, C)
  BY <1>1, <1>6, <1>8, <1>9, EarlyRaised
<1>12. C[e] = ShapeOf(Under(ws, L), {"broken", "returning"})
  <2>1. PICK p, b : p = InnermostAt /\ b = blocks[p]
    OBVIOUS
  <2>2. p \in DOMAIN blocks /\ Loop = b
    BY <2>1, <1>1, InnermostLoop
  <2>3. C[b.exit] = ShapeOf(Under(ws, b.level), Ends(b, ws, TRUE))
    BY <2>1, <2>2, <1>8, <1>11 DEF LabelsFit
  <2>4. Ends(b, ws, TRUE) = {"broken", "returning"}
    BY <2>2, <1>2, <1>8 DEF Ends, CanReturn
  <2> QED
    BY <2>2, <2>3, <2>4, <1>2
<1>13. PICK a, f, u : /\ a = MarkReturn(2) /\ f = FreeBlockVars(M)
                      /\ u = ShapeOf(ws, {"returning"})
  OBVIOUS
<1>14. a \in Emitted /\ a.op = "mark" /\ ModeOf(a) = "returning"
  BY <1>13 DEF MarkReturn, Emitted, ModeOf
<1>15. PICK j \in Emitted, y \in Emitted : j = Jump(e) /\ y = Jump(z)
  BY JumpType
<1>16. u \in Shape /\ Dead \in Shape
  BY <1>6, <1>13, OwnTypes, ShapeTypes DEF Modes
<1>17. Into(u, C[e])
  <2>1. PICK us, m, n : us = Under(ws, L) /\ m = Cardinality(ws) /\ n = Cardinality(us)
    OBVIOUS
  <2>2. m \in Nat /\ n \in Nat /\ n <= m
    BY <2>1, <1>6, DenseFacts
  <2>3. Own(ws) = Own(us)
    <3>1. us = Below(L)
      BY <2>1, <1>5, <1>9 DEF Below
    <3> QED
      BY <3>1, <1>8
  <2>4. u = ShapeIs(Own(ws), m, {"returning"}) /\ C[e] = ShapeIs(Own(ws), n, {"broken", "returning"})
    BY <2>1, <2>3, <1>12, <1>13 DEF ShapeOf
  <2> QED
    BY <2>2, <2>4 DEF Into, Becomes, ShapeIs
<1>18. Into(Dead, C[z])
  BY DEF Into, Dead, ShapeIs
<1>19. PICK t \in Shape : t = ShapeOf(ws, {"ok"})
  BY <1>6, OwnTypes DEF Modes
<1>20. PICK f1, f2, d : f1 = f \o <<a>> /\ f2 = f1 \o <<j>> /\ d = f2 \o <<y>>
  OBVIOUS
<1>21. ASSUME NEW m \in {"ok", "failing"}
       PROVE  d \in Seq(Emitted) /\ Path(d, ShapeOf(varDefs, {m}), t, C)
  <2>1. {m} \in SUBSET Modes /\ "over" \notin {m}
    BY DEF Modes
  <2>2. PICK v, w : v = ShapeOf(varDefs, {m}) /\ w = ShapeOf(ws, {m})
    OBVIOUS
  <2>3. w \in Shape /\ f \in Seq(Emitted) /\ Path(f, v, w, C)
    BY <2>1, <2>2, <1>1, <1>3, <1>13, PathBlockVars
  <2>4. PICK own, n : own = Own(ws) /\ n = Cardinality(ws)
    OBVIOUS
  <2>5. own \in SUBSET Slot /\ n \in Nat
    BY <2>4, <1>6, OwnTypes
  <2>6. Flows(a, ShapeIs(own, n, {m}), ShapeIs(own, n, {"returning"}), C)
    BY <2>5, <1>14, FlowsMarked
  <2>7. Flows(a, w, u, C)
    BY <2>2, <2>4, <2>6, <1>13 DEF ShapeOf
  <2>8. f1 \in Seq(Emitted) /\ Path(f1, v, u, C)
    BY <2>3, <2>7, <1>14, <1>16, <1>20, PathThen
  <2>9. f2 \in Seq(Emitted) /\ Path(f2, v, Dead, C)
    BY <2>8, <1>15, <1>16, <1>17, <1>20, PathJump
  <2>10. d \in Seq(Emitted) /\ Path(d, v, t, C)
    BY <2>9, <1>15, <1>16, <1>18, <1>20, PathJump
  <2> QED
    BY <2>2, <2>10
<1>22. d \in Seq(Emitted)
  BY <1>21
<1>23. Guarded(form, d)
  <2>1. f \in Seq(Emitted)
    <3>1. {"ok"} \in SUBSET Modes /\ "over" \notin {"ok"}
      BY DEF Modes
    <3> QED
      BY <3>1, <1>1, <1>13, PathBlockVars
  <2>2. d = f \o <<a, j, y>>
    <3>1. d = f \o <<a>> \o <<j>> \o <<y>>
      BY <1>20
    <3>2. a \in Emitted /\ j \in Emitted /\ y \in Emitted
      BY <1>14, <1>15
    <3>3. f \o <<a, j, y>> = f \o <<a>> \o <<j>> \o <<y>>
      BY <2>1, <3>2, AppendThree
    <3> QED
      BY <3>1, <3>3
  <2> QED
    BY <2>2, <1>1, <1>2, <1>13, <1>15 DEF ReturnMark
<1>24. form # "plain" => ws = varDefs
  BY <1>3, <1>5, <1>8 DEF VarsAt, Below, Under
<1>25. Annotated(C)'
  <2>1. /\ Dense(varDefs') /\ t = ShapeOf(varDefs', {"ok"})
        /\ form # "plain" => C[labels + 1] = ShapeOf(varDefs, {"ok"}) /\ varDefs' = varDefs
        /\ \A i \in DOMAIN blocks' : LabelsFit(blocks'[i], varDefs', early', C)
    BY <1>1, <1>4, <1>6, <1>10, <1>11, <1>19, <1>24
  <2>2. \A m \in {"ok", "failing"} : Path(d, ShapeOf(varDefs, {m}), ShapeOf(varDefs', {"ok"}), C)
    BY <2>1, <1>21
  <2> QED
    BY <2>1, <2>2, <1>1, <1>11, <1>22, <1>23, JumpRuled
<1> QED
  BY <1>7, <1>25

LEMMA PlainReturnRuled ==
  ASSUME SInv, Ruled, RulesOK, NEW B, Annotated(B), NEW form \in Forms, Return(form), ~InLoop
  PROVE  RulesOK' /\ \E C : Annotated(C)'
<1>1. /\ Parsing /\ MayReturn(form) /\ varDefs' = varDefs /\ blocks' = blocks /\ early' = TRUE
      /\ Guarded(form, <<Jump(ReturnLabel)>>)
  BY DEF Return, Statement
<1>2. RulesOK'
  BY <1>1 DEF RulesOK
<1>3. Dense(varDefs) /\ labels \in Nat /\ \A v \in varDefs : v.level \in Nat
  BY <1>1, BlockFacts
<1>4. PICK s \in Shape : s = ShapeOf(varDefs, {"ok"})
  BY <1>3, OwnTypes DEF Modes
<1>5. PICK C \in [Nat -> Shape] :
        /\ Widened(code, B, C) /\ C[labels + 1] = s
        /\ \A i \in DOMAIN blocks : LabelsFit(blocks[i], varDefs, TRUE, C)
  BY <1>1, <1>3, EarlyRaised
<1>6. Own(varDefs) = Own(Under(varDefs, 2))
  <2>1. varDefs \ Under(varDefs, 2) = VarsAt(2)
    BY <1>3 DEF Under, VarsAt
  <2>2. Own(varDefs \ Under(varDefs, 2)) = {}
    BY <1>1, <2>1 DEF MayReturn, LostOnReturn, May, Ruled, Own
  <2>3. PICK L \in Nat : L = 2
    OBVIOUS
  <2>4. Own(Under(varDefs, L)) = Own(varDefs) \ Own(varDefs \ Under(varDefs, L))
    BY <1>3, OwnSplit
  <2> QED
    BY <2>2, <2>3, <2>4
<1>7. PICK z, c : z \in Nat /\ z = ReturnLabel /\ c = <<>>
  BY DEF ReturnLabel
<1>8. C[z] = ShapeIs(Own(varDefs), 0, {"over"})
  <2>1. 1 \in DOMAIN blocks /\ blocks[1].kind = "function"
    BY <1>1, BlockFacts DEF SInv, BlocksOK
  <2> QED
    BY <2>1, <1>5, <1>6, <1>7 DEF LabelsFit, ReturnShape
<1>9. PICK j, d : j \in Emitted /\ j = Jump(z) /\ d = c \o <<j>>
  BY <1>7, JumpType
<1>10. c \in Seq(Emitted)
  BY <1>7, SeqNone
<1>11. ASSUME NEW m \in {"ok", "failing"}
       PROVE  d \in Seq(Emitted) /\ Path(d, ShapeOf(varDefs, {m}), s, C)
  <2>1. PICK v \in Shape : v = ShapeOf(varDefs, {m})
    BY <1>3, OwnTypes DEF Modes
  <2>2. Path(c, v, v, C)
    BY <1>7, PathNone
  <2>3. Into(v, C[z])
    BY <2>1, <1>8 DEF Into, Becomes, ShapeOf, ShapeIs
  <2>4. d \in Seq(Emitted) /\ Path(d, v, s, C)
    BY <2>2, <2>3, <1>7, <1>9, <1>10, PathJump
  <2> QED
    BY <2>1, <2>4
<1>12. d \in Seq(Emitted)
  BY <1>11
<1>13. Guarded(form, d)
  <2>1. PICK g : g = <<j>>
    OBVIOUS
  <2>2. g \in Seq(Emitted)
    BY <1>9, <2>1, SeqOne
  <2>3. c \o g = g
    BY <2>2, <1>7, ConcatEmptySeq
  <2> QED
    BY <2>1, <2>3, <1>1, <1>7, <1>9
<1>14. Annotated(C)'
  <2>1. /\ Dense(varDefs') /\ C[labels + 1] = ShapeOf(varDefs, {"ok"}) /\ varDefs' = varDefs
        /\ s = ShapeOf(varDefs', {"ok"})
        /\ \A i \in DOMAIN blocks' : LabelsFit(blocks'[i], varDefs', early', C)
    BY <1>1, <1>3, <1>4, <1>5
  <2>2. \A m \in {"ok", "failing"} : Path(d, ShapeOf(varDefs, {m}), ShapeOf(varDefs', {"ok"}), C)
    BY <2>1, <1>11
  <2> QED
    BY <2>1, <2>2, <1>1, <1>5, <1>12, <1>13, JumpRuled
<1> QED
  BY <1>2, <1>14

-----------------------------------------------------------------------------
(* The machine is in a mode and holds what the shape says.                 *)
Holds(own) ==
  /\ \A w \in own : /\ w.ofs \in 1 .. Len(stack) /\ stack[w.ofs] \in Objs
                    /\ heap[stack[w.ofs]].kind = w.kind
  /\ \A w, x \in own : stack[w.ofs] = stack[x.ofs] => w = x
  /\ \A o \in Objs : heap[o] # Unused => \E w \in own : stack[w.ofs] = o

InMode(m, n) ==
  \/ m = "ok" /\ r15 = 0 /\ depth = n /\ ~leaving
  \/ m = "failing" /\ r15 \in Codes /\ depth = n /\ ~leaving
  \/ m = "broken" /\ r15 = 1 /\ depth = n /\ ~leaving
  \/ m = "returning" /\ r15 = 2 /\ depth >= n
  \/ m = "over" /\ r15 \in {0} \cup Codes

Fits(s) == Holds(s.own) /\ \E m \in s.modes : InMode(m, s.sp)

Finish == ShapeIs({}, 0, {"over"})
Follows(A, B) ==
  /\ B \in [Nat -> Shape] /\ IsPath(A, code, Start, Finish, B)
  /\ \/ Fits(A[pc])
     \/ pc \in DOMAIN code /\ code[pc].op = "label" /\ Fits(B[code[pc].label])
  /\ fault = "none"

(* The inductive invariant of a function that keeps the rules.             *)
RInv ==
  /\ pc = 0 => RulesOK /\ \E B : Annotated(B)
  /\ pc # 0 => \E A, B : Follows(A, B)

LEMMA CloseFunctionRuled ==
  ASSUME SInv, RulesOK, NEW B, Annotated(B), CloseFunction
  PROVE  \E A : Follows(A, B)'
<1>1. /\ Parsing /\ Block.kind = "function" /\ pc' = 1 /\ UNCHANGED machine
      /\ code' = code \o <<Label(ReturnLabel)>> \o FreeBlockVars(1) \o <<Leave>>
  BY DEF CloseFunction
<1>2. PICK vs, ws : vs = varDefs /\ ws = Below(1)
  OBVIOUS
<1>3. \A v \in vs : v.level = 1
  <2>1. Len(blocks) = 1 /\ BlockLevel = 1
    BY <1>1, BlockFacts DEF SInv, BlocksOK, Block, BlockLevel
  <2> QED
    BY <2>1, <1>1, <1>2, BlockFacts
<1>4. Below(2) = vs /\ ws = {}
  BY <1>2, <1>3 DEF Below, Under
<1>5. PICK s, u : s = ShapeOf(vs, {"ok"}) /\ u = ShapeOf(vs, {"over"})
  OBVIOUS
<1>6. Dense(vs) /\ s \in Shape /\ u \in Shape /\ Finish \in Shape
  BY <1>1, <1>2, <1>5, BlockFacts, OwnTypes, ShapeTypes DEF Modes, Finish
<1>7. B \in [Nat -> Shape] /\ B[ReturnLabel] = ReturnShape(vs, early) /\ Path(code, Start, s, B)
      /\ code \in Seq(Emitted)
  BY <1>1, <1>2, <1>5, ReturnLabelShape, BlockFacts DEF Annotated
<1>8. Into(s, u) /\ Into(B[ReturnLabel], u)
  <2>1. Into(s, u)
    BY <1>5 DEF Into, Becomes, ShapeOf, ShapeIs
  <2>2. CASE early
    <3>1. PICK v : v = ShapeIs(Own(vs), 0, {"over"})
      OBVIOUS
    <3>2. B[ReturnLabel] = v
      BY <2>2, <3>1, <1>2, <1>4, <1>7 DEF ReturnShape, Below
    <3>3. Into(v, u)
      BY <3>1, <1>5 DEF Into, Becomes, ShapeOf, ShapeIs
    <3> QED
      BY <2>1, <3>2, <3>3
  <2>3. CASE ~early
    <3>1. B[ReturnLabel] = Dead
      BY <2>3, <1>7 DEF ReturnShape
    <3> QED
      BY <2>1, <3>1 DEF Into, Dead, ShapeIs
  <2> QED
    BY <2>2, <2>3
<1>9. PICK a \in Emitted, z \in Emitted : a = Label(ReturnLabel) /\ z = Leave /\ z.op = "leave"
  <2>1. Leave \in Emitted /\ Leave.op = "leave"
    BY DEF Leave, Emitted
  <2> QED
    BY <2>1, LabelType DEF ReturnLabel
<1>10. PICK g : g = FreeBlockVars(1)
  OBVIOUS
<1>11. g \in Seq(Emitted) /\ Path(g, u, Finish, B)
  <2>1. Own(ws) = {}
    BY <1>4 DEF Own, Owning
  <2>2. ShapeOf(ws, {"over"}) = Finish
    BY <2>1, <1>4, FS_EmptySet DEF ShapeOf, Finish
  <2>3. {"over"} \in SUBSET Modes
    BY DEF Modes
  <2>4. PICK L \in Nat : L = 1
    OBVIOUS
  <2>5. FreeBlockVars(L) \in Seq(Emitted)
        /\ Path(FreeBlockVars(L), ShapeOf(varDefs, {"over"}), ShapeOf(Below(L), {"over"}), B)
    BY <2>1, <2>3, <2>4, <1>1, <1>2, PathBlockVars
  <2> QED
    BY <2>2, <2>4, <2>5, <1>2, <1>5, <1>10
<1>12. PICK c, c1, c2, d : /\ c \in Seq(Emitted) /\ c = code /\ c1 = c \o <<a>> /\ c2 = c1 \o g
                             /\ d = c2 \o <<z>>
  BY <1>7
<1>13. c1 \in Seq(Emitted) /\ Path(c1, Start, u, B)
  BY <1>6, <1>7, <1>8, <1>9, <1>12, PathLabel DEF ReturnLabel
<1>14. c2 \in Seq(Emitted) /\ Path(c2, Start, Finish, B)
  BY <1>11, <1>12, <1>13, PathJoin, EmittedConcat
<1>15. Flows(z, Finish, Finish, B)
  <2>1. Finish.own = {} /\ Finish.modes = {"over"} /\ ShapeIs({}, 0, {"over"}) = Finish
    BY DEF Finish, ShapeIs
  <2>2. FlowsLeave(Finish, Finish)
    BY <2>1, <1>6, IntoSame DEF FlowsLeave
  <2> QED
    BY <2>2, <1>9 DEF Flows
<1>16. Path(d, Start, Finish, B)
  BY <1>6, <1>9, <1>12, <1>14, <1>15, PathThen
<1>17. code' = d
  BY <1>1, <1>9, <1>10, <1>12
<1>18. PICK A : IsPath(A, d, Start, Finish, B)
  BY <1>16 DEF Path
<1>19. A[pc'] = Start
  BY <1>1, <1>18 DEF IsPath
<1>20. /\ depth' = 0 /\ stack' = <<>> /\ r15' = 0 /\ ~leaving' /\ fault' = "none"
       /\ heap' = [o \in Objs |-> Unused]
  BY <1>1 DEF SInv, MachineOK, Parsing, machine
<1>21. Fits(Start)'
  <2>1. Start.own = {} /\ Start.modes = {"ok"} /\ Start.sp = 0
    BY DEF Start, ShapeIs
  <2>2. Holds({})'
    BY <1>20 DEF Holds
  <2>3. InMode("ok", 0)'
    BY <1>20 DEF InMode
  <2> QED
    BY <2>1, <2>2, <2>3 DEF Fits
<1>22. IsPath(A, code, Start, Finish, B)'
  BY <1>17, <1>18
<1>23. Fits(A[pc])'
  BY <1>19, <1>21
<1> QED
  BY <1>7, <1>20, <1>22, <1>23 DEF Follows

-----------------------------------------------------------------------------
(* What each instruction does to a machine that fits its shape.            *)
LEMMA FitsInto ==
  ASSUME SInv, NEW s \in Shape, NEW t \in Shape, Into(s, t), Fits(s)
  PROVE  Fits(t)
<1>1. PICK m \in s.modes : InMode(m, s.sp)
  BY DEF Fits
<1>2. PICK k \in t.modes : s.own = t.own /\ Becomes(m, k, s.sp, t.sp)
  BY DEF Into
<1>3. depth \in Int /\ s.sp \in Nat /\ t.sp \in Nat
  BY DEF SInv, MachineOK, Shape
<1>4. InMode(k, t.sp)
  BY <1>1, <1>2, <1>3 DEF InMode, Becomes
<1>5. Holds(t.own)
  BY <1>2 DEF Fits
<1> QED
  BY <1>2, <1>4, <1>5 DEF Fits

LEMMA FitsIntoNext ==
  ASSUME SInv', NEW s \in Shape, NEW t \in Shape, Into(s, t), Fits(s)'
  PROVE  Fits(t)'
<1>1. PICK m \in s.modes : InMode(m, s.sp)'
  BY DEF Fits
<1>2. PICK k \in t.modes : s.own = t.own /\ Becomes(m, k, s.sp, t.sp)
  BY DEF Into
<1>3. depth' \in Int /\ s.sp \in Nat /\ t.sp \in Nat
  BY DEF SInv, MachineOK, Shape
<1>4. InMode(k, t.sp)'
  BY <1>1, <1>2, <1>3 DEF InMode, Becomes
<1>5. Holds(t.own)'
  BY <1>2 DEF Fits
<1> QED
  BY <1>2, <1>4, <1>5 DEF Fits

(* The types of what the instructions work on.                             *)
LEMMA MachineTypes ==
  ASSUME SInv, NEW s \in Shape, Fits(s)
  PROVE  /\ depth \in Int /\ stack \in Seq(Objs \cup {0}) /\ Len(stack) \in Nat
         /\ Len(stack) = IF depth > 0 THEN depth ELSE 0
         /\ heap \in [Objs -> [kind : {"free", "str", "iter"}, left : 0 .. Items]]
         /\ s.sp \in Nat /\ s.own \in SUBSET Slot
         /\ 0 \notin Objs /\ Unused.kind = "free"
         /\ \A w \in s.own : /\ w.ofs \in 1 .. Len(stack) /\ w.ofs <= depth /\ stack[w.ofs] \in Objs
                             /\ heap[stack[w.ofs]].kind = w.kind /\ w.kind # "free"
<1>1. /\ depth \in Int /\ stack \in Seq(Objs \cup {0}) /\ Len(stack) \in Nat
      /\ Len(stack) = IF depth > 0 THEN depth ELSE 0
      /\ heap \in [Objs -> [kind : {"free", "str", "iter"}, left : 0 .. Items]]
  <2>1. MachineOK
    BY DEF SInv
  <2>2. /\ depth \in Int /\ stack \in Seq(Objs \cup {0})
        /\ Len(stack) = IF depth > 0 THEN depth ELSE 0
        /\ heap \in [Objs -> [kind : {"free", "str", "iter"}, left : 0 .. Items]]
    BY <2>1, Zenon DEF MachineOK
  <2>3. Len(stack) \in Nat
    BY <2>2
  <2> QED
    BY <2>2, <2>3
<1>2. s.sp \in Nat /\ s.own \in SUBSET Slot
  BY DEF Shape
<1>3. 0 \notin Objs /\ Unused.kind = "free"
  BY LoopAssumption DEF Unused
<1>4. ASSUME NEW w \in s.own
      PROVE  /\ w.ofs \in 1 .. Len(stack) /\ w.ofs <= depth /\ stack[w.ofs] \in Objs
             /\ heap[stack[w.ofs]].kind = w.kind /\ w.kind # "free"
  <2>1. /\ w.ofs \in 1 .. Len(stack) /\ stack[w.ofs] \in Objs
        /\ heap[stack[w.ofs]].kind = w.kind
    BY DEF Fits, Holds
  <2>2. w.kind # "free"
    BY <1>2 DEF Slot
  <2>3. w.ofs <= depth
    BY <2>1, <1>1
  <2> QED
    BY <2>1, <2>2, <2>3
<1> QED
  BY <1>1, <1>2, <1>3, <1>4

LEMMA NewFits ==
  ASSUME SInv, SInv', ExecNew, NEW s \in Shape, NEW t \in Shape, Fits(s), FlowsNew(Instr, s, t)
  PROVE  fault' = "none" /\ Step /\ Fits(t)'
<1>1. PICK x \in Emitted : x = Instr /\ x.op = "new" /\ x.kind \in {"int", "str", "iter"} /\ x.ofs \in Nat \ {0}
  BY WhileRunning, InstructionTypes DEF ExecNew, At
<1>2. /\ depth \in Int /\ stack \in Seq(Objs \cup {0}) /\ Len(stack) \in Nat
      /\ Len(stack) = IF depth > 0 THEN depth ELSE 0
      /\ heap \in [Objs -> [kind : {"free", "str", "iter"}, left : 0 .. Items]]
      /\ s.sp \in Nat /\ s.own \in SUBSET Slot /\ 0 \notin Objs /\ Unused.kind = "free"
      /\ \A w \in s.own : /\ w.ofs \in 1 .. Len(stack) /\ w.ofs <= depth /\ stack[w.ofs] \in Objs
                          /\ heap[stack[w.ofs]].kind = w.kind /\ w.kind # "free"
  BY MachineTypes
<1>3. s.modes \subseteq {"ok"} /\ x.ofs = s.sp + 1
      /\ Into(ShapeIs(IF x.kind = "int" THEN s.own ELSE s.own \cup {SlotOf(x)}, s.sp + 1, s.modes), t)
  BY <1>1 DEF FlowsNew
<1>4. "ok" \in s.modes /\ InMode("ok", s.sp)
  BY <1>3 DEF Fits
<1>5. depth = s.sp /\ r15 = 0 /\ ~leaving /\ Len(stack) = depth
  BY <1>2, <1>4 DEF InMode
<1>6. /\ depth' = depth + 1 /\ Step /\ UNCHANGED <<r15, leaving, fault>> /\ fault = "none"
      /\ IF x.kind = "int" THEN stack' = Append(stack, 0) /\ heap' = heap
         ELSE \E o \in FreeObjs :
                /\ stack' = Append(stack, o)
                /\ heap' = [heap EXCEPT ![o] =
                     [kind |-> x.kind, left |-> IF x.kind = "iter" THEN Items ELSE 0]]
  BY <1>1, <1>3, <1>5 DEF ExecNew, At, Running
<1>7. PICK own, y : /\ own = IF x.kind = "int" THEN s.own ELSE s.own \cup {SlotOf(x)}
                    /\ y = ShapeIs(own, s.sp + 1, s.modes)
  OBVIOUS
<1>8. SlotOf(x).ofs = x.ofs /\ SlotOf(x).kind = x.kind /\ (x.kind # "int" => SlotOf(x) \in Slot)
  BY <1>1 DEF SlotOf, Slot
<1>9. y \in Shape /\ y.own = own /\ y.sp = s.sp + 1 /\ y.modes = s.modes
  <2>1. own \in SUBSET Slot
    BY <1>2, <1>7, <1>8
  <2> QED
    BY <2>1, <1>2, <1>7 DEF ShapeIs, Shape
<1>10. Holds(own)'
  <2>1. CASE x.kind = "int"
    <3>1. stack' = Append(stack, 0) /\ heap' = heap /\ own = s.own
      BY <1>6, <1>7, <2>1
    <3>2. Len(stack') = Len(stack) + 1 /\ \A i \in 1 .. Len(stack) : stack'[i] = stack[i]
      BY <3>1, <1>2
    <3> QED
      BY <3>1, <3>2, <1>2 DEF Fits, Holds
  <2>2. CASE x.kind # "int"
    <3>1. PICK o \in FreeObjs :
            /\ stack' = Append(stack, o)
            /\ heap' = [heap EXCEPT ![o] =
                 [kind |-> x.kind, left |-> IF x.kind = "iter" THEN Items ELSE 0]]
      BY <1>6, <2>2
    <3>2. o \in Objs /\ heap[o] = Unused /\ heap'[o].kind = x.kind
          /\ \A p \in Objs : p # o => heap'[p] = heap[p]
      BY <3>1, <1>2 DEF FreeObjs
    <3>3. Len(stack') = Len(stack) + 1 /\ stack'[Len(stack) + 1] = o
          /\ \A i \in 1 .. Len(stack) : stack'[i] = stack[i]
      BY <3>1, <3>2, <1>2
    <3>4. PICK new : new = SlotOf(x) /\ new.ofs = Len(stack) + 1 /\ new.kind = x.kind
      BY <1>3, <1>5, <1>8
    <3>5. own = s.own \cup {new}
      BY <1>7, <2>2, <3>4
    <3>6. \A w \in s.own : /\ w.ofs \in 1 .. Len(stack) /\ stack'[w.ofs] = stack[w.ofs]
                           /\ stack[w.ofs] \in Objs /\ stack[w.ofs] # o
      BY SMTT(30), <3>2, <3>3, <1>2
    <3>7. \A w \in own : /\ w.ofs \in 1 .. Len(stack') /\ stack'[w.ofs] \in Objs
                         /\ heap'[stack'[w.ofs]].kind = w.kind
      BY <3>2, <3>3, <3>4, <3>5, <3>6, <1>2
    <3>8. \A w, v \in own : stack'[w.ofs] = stack'[v.ofs] => w = v
      <4>1. \A w, v \in s.own : stack[w.ofs] = stack[v.ofs] => w = v
        BY DEF Fits, Holds
      <4> QED
        BY <4>1, <3>3, <3>4, <3>5, <3>6
    <3>9. \A p \in Objs : heap'[p] # Unused => \E w \in own : stack'[w.ofs] = p
      <4>1. \A p \in Objs : heap[p] # Unused => \E w \in s.own : stack[w.ofs] = p
        BY DEF Fits, Holds
      <4> QED
        BY <4>1, <3>2, <3>3, <3>4, <3>5, <3>6
    <3> QED
      BY <3>7, <3>8, <3>9 DEF Holds, Unused
  <2> QED
    BY <2>1, <2>2
<1>11. InMode("ok", s.sp + 1)'
  BY <1>5, <1>6 DEF InMode
<1>12. Fits(y)'
  BY <1>4, <1>9, <1>10, <1>11 DEF Fits
<1>13. Fits(t)'
  BY <1>3, <1>7, <1>9, <1>12, FitsIntoNext
<1> QED
  BY <1>6, <1>13

LEMMA FreeFits ==
  ASSUME SInv, SInv', ExecFree, NEW s \in Shape, NEW t \in Shape, Fits(s), FlowsFree(Instr, s, t)
  PROVE  fault' = "none" /\ Step /\ Fits(t)'
<1>1. PICK x \in Emitted : x = Instr /\ x.op = "free" /\ x.ofs \in Nat \ {0}
  BY WhileRunning, InstructionTypes DEF ExecFree, At
<1>2. /\ depth \in Int /\ stack \in Seq(Objs \cup {0}) /\ Len(stack) \in Nat
      /\ Len(stack) = IF depth > 0 THEN depth ELSE 0
      /\ heap \in [Objs -> [kind : {"free", "str", "iter"}, left : 0 .. Items]]
      /\ s.sp \in Nat /\ s.own \in SUBSET Slot /\ 0 \notin Objs /\ Unused.kind = "free"
      /\ \A w \in s.own : /\ w.ofs \in 1 .. Len(stack) /\ w.ofs <= depth /\ stack[w.ofs] \in Objs
                          /\ heap[stack[w.ofs]].kind = w.kind /\ w.kind # "free"
  BY MachineTypes
<1>3. PICK w \in s.own : w.ofs = x.ofs /\ Into(ShapeIs(s.own \ {w}, s.sp, s.modes), t)
  BY <1>1 DEF FlowsFree
<1>4. PICK o : o = stack[x.ofs]
  OBVIOUS
<1>5. o \in Objs /\ o # 0 /\ heap[o] # Unused /\ ~(x.ofs > depth) /\ o = stack[w.ofs]
  BY <1>1, <1>2, <1>3, <1>4
<1>6. heap' = [heap EXCEPT ![o] = Unused] /\ Step /\ UNCHANGED <<depth, stack, r15, leaving, fault>>
      /\ fault = "none"
  BY <1>1, <1>4, <1>5 DEF ExecFree, At, Running
<1>7. heap'[o] = Unused /\ \A p \in Objs : p # o => heap'[p] = heap[p]
  BY <1>2, <1>5, <1>6
<1>8. PICK own, y : own = s.own \ {w} /\ y = ShapeIs(own, s.sp, s.modes)
  OBVIOUS
<1>9. y \in Shape /\ y.own = own /\ y.sp = s.sp /\ y.modes = s.modes
  BY <1>2, <1>8 DEF ShapeIs, Shape
<1>10. Holds(own)'
  <2>1. /\ \A v, u \in s.own : stack[v.ofs] = stack[u.ofs] => v = u
        /\ \A p \in Objs : heap[p] # Unused => \E v \in s.own : stack[v.ofs] = p
    BY DEF Fits, Holds
  <2>2. stack' = stack
    BY <1>6
  <2>3. \A v \in own : v \in s.own /\ stack[v.ofs] # o
    BY <1>5, <1>8, <2>1
  <2>4. \A v \in own : /\ v.ofs \in 1 .. Len(stack') /\ stack'[v.ofs] \in Objs
                       /\ heap'[stack'[v.ofs]].kind = v.kind
    BY <2>2, <2>3, <1>2, <1>7
  <2>5. \A v, u \in own : stack'[v.ofs] = stack'[u.ofs] => v = u
    BY <2>1, <2>2, <2>3
  <2>6. \A p \in Objs : heap'[p] # Unused => \E v \in own : stack'[v.ofs] = p
    BY <2>1, <2>2, <1>5, <1>7, <1>8
  <2> QED
    BY <2>4, <2>5, <2>6 DEF Holds, Unused
<1>11. PICK m \in s.modes : InMode(m, s.sp)
  BY DEF Fits
<1>12. InMode(m, s.sp)'
  BY <1>6, <1>11 DEF InMode
<1>13. Fits(y)'
  BY <1>9, <1>10, <1>11, <1>12 DEF Fits
<1>14. Fits(t)'
  BY <1>3, <1>8, <1>9, <1>13, FitsIntoNext
<1> QED
  BY <1>6, <1>14

LEMMA PopFits ==
  ASSUME SInv, SInv', ExecPop, NEW s \in Shape, NEW t \in Shape, Fits(s), FlowsPop(Instr, s, t)
  PROVE  fault' = "none" /\ Step /\ Fits(t)'
<1>1. PICK x \in Emitted : x = Instr /\ x.op = "pop" /\ x.n \in Nat
  BY WhileRunning, InstructionTypes DEF ExecPop, At
<1>2. /\ depth \in Int /\ stack \in Seq(Objs \cup {0}) /\ Len(stack) \in Nat
      /\ Len(stack) = IF depth > 0 THEN depth ELSE 0
      /\ s.sp \in Nat /\ s.own \in SUBSET Slot
      /\ \A w \in s.own : w.ofs \in 1 .. Len(stack) /\ w.ofs <= depth
  BY MachineTypes
<1>3. /\ x.n <= s.sp /\ \A w \in s.own : w.ofs <= s.sp - x.n
      /\ "over" \in s.modes => s.own = {}
      /\ Into(ShapeIs(s.own, s.sp - x.n, s.modes), t)
  BY <1>1 DEF FlowsPop
<1>4. PICK n \in Nat, k \in Nat : n = x.n /\ k = s.sp - n
  BY <1>1, <1>2, <1>3
<1>5. /\ depth' = depth - n /\ stack' = SubSeq(stack, 1, depth - n) /\ Step
      /\ UNCHANGED <<r15, heap, leaving, fault>> /\ fault = "none"
  BY <1>1, <1>4 DEF ExecPop, At, Running
<1>6. PICK m \in s.modes : InMode(m, s.sp)
  BY DEF Fits
<1>7. InMode(m, k)'
  BY SMTT(30), <1>2, <1>3, <1>4, <1>5, <1>6 DEF InMode
<1>8. ASSUME NEW w \in s.own
      PROVE  w.ofs \in 1 .. Len(stack') /\ stack'[w.ofs] = stack[w.ofs]
  <2>1. m # "over"
    BY <1>3, <1>6, <1>8
  <2>2. depth >= s.sp
    BY <2>1, <1>2, <1>6 DEF InMode
  <2>3. w.ofs \in 1 .. Len(stack) /\ w.ofs <= k
    BY <1>2, <1>3, <1>4
  <2>4. PICK j \in Nat : j = depth - n /\ w.ofs <= j /\ j <= depth
    BY <2>2, <2>3, <1>2, <1>4
  <2>5. Len(stack) = depth
    BY <2>3, <1>2
  <2>6. stack' = SubSeq(stack, 1, j) /\ j <= Len(stack)
    BY <2>4, <2>5, <1>5
  <2>7. Len(stack') = j /\ \A i \in 1 .. j : stack'[i] = stack[i]
    BY <2>6, <1>2
  <2> QED
    BY <2>3, <2>4, <2>7
<1>9. Holds(s.own)'
  BY <1>5, <1>8 DEF Fits, Holds, Unused
<1>10. PICK y : y = ShapeIs(s.own, k, s.modes)
  OBVIOUS
<1>11. y \in Shape /\ y.own = s.own /\ y.sp = k /\ y.modes = s.modes
  BY <1>2, <1>10 DEF ShapeIs, Shape
<1>12. Fits(y)'
  BY <1>6, <1>7, <1>9, <1>11 DEF Fits
<1>13. Fits(t)'
  BY <1>3, <1>4, <1>10, <1>11, <1>12, FitsIntoNext
<1> QED
  BY <1>5, <1>13

LEMMA MarkFits ==
  ASSUME SInv, SInv', ExecMark, NEW s \in Shape, NEW t \in Shape, Fits(s), FlowsMark(Instr, s, t)
  PROVE  fault' = "none" /\ Step /\ Fits(t)'
<1>1. PICK x \in Emitted : x = Instr /\ x.op = "mark" /\ x.n \in {1, 2} \cup Codes
  BY WhileRunning, InstructionTypes DEF ExecMark, At
<1>2. depth \in Int /\ s.sp \in Nat /\ s.own \in SUBSET Slot
  BY MachineTypes
<1>3. PICK m \in s.modes : InMode(m, s.sp)
  BY DEF Fits
<1>4. /\ m \in {"ok", "failing"} /\ (x.by = "return" <=> x.n = 2)
      /\ Into(ShapeIs(s.own, s.sp, {ModeOf(x)}), t)
  BY <1>1, <1>3 DEF FlowsMark
<1>5. /\ r15' = x.n /\ leaving' = (x.by = "return") /\ Step /\ UNCHANGED <<depth, stack, heap, fault>>
      /\ fault = "none"
  BY <1>1 DEF ExecMark, At, Running
<1>6. InMode(ModeOf(x), s.sp)'
  <2>1. depth = s.sp
    BY <1>3, <1>4 DEF InMode
  <2>2. (~leaving') <=> (x.n # 2)
    BY <1>4, <1>5
  <2>3. CASE x.n = 1
    BY <2>1, <2>2, <2>3, <1>5 DEF InMode, ModeOf
  <2>4. CASE x.n = 2
    BY <2>1, <2>4, <1>2, <1>5 DEF InMode, ModeOf
  <2>5. CASE x.n \notin {1, 2}
    BY <2>1, <2>2, <2>5, <1>1, <1>5 DEF InMode, ModeOf
  <2> QED
    BY <2>3, <2>4, <2>5
<1>7. PICK y : y = ShapeIs(s.own, s.sp, {ModeOf(x)})
  OBVIOUS
<1>8. y \in Shape /\ y.own = s.own /\ y.sp = s.sp /\ y.modes = {ModeOf(x)}
  BY <1>2, <1>7 DEF ShapeIs, Shape, ModeOf, Modes
<1>9. Holds(s.own)'
  BY <1>5 DEF Fits, Holds, Unused
<1>10. Fits(y)'
  BY <1>6, <1>8, <1>9 DEF Fits
<1>11. Fits(t)'
  BY <1>4, <1>7, <1>8, <1>10, FitsIntoNext
<1> QED
  BY <1>5, <1>11

(* A step that changes at most r15, to that of the mode k.                 *)
LEMMA ModeFits ==
  ASSUME SInv', NEW s \in Shape, NEW t \in Shape, Fits(s), NEW modes \in SUBSET Modes, NEW k \in modes,
         InMode(k, s.sp)', Into(ShapeIs(s.own, s.sp, modes), t), UNCHANGED <<stack, heap>>
  PROVE  Fits(t)'
<1>1. PICK y : y = ShapeIs(s.own, s.sp, modes)
  OBVIOUS
<1>2. y \in Shape /\ y.own = s.own /\ y.sp = s.sp /\ y.modes = modes
  BY <1>1 DEF ShapeIs, Shape
<1>3. Holds(s.own)'
  BY DEF Fits, Holds, Unused
<1>4. Fits(y)'
  BY <1>2, <1>3 DEF Fits
<1> QED
  BY <1>1, <1>2, <1>4, FitsIntoNext

LEMMA JumpFits ==
  ASSUME SInv, SInv', ExecJump, NEW s \in Shape, NEW t \in Shape, NEW B \in [Nat -> Shape],
         Fits(s) \/ (Instr.op = "label" /\ Fits(B[Instr.label])), Flows(Instr, s, t, B)
  PROVE  /\ fault' = "none"
         /\ \/ Step /\ Fits(t)'
            \/ Instr.op \in JumpOps /\ GoTo(Instr.label) /\ \E u : u = B[Instr.label] /\ Fits(u)'
<1>1. PICK x \in Emitted : x = Instr /\ x.op \in JumpOps \cup {"label"} /\ x.label \in Nat
  BY WhileRunning, InstructionTypes DEF ExecJump, At, JumpOps
<1>2. UNCHANGED machine /\ fault = "none"
  BY DEF ExecJump, At, Running
<1>3. PICK l \in Nat, u \in Shape : l = x.label /\ u = B[l]
  BY <1>1
<1>4. ASSUME NEW v \in Shape, NEW w \in Shape, NEW m \in v.modes, NEW modes \in SUBSET Modes,
             m \in modes, Holds(v.own), InMode(m, v.sp), Into(Only(v, modes), w)
      PROVE  Fits(w)'
  <2>1. InMode(m, v.sp)'
    BY <1>2, <1>4 DEF machine, InMode
  <2>2. Fits(v)
    BY <1>4 DEF Fits
  <2>3. v.modes \cap modes \in SUBSET Modes /\ m \in v.modes \cap modes
    BY <1>4
  <2>4. Into(ShapeIs(v.own, v.sp, v.modes \cap modes), w)
    BY <1>4 DEF Only
  <2>5. UNCHANGED <<stack, heap>>
    BY <1>2 DEF machine
  <2> QED
    BY <2>1, <2>2, <2>3, <2>4, <2>5, ModeFits
<1>5. ASSUME NEW v \in Shape, NEW w \in Shape, Fits(v), Into(v, w)
      PROVE  Fits(w)'
  <2>1. PICK m \in v.modes : InMode(m, v.sp) /\ Holds(v.own)
    BY <1>5 DEF Fits
  <2>2. v.modes \in SUBSET Modes /\ Only(v, v.modes) = v
    BY DEF Only, ShapeIs, Shape
  <2> QED
    BY <2>1, <2>2, <1>4, <1>5
<1>6. fault' = "none"
  BY <1>2 DEF machine
<1>7. x.op = "jump" => GoTo(x.label) /\ Fits(s) /\ Into(s, u)
  BY <1>1, <1>3 DEF ExecJump, At, Flows
<1>8. x.op = "jumpFalse" => (GoTo(x.label) \/ Step) /\ Fits(s) /\ Into(s, u) /\ Into(s, t)
  BY <1>1, <1>3 DEF ExecJump, At, Flows
<1>9. x.op = "label" => Step /\ (Fits(s) \/ Fits(u)) /\ Into(s, t) /\ Into(u, t)
  BY <1>1, <1>3 DEF ExecJump, At, Flows
<1>10. x.op = "jumpError" => /\ IF r15 # 0 THEN GoTo(x.label) ELSE Step
                             /\ Fits(s) /\ FlowsJumpError(x, s, t, B)
  BY <1>1 DEF ExecJump, At, Flows
<1>11. x.op = "jumpNoError" => /\ IF r15 = 0 THEN GoTo(x.label) ELSE Step
                               /\ Fits(s) /\ FlowsJumpNoError(x, s, t, B)
  BY <1>1 DEF ExecJump, At, Flows
<1>12. x.op \in {"jump", "jumpFalse", "jumpError", "jumpNoError", "label"}
  BY <1>1 DEF ExecJump, At
<1>13. \A m \in Modes : InMode(m, s.sp) /\ m # "over" =>
         (m = "ok" /\ r15 = 0) \/ (m \in Marked /\ r15 # 0)
  BY LoopAssumption DEF InMode, Marked, Modes
<1>14. Marked \in SUBSET Modes /\ {"ok"} \in SUBSET Modes
  BY DEF Marked, Modes
<1>15. CASE x.op = "label"
  BY <1>3, <1>5, <1>6, <1>9, <1>15
<1>16. CASE x.op \in {"jump", "jumpFalse"}
  <2>1. Fits(u)' /\ (x.op = "jumpFalse" => Fits(t)')
    BY <1>3, <1>5, <1>7, <1>8, <1>16
  <2> QED
    BY <2>1, <1>1, <1>3, <1>6, <1>7, <1>8, <1>16 DEF JumpOps
<1>17. CASE x.op = "jumpError"
  <2>1. Fits(s) /\ FlowsJumpError(x, s, t, B)
    BY <1>10, <1>17
  <2>2. PICK m \in s.modes : InMode(m, s.sp) /\ Holds(s.own)
    BY <2>1 DEF Fits
  <2>3. m \in Modes /\ m # "over" /\ Into(Only(s, Marked), u) /\ Into(Only(s, {"ok"}), t)
    BY <2>1, <2>2, <1>3 DEF FlowsJumpError, Shape
  <2>4. CASE m = "ok" /\ r15 = 0
    <3>1. Fits(t)'
      BY <2>2, <2>3, <2>4, <1>4, <1>14
    <3> QED
      BY <3>1, <2>4, <1>6, <1>10, <1>17
  <2>5. CASE m \in Marked /\ r15 # 0
    <3>1. Fits(u)'
      BY <2>2, <2>3, <2>5, <1>4, <1>14
    <3> QED
      BY <3>1, <2>5, <1>1, <1>3, <1>6, <1>10, <1>17 DEF JumpOps
  <2> QED
    BY <2>2, <2>3, <2>4, <2>5, <1>13
<1>18. CASE x.op = "jumpNoError"
  <2>1. Fits(s) /\ FlowsJumpNoError(x, s, t, B)
    BY <1>11, <1>18
  <2>2. PICK m \in s.modes : InMode(m, s.sp) /\ Holds(s.own)
    BY <2>1 DEF Fits
  <2>3. m \in Modes /\ m # "over" /\ Into(Only(s, {"ok"}), u) /\ Into(Only(s, Marked), t)
    BY <2>1, <2>2, <1>3 DEF FlowsJumpNoError, Shape
  <2>4. CASE m = "ok" /\ r15 = 0
    <3>1. Fits(u)'
      BY <2>2, <2>3, <2>4, <1>4, <1>14
    <3> QED
      BY <3>1, <2>4, <1>1, <1>3, <1>6, <1>11, <1>18 DEF JumpOps
  <2>5. CASE m \in Marked /\ r15 # 0
    <3>1. Fits(t)'
      BY <2>2, <2>3, <2>5, <1>4, <1>14
    <3> QED
      BY <3>1, <2>5, <1>6, <1>11, <1>18
  <2> QED
    BY <2>2, <2>3, <2>4, <2>5, <1>13
<1> QED
  BY <1>12, <1>15, <1>16, <1>17, <1>18

LEMMA CallFits ==
  ASSUME SInv, SInv', ExecCall, NEW s \in Shape, NEW t \in Shape, Fits(s), FlowsCall(s, t)
  PROVE  fault' = "none" /\ Step /\ Fits(t)'
<1>1. PICK m \in s.modes : InMode(m, s.sp)
  BY DEF Fits
<1>2. PICK modes \in SUBSET Modes : modes = {"ok", "failing"}
  BY DEF Modes
<1>3. m = "ok" /\ Into(ShapeIs(s.own, s.sp, modes), t)
  BY <1>1, <1>2 DEF FlowsCall
<1>4. /\ r15' \in {r15} \cup Codes /\ Step /\ UNCHANGED <<depth, stack, heap, leaving, fault>>
      /\ fault = "none"
  BY DEF ExecCall, At, Running
<1>5. PICK k \in modes : InMode(k, s.sp)'
  <2>1. r15 = 0 /\ depth = s.sp /\ ~leaving
    BY <1>1, <1>3 DEF InMode
  <2>2. CASE r15' = r15
    <3>1. InMode("ok", s.sp)'
      BY <2>1, <2>2, <1>4 DEF InMode
    <3> QED
      BY <3>1, <1>2
  <2>3. CASE r15' \in Codes
    <3>1. InMode("failing", s.sp)'
      BY <2>1, <2>3, <1>4 DEF InMode
    <3> QED
      BY <3>1, <1>2
  <2> QED
    BY <2>2, <2>3, <1>4
<1>6. Fits(t)'
  BY <1>3, <1>4, <1>5, ModeFits
<1> QED
  BY <1>4, <1>6

LEMMA NextFits ==
  ASSUME SInv, SInv', ExecNext, NEW s \in Shape, NEW t \in Shape, Fits(s), FlowsNext(s, t)
  PROVE  fault' = "none" /\ Step /\ Fits(t)'
<1>1. PICK m \in s.modes : InMode(m, s.sp)
  BY DEF Fits
<1>2. m \in {"ok", "broken"} /\ Into(ShapeIs(s.own, s.sp, s.modes \cup {"broken"}), t)
  BY <1>1 DEF FlowsNext
<1>3. PICK w \in s.own : w.kind = "iter" /\ w.ofs = s.sp
  BY <1>1 DEF FlowsNext
<1>4. /\ depth \in Int /\ stack \in Seq(Objs \cup {0}) /\ Len(stack) \in Nat
      /\ heap \in [Objs -> [kind : {"free", "str", "iter"}, left : 0 .. Items]]
      /\ s.sp \in Nat /\ s.own \in SUBSET Slot /\ 0 \notin Objs /\ Unused.kind = "free"
      /\ w.ofs \in 1 .. Len(stack) /\ stack[w.ofs] \in Objs /\ heap[stack[w.ofs]].kind = w.kind
  BY <1>3, MachineTypes
<1>5. depth = s.sp /\ ~leaving /\ r15 = (IF m = "ok" THEN 0 ELSE 1)
  BY <1>1, <1>2 DEF InMode
<1>6. PICK o : o = stack[depth]
  OBVIOUS
<1>7. o \in Objs /\ o # 0 /\ heap[o].kind = "iter" /\ ~(depth < 1)
  BY <1>3, <1>4, <1>5, <1>6
<1>8. /\ heap' = [heap EXCEPT ![o].left = IF @ = 0 THEN 0 ELSE @ - 1]
      /\ r15' \in {1, r15} /\ Step /\ UNCHANGED <<depth, stack, leaving, fault>> /\ fault = "none"
  BY <1>6, <1>7 DEF ExecNext, At, Running, AfterNext
<1>9. \A p \in Objs : heap'[p].kind = heap[p].kind /\ (p # o => heap'[p] = heap[p])
  BY <1>4, <1>7, <1>8
<1>10. PICK modes : modes = s.modes \cup {"broken"}
  OBVIOUS
<1>11. modes \in SUBSET Modes
  BY <1>10 DEF Shape, Modes
<1>12. PICK k \in modes : InMode(k, s.sp)'
  <2>1. CASE r15' = 1
    <3>1. InMode("broken", s.sp)'
      BY <2>1, <1>5, <1>8 DEF InMode
    <3> QED
      BY <3>1, <1>10
  <2>2. CASE r15' = r15
    <3>1. InMode(m, s.sp)'
      BY <2>2, <1>1, <1>8 DEF InMode
    <3> QED
      BY <3>1, <1>10
  <2> QED
    BY <2>1, <2>2, <1>8
<1>13. Holds(s.own)'
  <2>1. /\ \A v \in s.own : /\ v.ofs \in 1 .. Len(stack) /\ stack[v.ofs] \in Objs
                            /\ heap[stack[v.ofs]].kind = v.kind
        /\ \A v, u \in s.own : stack[v.ofs] = stack[u.ofs] => v = u
        /\ \A p \in Objs : heap[p] # Unused => \E v \in s.own : stack[v.ofs] = p
    BY DEF Fits, Holds
  <2>2. stack' = stack
    BY <1>8
  <2>3. \A v \in s.own : /\ v.ofs \in 1 .. Len(stack') /\ stack'[v.ofs] \in Objs
                         /\ heap'[stack'[v.ofs]].kind = v.kind
    BY <2>1, <2>2, <1>9
  <2>4. \A p \in Objs : heap'[p] # Unused => \E v \in s.own : stack'[v.ofs] = p
    <3> TAKE p \in Objs
    <3>1. CASE p = o
      BY <3>1, <2>2, <1>3, <1>5, <1>6
    <3>2. CASE p # o
      BY <3>2, <2>1, <2>2, <1>9
    <3> QED
      BY <3>1, <3>2
  <2> QED
    BY <2>1, <2>2, <2>3, <2>4 DEF Holds, Unused
<1>14. PICK y : y = ShapeIs(s.own, s.sp, modes)
  OBVIOUS
<1>15. y \in Shape /\ y.own = s.own /\ y.sp = s.sp /\ y.modes = modes
  BY <1>4, <1>11, <1>14 DEF ShapeIs, Shape
<1>16. Fits(y)'
  BY <1>12, <1>13, <1>15 DEF Fits
<1>17. Fits(t)'
  BY <1>2, <1>10, <1>14, <1>15, <1>16, FitsIntoNext
<1> QED
  BY <1>8, <1>17

LEMMA ReturnIfErr2Fits ==
  ASSUME SInv, SInv', ExecReturnIfErr2, NEW s \in Shape, NEW t \in Shape, NEW B \in [Nat -> Shape],
         Fits(s), FlowsReturnIfErr2(Instr, s, t, B)
  PROVE  /\ fault' = "none"
         /\ \/ Step /\ Fits(t)'
            \/ Instr.op \in JumpOps /\ GoTo(Instr.label) /\ \E u : u = B[Instr.label] /\ Fits(u)'
<1>1. PICK x \in Emitted : x = Instr /\ x.op = "returnIfErr2" /\ x.label \in Nat
  BY WhileRunning, InstructionTypes DEF ExecReturnIfErr2, At, JumpOps
<1>2. PICK u \in Shape : u = B[x.label]
  BY <1>1
<1>3. PICK m \in s.modes : InMode(m, s.sp)
  BY DEF Fits
<1>4. m \in {"broken", "returning"}
  BY <1>3 DEF FlowsReturnIfErr2
<1>5. /\ UNCHANGED <<depth, stack, heap, leaving, fault>> /\ fault = "none"
      /\ IF r15 = 2 THEN r15' = 0 /\ GoTo(x.label) ELSE Step /\ r15' = r15
  BY <1>1 DEF ExecReturnIfErr2, At, Running, ClearedErr
<1>6. CASE m = "broken"
  <2>1. r15 = 1 /\ Step /\ r15' = r15
    BY <1>3, <1>5, <1>6 DEF InMode
  <2>2. InMode("broken", s.sp)'
    BY <2>1, <1>3, <1>5, <1>6 DEF InMode
  <2>3. PICK modes \in SUBSET Modes : modes = s.modes \cap {"broken"}
    BY DEF Shape
  <2>4. "broken" \in modes /\ Into(ShapeIs(s.own, s.sp, modes), t)
    BY <2>3, <1>1, <1>3, <1>6 DEF FlowsReturnIfErr2, Only
  <2>5. Fits(t)'
    BY <2>2, <2>4, <1>5, ModeFits
  <2> QED
    BY <2>1, <2>5, <1>5
<1>7. CASE m = "returning"
  <2>1. r15 = 2 /\ r15' = 0 /\ GoTo(x.label)
    BY <1>3, <1>5, <1>7 DEF InMode
  <2>2. InMode("over", s.sp)'
    BY <2>1 DEF InMode
  <2>3. PICK modes \in SUBSET Modes : modes = {"over"}
    BY DEF Modes
  <2>4. "over" \in modes /\ Into(ShapeIs(s.own, s.sp, modes), u)
    BY <2>3, <1>1, <1>2, <1>3, <1>7 DEF FlowsReturnIfErr2
  <2>5. Fits(u)'
    BY <2>2, <2>4, <1>5, ModeFits
  <2> QED
    BY <2>1, <2>5, <1>1, <1>2, <1>5 DEF JumpOps
<1> QED
  BY <1>4, <1>6, <1>7

LEMMA ClearFits ==
  ASSUME SInv, SInv', ExecClearBreakErr, NEW s \in Shape, NEW t \in Shape, Fits(s), FlowsClear(s, t)
  PROVE  fault' = "none" /\ Step /\ Fits(t)'
<1>1. PICK m \in s.modes : InMode(m, s.sp)
  BY DEF Fits
<1>2. PICK modes \in SUBSET Modes, k \in Modes : modes = {"ok"} /\ k = "ok"
  BY DEF Modes
<1>3. m = "broken" /\ Into(ShapeIs(s.own, s.sp, modes), t)
  BY <1>1, <1>2 DEF FlowsClear
<1>4. /\ r15' = (IF r15 = 1 THEN 0 ELSE r15) /\ Step /\ UNCHANGED <<depth, stack, heap, leaving, fault>>
      /\ fault = "none"
  BY DEF ExecClearBreakErr, At, Running
<1>5. InMode(k, s.sp)' /\ k \in modes
  BY <1>1, <1>2, <1>3, <1>4 DEF InMode
<1>6. Fits(t)'
  BY <1>3, <1>4, <1>5, ModeFits
<1> QED
  BY <1>4, <1>6

LEMMA LeaveFits ==
  ASSUME SInv, SInv', ExecLeave, NEW s \in Shape, NEW t \in Shape, Fits(s), FlowsLeave(s, t)
  PROVE  fault' = "none" /\ Step /\ Fits(t)'
<1>1. PICK m \in s.modes : InMode(m, s.sp)
  BY DEF Fits
<1>2. PICK y : y = ShapeIs({}, 0, {"over"})
  OBVIOUS
<1>3. y \in Shape /\ y.own = {} /\ y.sp = 0 /\ y.modes = {"over"}
  BY <1>2 DEF ShapeIs, Shape, Modes
<1>4. m = "over" /\ s.own = {} /\ Into(y, t)
  BY <1>1, <1>2 DEF FlowsLeave
<1>5. depth' = 0 /\ Step /\ UNCHANGED <<r15, heap, leaving, fault>> /\ fault = "none"
  BY DEF ExecLeave, At, Running
<1>6. InMode("over", 0)'
  BY <1>1, <1>4, <1>5 DEF InMode
<1>7. Holds({})'
  <2>1. \A o \in Objs : heap[o] = Unused
    BY <1>4 DEF Fits, Holds
  <2>2. heap' = heap
    BY <1>5
  <2> QED
    BY <2>1, <2>2 DEF Holds, Unused
<1>8. Fits(y)'
  BY <1>3, <1>6, <1>7 DEF Fits
<1>9. Fits(t)'
  BY <1>3, <1>4, <1>8, FitsIntoNext
<1> QED
  BY <1>5, <1>9

LEMMA ExecuteFollows ==
  ASSUME SInv, SInv', Execute, NEW A, NEW B, Follows(A, B)
  PROVE  Follows(A, B)'
<1>1. Running /\ UNCHANGED parser
  BY DEF Execute, ExecNew, ExecFree, ExecPop, ExecMark, ExecJump, ExecCall, ExecNext,
         ExecReturnIfErr2, ExecClearBreakErr, ExecLeave, At
<1>2. B \in [Nat -> Shape] /\ A \in [1 .. Len(code) + 1 -> Shape]
      /\ \A i \in 1 .. Len(code) : Flows(code[i], A[i], A[i + 1], B)
  BY DEF Follows, IsPath
<1>3. code \in Seq(Emitted) /\ Len(code) \in Nat /\ pc \in 1 .. Len(code) /\ pc \in DOMAIN code
  <2>1. code \in Seq(Emitted) /\ pc \in DOMAIN code
    BY <1>1 DEF SInv, CodeOK, Running
  <2> QED
    BY <2>1
<1>4. PICK n \in 1 .. Len(code), x \in Emitted : n = pc /\ x = Instr /\ x = code[n]
  BY <1>3 DEF Instr
<1>5. PICK s \in Shape, t \in Shape : s = A[n] /\ t = A[n + 1]
  <2>1. n \in 1 .. Len(code) + 1 /\ n + 1 \in 1 .. Len(code) + 1
    BY <1>3, <1>4
  <2> QED
    BY <2>1, <1>2
<1>6. Flows(x, s, t, B) /\ (Fits(s) \/ (x.op = "label" /\ Fits(B[x.label])))
  BY <1>2, <1>4, <1>5 DEF Follows
<1>7. /\ fault' = "none"
      /\ \/ Step /\ Fits(t)'
         \/ x.op \in JumpOps /\ GoTo(x.label) /\ \E u : u = B[x.label] /\ Fits(u)'
  <2>1. ExecJump \/ Fits(s)
    BY <1>1, <1>4, <1>6 DEF Execute, ExecNew, ExecFree, ExecPop, ExecMark, ExecCall, ExecNext,
       ExecReturnIfErr2, ExecClearBreakErr, ExecLeave, At
  <2>2. CASE ExecJump
    BY <2>2, <1>2, <1>4, <1>6, JumpFits
  <2>3. CASE ExecNew
    <3>1. FlowsNew(Instr, s, t) /\ Fits(s)
      BY <2>3, <1>4, <1>6 DEF ExecNew, At, Flows
    <3> QED
      BY <2>3, <3>1, NewFits
  <2>4. CASE ExecFree
    <3>1. FlowsFree(Instr, s, t) /\ Fits(s)
      BY <2>4, <1>4, <1>6 DEF ExecFree, At, Flows
    <3> QED
      BY <2>4, <3>1, FreeFits
  <2>5. CASE ExecPop
    <3>1. FlowsPop(Instr, s, t) /\ Fits(s)
      BY <2>5, <1>4, <1>6 DEF ExecPop, At, Flows
    <3> QED
      BY <2>5, <3>1, PopFits
  <2>6. CASE ExecMark
    <3>1. FlowsMark(Instr, s, t) /\ Fits(s)
      BY <2>6, <1>4, <1>6 DEF ExecMark, At, Flows
    <3> QED
      BY <2>6, <3>1, MarkFits
  <2>7. CASE ExecCall
    <3>1. FlowsCall(s, t) /\ Fits(s)
      BY <2>7, <1>4, <1>6 DEF ExecCall, At, Flows
    <3> QED
      BY <2>7, <3>1, CallFits
  <2>8. CASE ExecNext
    <3>1. FlowsNext(s, t) /\ Fits(s)
      BY <2>8, <1>4, <1>6 DEF ExecNext, At, Flows
    <3> QED
      BY <2>8, <3>1, NextFits
  <2>9. CASE ExecReturnIfErr2
    <3>1. FlowsReturnIfErr2(Instr, s, t, B) /\ Fits(s)
      BY <2>9, <1>4, <1>6 DEF ExecReturnIfErr2, At, Flows
    <3> QED
      BY <2>9, <3>1, <1>2, <1>4, ReturnIfErr2Fits
  <2>10. CASE ExecClearBreakErr
    <3>1. FlowsClear(s, t) /\ Fits(s)
      BY <2>10, <1>4, <1>6 DEF ExecClearBreakErr, At, Flows
    <3> QED
      BY <2>10, <3>1, ClearFits
  <2>11. CASE ExecLeave
    <3>1. FlowsLeave(s, t) /\ Fits(s)
      BY <2>11, <1>4, <1>6 DEF ExecLeave, At, Flows
    <3> QED
      BY <2>11, <3>1, LeaveFits
  <2> QED
    BY <2>2, <2>3, <2>4, <2>5, <2>6, <2>7, <2>8, <2>9, <2>10, <2>11 DEF Execute
<1>8. IsPath(A, code, Start, Finish, B)'
  BY <1>1 DEF Follows, parser
<1>9. CASE Step /\ Fits(t)'
  <2>1. A[pc'] = t
    BY <1>4, <1>5, <1>9 DEF Step
  <2>2. Fits(A[pc])'
    BY <2>1, <1>9
  <2> QED
    BY <2>2, <1>2, <1>7, <1>8 DEF Follows
<1>10. CASE x.op \in JumpOps /\ GoTo(x.label) /\ \E u : u = B[x.label] /\ Fits(u)'
  <2>1. PICK u, q : u = B[x.label] /\ Fits(u)' /\ q = Position(x.label)
    BY <1>10
  <2>2. q \in DOMAIN code /\ code[q] = Label(x.label)
    BY <2>1, <1>1, <1>4, <1>10, WhileRunning
  <2>3. pc' = q /\ code' = code
    BY <2>1, <1>1, <1>10 DEF GoTo, parser
  <2>4. code'[pc'].op = "label" /\ code'[pc'].label = x.label /\ pc' \in DOMAIN code'
    BY <2>2, <2>3 DEF Label
  <2>5. Fits(B[code[pc].label])'
    BY <2>1, <2>4
  <2> QED
    BY <2>4, <2>5, <1>2, <1>7, <1>8 DEF Follows
<1> QED
  BY <1>7, <1>9, <1>10

LEMMA RInvInit == Init => RInv
<1> SUFFICES ASSUME Init PROVE RInv
  OBVIOUS
<1>1. PICK B \in [Nat -> Shape] : B = [l \in Nat |-> Dead]
  BY ShapeTypes
<1>2. /\ code = <<>> /\ varDefs = {} /\ pc = 0 /\ early = FALSE
      /\ DOMAIN blocks = {1} /\ blocks[1].kind = "function"
  BY DEF Init
<1>3. RulesOK
  BY <1>2 DEF RulesOK
<1>4. Path(code, Start, ShapeOf(varDefs, {"ok"}), B)
  <2>1. Own({}) = {} /\ Cardinality({}) = 0
    BY FS_EmptySet DEF Own, Owning
  <2>2. ShapeOf({}, {"ok"}) = Start
    BY <2>1 DEF ShapeOf, Start
  <2>3. PICK s, c : s \in Shape /\ s = Start /\ c = <<>>
    BY ShapeTypes DEF Start, Modes
  <2>4. Path(c, s, s, B)
    BY <2>3, PathNone
  <2> QED
    BY <2>2, <2>3, <2>4, <1>2
<1>5. \A i \in DOMAIN blocks : LabelsFit(blocks[i], varDefs, early, B)
  <2>1. B[ReturnLabel] = Dead /\ ReturnShape(varDefs, early) = Dead
    BY <1>1, <1>2 DEF ReturnLabel, ReturnShape
  <2> QED
    BY <2>1, <1>2 DEF LabelsFit
<1> QED
  BY <1>2, <1>3, <1>4, <1>5 DEF RInv, Annotated

LEMMA RInvNext ==
  ASSUME Ruled, SInv, SInv', RInv, [Next]_vars
  PROVE  RInv'
<1>1. CASE ParseStatement
  <2>1. pc = 0 /\ pc' = 0
    BY <1>1 DEF ParseStatement, NewVar, OpenIf, OpenFor, OpenLoop, Break, Return, ParseFail, Statement, Parsing
  <2>2. RulesOK /\ \E B : Annotated(B)
    BY <2>1 DEF RInv
  <2>3. PICK B : Annotated(B)
    BY <2>2
  <2>4. RulesOK' /\ \E C : Annotated(C)'
    <3>1. ASSUME NEW kind \in Kinds, NewVar(kind)
          PROVE  RulesOK' /\ \E C : Annotated(C)'
      BY <3>1, <2>2, <2>3, NewVarRuled
    <3>2. ASSUME NEW form \in Forms, Return(form)
          PROVE  RulesOK' /\ \E C : Annotated(C)'
      BY <3>2, <2>2, <2>3, LoopReturnRuled, PlainReturnRuled
    <3>3. ASSUME NEW form \in Forms, Break(form)
          PROVE  RulesOK' /\ \E C : Annotated(C)'
      BY <3>3, <2>2, <2>3, BreakRuled
    <3>4. ASSUME NEW form \in Forms, NEW k \in Codes, ParseFail(form, k)
          PROVE  RulesOK' /\ \E C : Annotated(C)'
      BY <3>4, <2>2, <2>3, ParseFailRuled
    <3>5. CASE OpenIf
      BY <3>5, <2>2, <2>3, OpenIfRuled
    <3>6. CASE OpenFor
      BY <3>6, <2>2, <2>3, OpenForRuled
    <3>7. CASE OpenLoop
      BY <3>7, <2>2, <2>3, OpenLoopRuled
    <3> QED
      BY <1>1, <3>1, <3>2, <3>3, <3>4, <3>5, <3>6, <3>7 DEF ParseStatement
  <2> QED
    BY <2>1, <2>4 DEF RInv
<1>2. CASE CloseIf \/ CloseFor \/ CloseLoop
  <2>1. pc = 0 /\ pc' = 0
    BY <1>2 DEF CloseIf, CloseFor, CloseLoop, Parsing
  <2>2. RulesOK /\ \E B : Annotated(B)
    BY <2>1 DEF RInv
  <2>3. PICK B : Annotated(B)
    BY <2>2
  <2>4. RulesOK' /\ Annotated(B)'
    BY <1>2, <2>2, <2>3, CloseIfRuled, CloseForRuled, CloseLoopRuled
  <2> QED
    BY <2>1, <2>4 DEF RInv
<1>3. CASE CloseFunction
  <2>1. pc = 0 /\ pc' = 1
    BY <1>3 DEF CloseFunction, Parsing
  <2>2. RulesOK /\ \E B : Annotated(B)
    BY <2>1 DEF RInv
  <2>3. PICK B : Annotated(B)
    BY <2>2
  <2>4. \E A : Follows(A, B)'
    BY <1>3, <2>2, <2>3, CloseFunctionRuled
  <2> QED
    BY <2>1, <2>4 DEF RInv
<1>4. CASE Execute
  <2>1. Running
    BY <1>4 DEF Execute, ExecNew, ExecFree, ExecPop, ExecMark, ExecJump, ExecCall, ExecNext,
       ExecReturnIfErr2, ExecClearBreakErr, ExecLeave, At
  <2>2. pc # 0
    BY <2>1, WhileRunning
  <2>3. PICK A, B : Follows(A, B)
    BY <2>2 DEF RInv
  <2>4. Follows(A, B)'
    BY <1>4, <2>3, ExecuteFollows
  <2>5. pc' # 0
    <3>1. blocks' = blocks /\ blocks = <<>>
      BY <1>4, <2>1, WhileRunning DEF Execute, ExecNew, ExecFree, ExecPop, ExecMark, ExecJump, ExecCall,
         ExecNext, ExecReturnIfErr2, ExecClearBreakErr, ExecLeave, parser
    <3> QED
      BY <3>1 DEF SInv, BlocksOK
  <2> QED
    BY <2>4, <2>5 DEF RInv
<1>5. CASE UNCHANGED vars
  <2>1. /\ code' = code /\ blocks' = blocks /\ varDefs' = varDefs /\ early' = early /\ pc' = pc
        /\ depth' = depth /\ stack' = stack /\ r15' = r15 /\ heap' = heap /\ leaving' = leaving
        /\ fault' = fault
    BY <1>5 DEF vars, parser, machine
  <2>2. RulesOK => RulesOK'
    BY <2>1 DEF RulesOK
  <2>3. ASSUME NEW B, Annotated(B)
        PROVE  Annotated(B)'
    BY <2>1, <2>3 DEF Annotated
  <2>4. ASSUME NEW s, Fits(s)
        PROVE  Fits(s)'
    <3>1. Holds(s.own)'
      BY <2>1, <2>4 DEF Fits, Holds, Unused
    <3>2. \E m \in s.modes : InMode(m, s.sp)'
      BY <2>1, <2>4 DEF Fits, InMode
    <3> QED
      BY <3>1, <3>2 DEF Fits
  <2>5. ASSUME NEW A, NEW B, Follows(A, B)
        PROVE  Follows(A, B)'
    <3>1. PICK s, u : s = A[pc] /\ u = B[code[pc].label]
      OBVIOUS
    <3>2. Fits(s) => Fits(A[pc])'
      BY <2>1, <2>4, <3>1
    <3>3. Fits(u) => Fits(B[code[pc].label])'
      BY <2>1, <2>4, <3>1
    <3> QED
      BY <2>1, <2>5, <3>1, <3>2, <3>3 DEF Follows
  <2> QED
    BY <2>1, <2>2, <2>3, <2>5 DEF RInv
<1> QED
  BY <1>1, <1>2, <1>3, <1>4, <1>5 DEF Next, Close

(* The code of a function that keeps the rules always does what the shapes *)
(* say.                                                                    *)
LEMMA ShapesHold == Spec => [](SInv /\ (Ruled => RInv))
<1>1. Init => RInv
  BY RInvInit
<1>2. SInv /\ SInv' /\ (Ruled => RInv) /\ [Next]_vars => (Ruled => RInv)'
  BY RInvNext DEF Ruled
<1>3. Spec => []SInv
  BY StructureHolds
<1> QED
  BY <1>1, <1>2, <1>3, PTL DEF Spec

-----------------------------------------------------------------------------
(* What the shape of an instruction or of the end says of the machine.     *)
LEMMA WhereItFits ==
  ASSUME SInv, RInv, pc # 0
  PROVE  /\ fault = "none"
         /\ At("new") => r15 = 0 /\ ~leaving
         /\ At("next") => ~leaving
         /\ Left => r15 \in {0} \cup Codes /\ \A o \in Objs : heap[o] = Unused
<1>1. PICK A, B : Follows(A, B)
  BY DEF RInv
<1>2. fault = "none" /\ \A i \in 1 .. Len(code) : Flows(code[i], A[i], A[i + 1], B)
  BY <1>1 DEF Follows, IsPath
<1>3. code \in Seq(Emitted) /\ Len(code) \in Nat
  BY DEF SInv, CodeOK
<1>4. ASSUME At("new")
      PROVE  r15 = 0 /\ ~leaving
  <2>1. pc \in 1 .. Len(code) /\ code[pc].op = "new"
    BY <1>3, <1>4 DEF At, Running, Instr
  <2>2. Fits(A[pc]) /\ A[pc].modes \subseteq {"ok"}
    BY <2>1, <1>1, <1>2 DEF Follows, Flows, FlowsNew
  <2> QED
    BY <2>2 DEF Fits, InMode
<1>5. ASSUME At("next")
      PROVE  ~leaving
  <2>1. pc \in 1 .. Len(code) /\ code[pc].op = "next"
    BY <1>3, <1>5 DEF At, Running, Instr
  <2>2. Fits(A[pc]) /\ A[pc].modes \subseteq {"ok", "broken"}
    BY <2>1, <1>1, <1>2 DEF Follows, Flows, FlowsNext
  <2> QED
    BY <2>2 DEF Fits, InMode
<1>6. ASSUME Left
      PROVE  r15 \in {0} \cup Codes /\ \A o \in Objs : heap[o] = Unused
  <2>1. pc \notin DOMAIN code /\ A[pc] = Finish
    BY <1>1, <1>3, <1>6 DEF Left, Follows, IsPath
  <2>2. Fits(Finish) /\ Finish.own = {} /\ Finish.modes = {"over"}
    BY <2>1, <1>1 DEF Follows, Finish, ShapeIs
  <2> QED
    BY <2>2 DEF Fits, Holds, InMode
<1> QED
  BY <1>2, <1>4, <1>5, <1>6

LEMMA WhileParsing ==
  ASSUME SInv, pc = 0
  PROVE  fault = "none" /\ ~leaving /\ ~Left /\ \A op : ~At(op)
<1>1. fault = "none" /\ ~leaving /\ code \in Seq(Emitted) /\ Len(code) \in Nat
  BY DEF SInv, MachineOK, CodeOK
<1>2. pc \notin DOMAIN code /\ pc # Len(code) + 1
  BY <1>1
<1> QED
  BY <1>1, <1>2 DEF Left, At, Running

(* NoStackFault: in a function that keeps the rules a new variable is      *)
(* always pushed at the offset the parser gave it, what is freed has been  *)
(* pushed and is an object, and next finds its iterator on top of the      *)
(* stack.                                                                  *)
THEOREM RulesKeepTheStack == Spec => []NoStackFault
<1>1. SInv /\ (Ruled => RInv) => NoStackFault
  BY WhereItFits, WhileParsing DEF NoStackFault
<1> QED
  BY <1>1, ShapesHold, PTL

(* MarksAreConsumed: in a function that keeps the rules every variable is  *)
(* initialised with r15 = 0.                                               *)
THEOREM RulesConsumeMarks == Spec => []MarksAreConsumed
<1>1. SInv /\ (Ruled => RInv) => MarksAreConsumed
  BY WhereItFits, WhileParsing DEF MarksAreConsumed
<1> QED
  BY <1>1, ShapesHold, PTL

(* LeavesWithError: a function that keeps the rules ends with r15 = 0 or   *)
(* the code of a fail, whatever breaks and returns it has executed.        *)
THEOREM RulesLeaveOwnErrors == Spec => []LeavesWithError
<1>1. SInv /\ (Ruled => RInv) => LeavesWithError
  BY WhereItFits, WhileParsing DEF LeavesWithError
<1> QED
  BY <1>1, ShapesHold, PTL

(* AllFreed: when a function that keeps the rules has returned, all its    *)
(* strings and iterators are free.                                         *)
THEOREM RulesFreeAll == Spec => []AllFreed
<1>1. SInv /\ (Ruled => RInv) => AllFreed
  BY WhereItFits, WhileParsing DEF AllFreed
<1> QED
  BY <1>1, ShapesHold, PTL

(* ReturnReturns: in a function that keeps the rules no variable is        *)
(* initialised and no iterator asked once a return inside loops has left   *)
(* its mark.                                                               *)
THEOREM RulesMakeReturnReturn == Spec => [](Ruled => ReturnReturns)
<1>1. SInv /\ (Ruled => RInv) => (Ruled => ReturnReturns)
  BY WhereItFits, WhileParsing DEF ReturnReturns
<1> QED
  BY <1>1, ShapesHold, PTL

=============================================================================
