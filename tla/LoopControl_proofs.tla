-------------------------- MODULE LoopControl_proofs --------------------------
(***************************************************************************)
(* The code that is emitted for a function, and what it does, for any      *)
(* number of statements, blocks, variables and elements.                   *)
(***************************************************************************)
EXTENDS LoopControl, Inductions, SequenceTheorems

-----------------------------------------------------------------------------
(* The parser's variables and blocks.                                      *)

BlockType == [kind : {"function", "if", "for", "loop"}, level : Nat, start : Nat,
              exit : Nat, break : Nat, broken : BOOLEAN]

(* A for loop has a level of its own for its variables.                    *)
Wide(b) == IF b.kind = "for" THEN 2 ELSE 1

BlocksOK ==
  /\ blocks \in Seq(BlockType)
  /\ pc = 0 <=> blocks # <<>>
  /\ \A i \in DOMAIN blocks :
       /\ blocks[i].kind = "function" <=> i = 1
       /\ i = 1 => blocks[i].level = 1
       /\ i # 1 => blocks[i].level = blocks[i - 1].level + Wide(blocks[i])
  /\ \A i, j \in DOMAIN blocks : i < j => blocks[i].level < blocks[j].level

(* The variables in the levels below L have the slots 1, 2, ...            *)
VarType == [kind : {"int", "str", "iter"}, level : Nat, ofs : Nat]
Under(vs, L) == {v \in vs : v.level < L}

Dense(vs) ==
  /\ vs \subseteq VarType /\ IsFiniteSet(vs)
  /\ \A v, w \in vs : v.ofs = w.ofs => v = w
  /\ \A L \in Nat : {v.ofs : v \in Under(vs, L)} = 1 .. Cardinality(Under(vs, L))

Below(L) == Under(varDefs, L)

SlotsOK ==
  /\ Dense(varDefs) /\ sp = Cardinality(varDefs)
  /\ varDefs # {} => blocks # <<>>
  /\ \A v \in varDefs : 1 <= v.level /\ v.level <= BlockLevel

(* Labels: those a block has asked for, and those it has yet to place.     *)
LabelsOf(b) ==
  CASE b.kind = "function" -> {}
    [] b.kind = "if" -> {b.exit}
    [] b.kind = "for" -> {b.start, b.exit}
    [] b.kind = "loop" -> {b.start, b.exit, b.break}
ToPlace(b) ==
  CASE b.kind = "function" -> {ReturnLabel}
    [] b.kind \in {"if", "for"} -> {b.exit}
    [] b.kind = "loop" -> {b.exit, b.break}
Unplaced == UNION {ToPlace(blocks[i]) : i \in DOMAIN blocks}

BlockLabelsOK ==
  \A i \in DOMAIN blocks :
    LET b == blocks[i]
    IN  /\ LabelsOf(b) \subseteq 1 .. labels
        /\ \A j \in DOMAIN blocks : i # j => LabelsOf(b) \cap LabelsOf(blocks[j]) = {}
        /\ b.kind = "for" => b.break = b.start /\ b.start # b.exit
        /\ b.kind = "loop" => b.break # b.start /\ b.start # b.exit /\ b.break # b.exit

JumpOps == {"jump", "jumpFalse", "jumpError", "jumpNoError", "returnIfErr2"}
Placed(c) == {ins.label : ins \in {i \in Range(c) : i.op = "label"}}
Targets(c) == {ins.label : ins \in {i \in Range(c) : i.op \in JumpOps}}

Emitted ==
  [op : {"new"}, kind : {"int", "str", "iter"}, ofs : Nat \ {0}]
    \cup [op : {"free"}, ofs : Nat \ {0}]
    \cup [op : {"pop"}, n : Nat]
    \cup [op : {"mark"}, n : {1} \cup Codes, by : {"statement"}]
    \cup [op : {"mark"}, n : {2}, by : {"return"}]
    \cup [op : JumpOps \cup {"label"}, label : Nat]
    \cup [op : {"call", "next", "clearBreakErr", "leave"}]

CodeOK ==
  /\ code \in Seq(Emitted)
  /\ Targets(code) \subseteq Placed(code) \cup Unplaced
  /\ Placed(code) \cap Unplaced = {}
  /\ Placed(code) \subseteq 0 .. labels
  /\ \A i \in DOMAIN blocks :
       blocks[i].kind \in {"for", "loop"} => blocks[i].start \in Placed(code)

ParserOK ==
  /\ labels \in Nat /\ stmts \in 0 .. MaxStmts
  /\ returned \in BOOLEAN /\ early \in BOOLEAN

MachineOK ==
  /\ pc \in 0 .. Len(code) + 1
  /\ depth \in Int /\ stack \in Seq(Objs \cup {0})
  /\ Len(stack) = IF depth > 0 THEN depth ELSE 0
  /\ r15 \in {0, 1, 2} \cup Codes
  /\ heap \in [Objs -> [kind : {"free", "str", "iter"}, left : 0 .. Items]]
  /\ leaving \in BOOLEAN
  /\ fault \in {"none", "wrong slot", "below the stack", "not an object",
                 "wrong argument"}
  /\ pc = 0 => /\ depth = 0 /\ stack = <<>> /\ r15 = 0 /\ ~leaving /\ fault = "none"
               /\ heap = [o \in Objs |-> Unused]

SInv == ParserOK /\ BlocksOK /\ SlotsOK /\ BlockLabelsOK /\ CodeOK /\ MachineOK

-----------------------------------------------------------------------------
(* Sets of variables.                                                      *)
LEMMA DenseFacts ==
  ASSUME NEW vs, Dense(vs), NEW L \in Nat
  PROVE  /\ Dense(Under(vs, L))
         /\ Cardinality(vs) \in Nat /\ Cardinality(Under(vs, L)) \in Nat
         /\ Cardinality(vs \ Under(vs, L)) = Cardinality(vs) - Cardinality(Under(vs, L))
         /\ Cardinality(Under(vs, L)) <= Cardinality(vs)
<1> DEFINE u == Under(vs, L)
<1>1. u \subseteq vs /\ IsFiniteSet(vs) /\ IsFiniteSet(u)
  BY FS_Subset DEF Dense, Under
<1>2. Cardinality(vs) \in Nat /\ Cardinality(u) \in Nat /\ Cardinality(u) <= Cardinality(vs)
  BY <1>1, FS_CardinalityType, FS_Subset
<1>3. Cardinality(vs \ u) = Cardinality(vs) - Cardinality(vs \cap u) /\ vs \cap u = u
  BY <1>1, FS_Difference
<1>4. ASSUME NEW M \in Nat
      PROVE  {v.ofs : v \in Under(u, M)} = 1 .. Cardinality(Under(u, M))
  <2>1. Under(u, M) = Under(vs, M) \/ Under(u, M) = Under(vs, L)
    <3>1. vs \subseteq VarType
      BY DEF Dense
    <3>2. \A v \in vs : v.level \in Nat
      BY <3>1 DEF VarType
    <3>3. M <= L => Under(u, M) = Under(vs, M)
      BY <3>2 DEF Under
    <3>4. L <= M => Under(u, M) = Under(vs, L)
      BY <3>2 DEF Under
    <3> QED
      BY <3>3, <3>4
  <2> QED
    BY <2>1 DEF Dense
<1>5. Dense(u)
  BY <1>1, <1>4 DEF Dense
<1> QED
  BY <1>2, <1>3, <1>5

LEMMA DenseAll ==
  ASSUME NEW vs, Dense(vs), NEW m \in Nat, \A v \in vs : v.level <= m
  PROVE  {v.ofs : v \in vs} = 1 .. Cardinality(vs)
<1>1. Under(vs, m + 1) = vs /\ m + 1 \in Nat
  BY DEF Under, Dense, VarType
<1> QED
  BY <1>1 DEF Dense

LEMMA DenseAdd ==
  ASSUME NEW vs, Dense(vs), NEW level \in Nat, \A v \in vs : v.level <= level,
         NEW kind \in {"int", "str", "iter"}
  PROVE  LET new == vs \cup {Define(kind, level, Cardinality(vs) + 1)}
         IN  Dense(new) /\ Cardinality(new) = Cardinality(vs) + 1
<1> DEFINE n == Cardinality(vs)
           d == Define(kind, level, n + 1)
           new == vs \cup {d}
<1>1. vs \subseteq VarType /\ IsFiniteSet(vs) /\ n \in Nat
  BY FS_CardinalityType DEF Dense
<1>2. d \in VarType /\ d.level = level /\ d.ofs = n + 1
  BY <1>1 DEF Define, VarType
<1>3. \A v \in vs : v.ofs \in 1 .. n
  BY DenseAll
<1>4. d \notin vs
  BY <1>1, <1>2, <1>3
<1> HIDE DEF d
<1>5. IsFiniteSet(new) /\ Cardinality(new) = n + 1
  BY <1>1, <1>4, FS_AddElement
<1>6. ASSUME NEW L \in Nat
      PROVE  {v.ofs : v \in Under(new, L)} = 1 .. Cardinality(Under(new, L))
  <2>1. CASE L <= level
    <3>1. Under(new, L) = Under(vs, L)
      BY <1>2, <2>1 DEF Under
    <3> QED
      BY <3>1 DEF Dense
  <2>2. CASE ~(L <= level)
    <3>1. \A v \in new : v.level < L
      BY <1>1, <1>2, <2>2 DEF VarType
    <3>2. Under(new, L) = new
      BY <3>1 DEF Under
    <3>3. {v.ofs : v \in new} = {v.ofs : v \in vs} \cup {n + 1}
      BY <1>2
    <3>4. 1 .. (n + 1) = (1 .. n) \cup {n + 1}
      BY <1>1
    <3> QED
      BY <1>5, <3>2, <3>3, <3>4, DenseAll
  <2> QED
    BY <2>1, <2>2
<1>7. \A v, w \in new : v.ofs = w.ofs => v = w
  BY <1>1, <1>2, <1>3 DEF Dense
<1>8. Dense(new)
  BY <1>1, <1>2, <1>5, <1>6, <1>7 DEF Dense
<1> QED
  BY <1>5, <1>8 DEF d

-----------------------------------------------------------------------------
(* Sequences of instructions.                                              *)
LEMMA RangeOfConcat ==
  ASSUME NEW S, NEW c \in Seq(S), NEW d \in Seq(S)
  PROVE  /\ c \o d \in Seq(S) /\ Range(c \o d) = Range(c) \cup Range(d)
         /\ Placed(c \o d) = Placed(c) \cup Placed(d)
         /\ Targets(c \o d) = Targets(c) \cup Targets(d)
<1>1. c \o d \in Seq(S)
  BY ConcatProperties
<1>2. Range(c \o d) = Range(c) \cup Range(d)
  BY RangeConcatenation
<1> QED
  BY <1>1, <1>2 DEF Placed, Targets

LEMMA EmittedConcat ==
  \A c, d \in Seq(Emitted) :
    /\ c \o d \in Seq(Emitted)
    /\ Placed(c \o d) = Placed(c) \cup Placed(d)
    /\ Targets(c \o d) = Targets(c) \cup Targets(d)
<1> TAKE c, d \in Seq(Emitted)
<1> HIDE DEF Placed, Targets
<1> QED
  BY RangeOfConcat

LEMMA SeqOne ==
  ASSUME NEW S, NEW a \in S
  PROVE  <<a>> \in Seq(S) /\ Range(<<a>>) = {a}
<1>1. DOMAIN <<a>> = {1}
  OBVIOUS
<1> QED
  BY <1>1 DEF Range

LEMMA SeqTwo ==
  ASSUME NEW S, NEW a \in S, NEW b \in S
  PROVE  <<a, b>> \in Seq(S) /\ Range(<<a, b>>) = {a, b}
<1>1. DOMAIN <<a, b>> = {1, 2}
  OBVIOUS
<1> QED
  BY <1>1 DEF Range

LEMMA SeqThree ==
  ASSUME NEW S, NEW a \in S, NEW b \in S, NEW c \in S
  PROVE  <<a, b, c>> \in Seq(S) /\ Range(<<a, b, c>>) = {a, b, c}
<1>1. DOMAIN <<a, b, c>> = {1, 2, 3}
  OBVIOUS
<1> QED
  BY <1>1 DEF Range

LEMMA SeqFive ==
  ASSUME NEW S, NEW a \in S, NEW b \in S, NEW c \in S, NEW d \in S, NEW e \in S
  PROVE  <<a, b, c, d, e>> \in Seq(S) /\ Range(<<a, b, c, d, e>>) = {a, b, c, d, e}
<1>1. DOMAIN <<a, b, c, d, e>> = {1, 2, 3, 4, 5}
  OBVIOUS
<1> QED
  BY <1>1 DEF Range

LEMMA SeqNone ==
  ASSUME NEW S
  PROVE  <<>> \in Seq(S) /\ Range(<<>>) = {} /\ Placed(<<>>) = {} /\ Targets(<<>>) = {}
<1>1. DOMAIN <<>> = {}
  OBVIOUS
<1> QED
  BY <1>1 DEF Range, Placed, Targets

(* The owners in vs are freed one after the other.                         *)
LEMMA FreesList ==
  ASSUME NEW vs, vs \subseteq VarType, IsFiniteSet(vs)
  PROVE  LET n == Cardinality(Owning(vs))
         IN  /\ n \in Nat
             /\ \E f \in [1 .. n -> Owning(vs)] :
                  /\ \A i, j \in 1 .. n : f[i] = f[j] => i = j
                  /\ \A v \in Owning(vs) : \E i \in 1 .. n : f[i] = v
                  /\ Frees(vs) = [i \in 1 .. n |-> Free(f[i])]
<1> DEFINE S == Owning(vs)
           n == Cardinality(S)
           f == SetToSeq(S)
<1>1. IsFiniteSet(S) /\ n \in Nat
  <2>1. S \subseteq vs
    BY DEF Owning
  <2> QED
    BY <2>1, FS_Subset, FS_CardinalityType
<1>2. \E g : g \in Bijection(1 .. n, S)
  <2> HIDE DEF S
  <2>1. ExistsBijection(1 .. n, S)
    BY <1>1, FS_NatBijection, FS_CountingElements, FS_CardinalityType
  <2> QED
    BY <2>1 DEF ExistsBijection
<1>3. PICK g \in Bijection(1 .. n, S) : TRUE
  BY <1>2
<1> HIDE DEF n, S
<1>4. g \in [1 .. n -> S] /\ IsInjective(g)
  BY <1>3 DEF Bijection, Injection
<1>5. f \in [1 .. n -> S] /\ IsInjective(f)
  BY <1>4 DEF SetToSeq, n
<1> HIDE DEF f
<1>6. f \in Injection(1 .. n, S)
  BY <1>5 DEF Injection
<1>7. IsFiniteSet(1 .. n) /\ Cardinality(1 .. n) = Cardinality(S)
  <2>1. n = Cardinality(S)
    BY DEF n
  <2> HIDE DEF n
  <2>2. IsFiniteSet(1 .. n) /\ Cardinality(1 .. n) = n
    BY <1>1, FS_Interval
  <2> QED
    BY <2>1, <2>2
<1>8. f \in Surjection(1 .. n, S)
  BY <1>1, <1>6, <1>7, FS_Injection
<1>9. /\ \A i, j \in 1 .. n : f[i] = f[j] => i = j
      /\ \A v \in S : \E i \in 1 .. n : f[i] = v
  <2>1. \A i, j \in DOMAIN f : f[i] = f[j] => i = j
    BY <1>5 DEF IsInjective
  <2> QED
    BY <1>5, <1>8, <2>1 DEF Surjection
<1>10. Frees(vs) = [i \in 1 .. n |-> Free(f[i])]
  <2>1. Len(f) = n /\ f = SetToSeq(Owning(vs))
    BY <1>1, <1>5 DEF f, S
  <2> QED
    BY <2>1 DEF Frees
<1> QED
  BY <1>1, <1>5, <1>9, <1>10 DEF S, n

LEMMA FreesEmitted ==
  ASSUME NEW vs, vs \subseteq VarType, IsFiniteSet(vs), \A v \in vs : v.ofs # 0
  PROVE  /\ Frees(vs) \in Seq(Emitted) /\ Placed(Frees(vs)) = {} /\ Targets(Frees(vs)) = {}
         /\ \A i \in DOMAIN Frees(vs) : \E v \in Owning(vs) : Frees(vs)[i] = Free(v)
<1> DEFINE n == Cardinality(Owning(vs))
<1>1. n \in Nat
  BY FreesList
<1>2. PICK f \in [1 .. n -> Owning(vs)] : Frees(vs) = [i \in 1 .. n |-> Free(f[i])]
  BY FreesList
<1> HIDE DEF n
<1> DEFINE F == [i \in 1 .. n |-> Free(f[i])]
<1>3. \A v \in Owning(vs) : Free(v) \in Emitted /\ Free(v).op = "free"
  BY DEF Owning, VarType, Free, Emitted
<1>4. \A i \in 1 .. n : F[i] \in Emitted /\ F[i].op = "free" /\ f[i] \in Owning(vs) /\ F[i] = Free(f[i])
  BY <1>2, <1>3
<1>5. DOMAIN F = 1 .. n
  OBVIOUS
<1> HIDE DEF F
<1>6. F \in [1 .. n -> Emitted]
  <2>1. F = [i \in 1 .. n |-> F[i]]
    BY DEF F
  <2> QED
    BY <1>4, <2>1
<1>7. F \in Seq(Emitted)
  BY <1>1, <1>6
<1>8. \A x \in Range(F) : x.op = "free"
  BY <1>4, <1>5 DEF Range
<1>9. Placed(F) = {} /\ Targets(F) = {}
  BY <1>8 DEF Placed, Targets, JumpOps
<1> QED
  BY <1>2, <1>4, <1>5, <1>7, <1>9 DEF F

LEMMA PopsEmitted ==
  ASSUME NEW n \in Nat
  PROVE  Pops(n) \in Seq(Emitted) /\ Placed(Pops(n)) = {} /\ Targets(Pops(n)) = {}
<1>1. CASE n = 0
  BY <1>1, SeqNone DEF Pops
<1>2. CASE n # 0
  <2> DEFINE p == [op |-> "pop", n |-> n]
  <2>1. p \in Emitted /\ p.op = "pop"
    BY DEF Emitted
  <2> HIDE DEF p
  <2>2. <<p>> \in Seq(Emitted) /\ Range(<<p>>) = {p}
    BY <2>1, SeqOne
  <2>3. Placed(<<p>>) = {} /\ Targets(<<p>>) = {}
    BY <2>1, <2>2 DEF Placed, Targets, JumpOps
  <2> QED
    BY <1>2, <2>2, <2>3 DEF Pops, p
<1> QED
  BY <1>1, <1>2

LEMMA FreeVarsEmitted ==
  ASSUME NEW vs, vs \subseteq VarType, IsFiniteSet(vs), \A v \in vs : v.ofs # 0
  PROVE  FreeVars(vs) \in Seq(Emitted) /\ Placed(FreeVars(vs)) = {} /\ Targets(FreeVars(vs)) = {}
<1>1. Frees(vs) \in Seq(Emitted) /\ Placed(Frees(vs)) = {} /\ Targets(Frees(vs)) = {}
  BY FreesEmitted
<1>2. PICK n : n = Cardinality(vs)
  OBVIOUS
<1>3. Pops(n) \in Seq(Emitted) /\ Placed(Pops(n)) = {} /\ Targets(Pops(n)) = {}
  BY <1>2, FS_CardinalityType, PopsEmitted
<1>4. PICK c \in Seq(Emitted) : c = Frees(vs)
  BY <1>1
<1>5. PICK d \in Seq(Emitted) : d = Pops(n)
  BY <1>3
<1>6. c \o d \in Seq(Emitted) /\ Placed(c \o d) = {} /\ Targets(c \o d) = {}
  BY <1>1, <1>3, <1>4, <1>5, RangeOfConcat
<1> QED
  BY <1>2, <1>4, <1>5, <1>6 DEF FreeVars

(* What a block's end, and a jump out of it, do to the variables.          *)
LEMMA Levels ==
  ASSUME SlotsOK, NEW L \in Nat
  PROVE  /\ VarsAt(L) \subseteq VarType /\ IsFiniteSet(VarsAt(L))
         /\ \A v \in varDefs : v.ofs # 0 /\ v.ofs \in 1 .. sp
         /\ varDefs \ VarsAt(L) = Below(L) /\ Dense(Below(L))
         /\ sp \in Nat /\ Cardinality(VarsAt(L)) \in Nat
         /\ Cardinality(Below(L)) \in Nat
         /\ sp - Cardinality(VarsAt(L)) = Cardinality(Below(L))
         /\ Cardinality(Below(L)) <= sp
<1>1. Dense(varDefs) /\ sp = Cardinality(varDefs) /\ varDefs \subseteq VarType /\ IsFiniteSet(varDefs)
  BY DEF SlotsOK, Dense
<1>2. VarsAt(L) = varDefs \ Below(L) /\ varDefs \ VarsAt(L) = Below(L)
  BY <1>1 DEF VarsAt, Below, Under, VarType
<1>3. VarsAt(L) \subseteq VarType /\ IsFiniteSet(VarsAt(L))
  BY <1>1, <1>2, FS_Subset
<1>4. Cardinality(VarsAt(L)) \in Nat
  BY <1>3, FS_CardinalityType
<1>5. /\ Dense(Below(L)) /\ sp \in Nat /\ Cardinality(Below(L)) \in Nat
      /\ Cardinality(VarsAt(L)) = sp - Cardinality(Below(L)) /\ Cardinality(Below(L)) <= sp
  BY <1>1, <1>2, DenseFacts DEF Below
<1>6. ASSUME NEW v \in varDefs
      PROVE  v.ofs \in 1 .. sp
  <2>1. v.level \in Nat
    BY <1>1 DEF VarType
  <2>2. v \in Under(varDefs, v.level + 1) /\ v.level + 1 \in Nat
    BY <2>1 DEF Under
  <2>3. PICK M \in Nat : v \in Under(varDefs, M)
    BY <2>2
  <2>4. {w.ofs : w \in Under(varDefs, M)} = 1 .. Cardinality(Under(varDefs, M))
    BY <1>1 DEF Dense
  <2>5. Cardinality(Under(varDefs, M)) \in Nat /\ Cardinality(Under(varDefs, M)) <= sp
    BY <1>1, DenseFacts
  <2> QED
    BY <1>5, <2>3, <2>4, <2>5
<1> QED
  BY <1>1, <1>2, <1>3, <1>4, <1>5, <1>6

(* The code that frees and pops the variables of a level and above.        *)
LEMMA FreeLevels ==
  ASSUME SlotsOK, NEW L \in Nat
  PROVE  /\ FreeBlockVars(L) \in Seq(Emitted)
         /\ Placed(FreeBlockVars(L)) = {} /\ Targets(FreeBlockVars(L)) = {}
         /\ FreeBlockVarsNoDelete(L) \in Seq(Emitted)
         /\ Placed(FreeBlockVarsNoDelete(L)) = {} /\ Targets(FreeBlockVarsNoDelete(L)) = {}
<1>1. PICK vs : vs = VarsAt(L)
  OBVIOUS
<1>2. vs \subseteq VarType /\ IsFiniteSet(vs) /\ \A v \in vs : v.ofs # 0
  BY <1>1, Levels DEF VarsAt
<1>3. PICK n \in Nat : n = Cardinality(vs)
  BY <1>2, FS_CardinalityType
<1>4. FreeVars(vs) \in Seq(Emitted) /\ Placed(FreeVars(vs)) = {} /\ Targets(FreeVars(vs)) = {}
  BY <1>2, FreeVarsEmitted
<1>5. Pops(n) \in Seq(Emitted) /\ Placed(Pops(n)) = {} /\ Targets(Pops(n)) = {}
  BY PopsEmitted
<1> QED
  BY <1>1, <1>3, <1>4, <1>5 DEF FreeBlockVars, FreeBlockVarsNoDelete

-----------------------------------------------------------------------------
(* The open blocks.                                                        *)
LEMMA LargestOf ==
  ASSUME NEW n \in Nat, NEW S \in SUBSET (1 .. n), S # {}
  PROVE  \E i \in S : \A j \in S : j <= i
<1> SUFFICES ASSUME \A i \in S : \E j \in S : j > i PROVE FALSE
  OBVIOUS
<1> DEFINE R == {m \in Nat : \E i \in S : i >= m}
<1>0. \A i \in S : i \in Nat /\ i <= n
  OBVIOUS
<1>1. 0 \in R
  <2>1. PICK i \in S : TRUE
    OBVIOUS
  <2>2. i >= 0
    BY <1>0
  <2> QED
    BY <2>2
<1>2. \A m \in Nat : m \in R => m + 1 \in R
  BY <1>0
<1>3. Nat \subseteq R
  <2> HIDE DEF R
  <2> QED
    BY <1>1, <1>2, NatSetInduction
<1>4. n + 1 \in R
  <2> HIDE DEF R
  <2> QED
    BY <1>3
<1> QED
  BY <1>0, <1>4

LEMMA OpenBlocks ==
  ASSUME SInv
  PROVE  /\ Parsing => /\ Len(blocks) \in Nat \ {0} /\ Block \in BlockType
                       /\ Len(blocks) \in DOMAIN blocks /\ BlockLevel \in Nat /\ BlockLevel >= 1
                       /\ \A i \in DOMAIN blocks : 1 <= blocks[i].level /\ blocks[i].level <= BlockLevel
         /\ \A i \in DOMAIN blocks : i \in 1 .. Len(blocks) /\ blocks[i] \in BlockType
         /\ InLoop => InnermostAt \in LoopBlocks /\ \A j \in LoopBlocks : j <= InnermostAt
<1>1. blocks \in Seq(BlockType) /\ Len(blocks) \in Nat /\ DOMAIN blocks = 1 .. Len(blocks)
  BY DEF SInv, BlocksOK
<1>2. \A i \in DOMAIN blocks : i \in 1 .. Len(blocks) /\ blocks[i] \in BlockType
  BY <1>1
<1>3. ASSUME InLoop
      PROVE  InnermostAt \in LoopBlocks /\ \A j \in LoopBlocks : j <= InnermostAt
  <2>1. PICK n \in Nat : n = Len(blocks)
    BY <1>1
  <2>2. PICK S : S = LoopBlocks
    OBVIOUS
  <2>3. S \in SUBSET (1 .. n) /\ S # {}
    BY <1>1, <1>3, <2>1, <2>2 DEF LoopBlocks, InLoop
  <2>4. \E i \in S : \A j \in S : j <= i
    BY <2>3, LargestOf
  <2> QED
    BY <2>2, <2>4 DEF InnermostAt
<1>4. ASSUME Parsing
      PROVE  /\ Len(blocks) \in Nat \ {0} /\ Block \in BlockType
             /\ Len(blocks) \in DOMAIN blocks /\ BlockLevel \in Nat /\ BlockLevel >= 1
             /\ \A i \in DOMAIN blocks : 1 <= blocks[i].level /\ blocks[i].level <= BlockLevel
  <2>1. Len(blocks) \in Nat \ {0} /\ Len(blocks) \in DOMAIN blocks /\ 1 \in DOMAIN blocks
    BY <1>1, <1>4 DEF Parsing
  <2>2. Block \in BlockType /\ BlockLevel \in Nat
    BY <1>2, <2>1 DEF Block, BlockLevel, BlockType
  <2>3. ASSUME NEW i \in DOMAIN blocks
        PROVE  1 <= blocks[i].level /\ blocks[i].level <= BlockLevel
    <3>1. blocks[1].level = 1 /\ blocks[i].level \in Nat
      BY <1>2, <2>1 DEF SInv, BlocksOK, BlockType
    <3>2. i = 1 \/ blocks[1].level < blocks[i].level
      BY <1>1, <2>1 DEF SInv, BlocksOK
    <3>3. i = Len(blocks) \/ blocks[i].level < blocks[Len(blocks)].level
      BY <1>1, <2>1 DEF SInv, BlocksOK
    <3> QED
      BY <2>2, <3>1, <3>2, <3>3 DEF BlockLevel, Block
  <2>4. \A i \in DOMAIN blocks : 1 <= blocks[i].level /\ blocks[i].level <= BlockLevel
    BY <2>3
  <2>5. BlockLevel >= 1
    <3>1. 1 <= BlockLevel
      BY <2>1, <2>4 DEF BlockLevel, Block
    <3> QED
      BY <2>2, <3>1
  <2> QED
    BY <2>1, <2>2, <2>4, <2>5
<1> QED
  BY <1>2, <1>3, <1>4

LEMMA UnplacedLabels ==
  ASSUME SInv
  PROVE  /\ \A i \in DOMAIN blocks : ToPlace(blocks[i]) \subseteq Unplaced
         /\ Unplaced \subseteq 0 .. labels
         /\ InLoop => Loop.exit \in Unplaced /\ Loop.break \in Unplaced \cup Placed(code)
         /\ Parsing => ReturnLabel \in Unplaced
<1>1. \A i \in DOMAIN blocks : blocks[i] \in BlockType
  BY OpenBlocks
<1>2. \A i \in DOMAIN blocks : ToPlace(blocks[i]) \subseteq LabelsOf(blocks[i]) \cup {0}
  BY <1>1 DEF ToPlace, LabelsOf, BlockType, ReturnLabel
<1>3. \A i \in DOMAIN blocks : LabelsOf(blocks[i]) \subseteq 1 .. labels
  BY DEF SInv, BlockLabelsOK
<1>4. labels \in Nat
  BY DEF SInv, ParserOK
<1>5. \A i \in DOMAIN blocks : ToPlace(blocks[i]) \subseteq Unplaced /\ ToPlace(blocks[i]) \subseteq 0 .. labels
  BY <1>2, <1>3, <1>4 DEF Unplaced
<1>6. Unplaced \subseteq 0 .. labels
  BY <1>5 DEF Unplaced
<1>7. ASSUME InLoop
      PROVE  Loop.exit \in Unplaced /\ Loop.break \in Unplaced \cup Placed(code)
  <2>1. PICK k : k = InnermostAt
    OBVIOUS
  <2>2. k \in DOMAIN blocks /\ blocks[k].kind \in {"for", "loop"} /\ Loop = blocks[k]
    BY <1>7, <2>1, OpenBlocks DEF LoopBlocks, Loop
  <2>3. blocks[k].exit \in ToPlace(blocks[k])
    BY <2>2 DEF ToPlace
  <2>4. CASE blocks[k].kind = "for"
    <3>1. blocks[k].break = blocks[k].start /\ blocks[k].start \in Placed(code)
      BY <2>2, <2>4 DEF SInv, BlockLabelsOK, CodeOK
    <3> QED
      BY <1>5, <2>2, <2>3, <3>1
  <2>5. CASE blocks[k].kind = "loop"
    <3>1. blocks[k].break \in ToPlace(blocks[k])
      BY <2>5 DEF ToPlace
    <3> QED
      BY <1>5, <2>2, <2>3, <3>1
  <2> QED
    BY <2>2, <2>4, <2>5
<1>8. ASSUME Parsing
      PROVE  ReturnLabel \in Unplaced
  <2>1. 1 \in DOMAIN blocks /\ blocks[1].kind = "function"
    BY <1>8, OpenBlocks DEF SInv, BlocksOK
  <2>2. ReturnLabel \in ToPlace(blocks[1])
    BY <2>1 DEF ToPlace
  <2> QED
    BY <1>5, <2>1, <2>2
<1> QED
  BY <1>5, <1>6, <1>7, <1>8

(* What is emitted behind the code.                                        *)
LEMMA CodeExtended ==
  ASSUME SInv, NEW d \in Seq(Emitted), code' = code \o d,
         labels' \in Nat, labels <= labels', Placed(d) \subseteq 0 .. labels',
         Targets(d) \subseteq Placed(code) \cup Placed(d) \cup Unplaced',
         Unplaced \subseteq Placed(d) \cup Unplaced',
         (Placed(code) \cup Placed(d)) \cap Unplaced' = {},
         \A i \in DOMAIN blocks' :
           blocks'[i].kind \in {"for", "loop"} => blocks'[i].start \in Placed(code) \cup Placed(d)
  PROVE  CodeOK'
<1>1. PICK c \in Seq(Emitted) : c = code
  BY DEF SInv, CodeOK
<1>2. PICK e : e = code'
  OBVIOUS
<1>3. /\ e = c \o d /\ e \in Seq(Emitted)
      /\ Placed(e) = Placed(c) \cup Placed(d) /\ Targets(e) = Targets(c) \cup Targets(d)
  BY <1>1, <1>2, RangeOfConcat
<1>4. Targets(c) \subseteq Placed(c) \cup Unplaced /\ Placed(c) \subseteq 0 .. labels /\ labels \in Nat
  BY <1>1 DEF SInv, CodeOK, ParserOK
<1>5. Targets(e) \subseteq Placed(e) \cup Unplaced'
  BY <1>1, <1>3, <1>4
<1>6. Placed(e) \subseteq 0 .. labels'
  BY <1>1, <1>3, <1>4
<1>7. Placed(e) \cap Unplaced' = {}
  BY <1>1, <1>3
<1>8. \A i \in DOMAIN blocks' : blocks'[i].kind \in {"for", "loop"} => blocks'[i].start \in Placed(e)
  BY <1>1, <1>3
<1>9. Placed(code)' = Placed(e) /\ Targets(code)' = Targets(e)
  BY <1>2 DEF Placed, Targets
<1> QED
  BY <1>2, <1>3, <1>5, <1>6, <1>7, <1>8, <1>9 DEF CodeOK

(* A block is opened.                                                      *)
LEMMA BlockOpened ==
  ASSUME SInv, Parsing, pc' = pc, NEW b \in BlockType, b.kind # "function",
         b.level = BlockLevel + Wide(b), blocks' = Append(blocks, b),
         labels' \in Nat, labels <= labels', LabelsOf(b) \subseteq labels + 1 .. labels',
         b.kind = "for" => b.break = b.start /\ b.start # b.exit,
         b.kind = "loop" => b.break # b.start /\ b.start # b.exit /\ b.break # b.exit
  PROVE  /\ BlocksOK' /\ BlockLabelsOK' /\ Unplaced' = Unplaced \cup ToPlace(b)
         /\ blocks' # <<>> /\ BlockLevel' = b.level
         /\ \A i \in DOMAIN blocks' :
              blocks'[i] = b \/ (i \in DOMAIN blocks /\ blocks'[i] = blocks[i])
<1> DEFINE n == Len(blocks)
<1>1. n \in Nat \ {0} /\ blocks \in Seq(BlockType) /\ DOMAIN blocks = 1 .. n
  BY OpenBlocks DEF SInv, BlocksOK
<1>2. /\ blocks' \in Seq(BlockType) /\ Len(blocks') = n + 1 /\ DOMAIN blocks' = 1 .. n + 1
      /\ blocks'[n + 1] = b /\ \A i \in 1 .. n : blocks'[i] = blocks[i]
  BY <1>1
<1>3. blocks' # <<>> /\ BlockLevel' = b.level
  BY <1>1, <1>2 DEF BlockLevel, Block
<1>4. Wide(b) \in {1, 2} /\ b.level \in Nat
  BY DEF Wide, BlockType
<1>5. BlockLevel \in Nat /\ BlockLevel = blocks[n].level /\ \A i \in 1 .. n : blocks[i].level <= BlockLevel /\ blocks[i].level \in Nat
  BY <1>1, OpenBlocks DEF BlockLevel, Block, BlockType
<1>6. BlocksOK'
  <2>1. pc' = 0 /\ blocks' # <<>>
    BY <1>3 DEF Parsing
  <2>2. ASSUME NEW i \in 1 .. n + 1
        PROVE  /\ blocks'[i].kind = "function" <=> i = 1
               /\ i = 1 => blocks'[i].level = 1
               /\ i # 1 => blocks'[i].level = blocks'[i - 1].level + Wide(blocks'[i])
    <3>1. CASE i = n + 1
      <4>1. i - 1 = n /\ i # 1 /\ n \in 1 .. n
        BY <1>1, <3>1
      <4>2. blocks'[i] = b /\ blocks'[i - 1] = blocks[n] /\ b.level = blocks[n].level + Wide(b)
        BY <1>2, <1>5, <3>1, <4>1
      <4> QED
        BY <4>1, <4>2
    <3>2. CASE i # n + 1
      <4>1. i \in 1 .. n /\ (i # 1 => i - 1 \in 1 .. n)
        BY <1>1, <3>2
      <4> QED
        BY <1>1, <1>2, <4>1 DEF SInv, BlocksOK
    <3> QED
      BY <3>1, <3>2
  <2>3. ASSUME NEW i \in 1 .. n + 1, NEW j \in 1 .. n + 1, i < j
        PROVE  blocks'[i].level < blocks'[j].level
    <3>1. i \in 1 .. n
      BY <1>1, <2>3
    <3>2. CASE j = n + 1
      BY SMTT(30), <1>2, <1>4, <1>5, <3>1, <3>2
    <3>3. CASE j # n + 1
      <4>1. j \in 1 .. n
        BY <1>1, <3>3
      <4> QED
        BY <1>1, <1>2, <2>3, <3>1, <4>1 DEF SInv, BlocksOK
    <3> QED
      BY <3>2, <3>3
  <2> QED
    BY <1>2, <2>1, <2>2, <2>3 DEF BlocksOK
<1>7. Unplaced' = Unplaced \cup ToPlace(b)
  <2>1. \A i \in 1 .. n + 1 : blocks'[i] = IF i = n + 1 THEN b ELSE blocks[i]
    BY <1>1, <1>2
  <2>2. Unplaced' = UNION {ToPlace(blocks'[i]) : i \in 1 .. n + 1}
    BY <1>2 DEF Unplaced, ToPlace
  <2>3. {ToPlace(blocks'[i]) : i \in 1 .. n + 1} = {ToPlace(blocks[i]) : i \in 1 .. n} \cup {ToPlace(b)}
    BY <1>1, <1>2
  <2> QED
    BY <1>1, <2>2, <2>3 DEF Unplaced
<1>8. BlockLabelsOK'
  <2>1. \A i \in 1 .. n : LabelsOf(blocks[i]) \subseteq 1 .. labels
    BY <1>1 DEF SInv, BlockLabelsOK
  <2>2. labels \in Nat
    BY DEF SInv, ParserOK
  <2>3. \A i \in 1 .. n + 1 : LabelsOf(blocks'[i]) \subseteq 1 .. labels'
    BY <1>1, <1>2, <2>1, <2>2
  <2>4. \A i \in 1 .. n : LabelsOf(b) \cap LabelsOf(blocks[i]) = {}
    BY <2>1, <2>2
  <2>5. ASSUME NEW i \in 1 .. n + 1, NEW j \in 1 .. n + 1, i # j
        PROVE  LabelsOf(blocks'[i]) \cap LabelsOf(blocks'[j]) = {}
    <3>1. CASE i = n + 1
      BY <1>1, <1>2, <2>4, <2>5, <3>1
    <3>2. CASE j = n + 1
      BY <1>1, <1>2, <2>4, <2>5, <3>2
    <3>3. CASE i # n + 1 /\ j # n + 1
      <4>1. i \in 1 .. n /\ j \in 1 .. n
        BY <1>1, <3>3
      <4> QED
        BY <1>1, <1>2, <2>5, <4>1 DEF SInv, BlockLabelsOK
    <3> QED
      BY <3>1, <3>2, <3>3
  <2>6. ASSUME NEW i \in 1 .. n + 1
        PROVE  /\ blocks'[i].kind = "for" => blocks'[i].break = blocks'[i].start /\ blocks'[i].start # blocks'[i].exit
               /\ blocks'[i].kind = "loop" => /\ blocks'[i].break # blocks'[i].start /\ blocks'[i].start # blocks'[i].exit
                                              /\ blocks'[i].break # blocks'[i].exit
    <3>1. CASE i = n + 1
      BY <1>2, <3>1
    <3>2. CASE i # n + 1
      <4>1. i \in 1 .. n
        BY <1>1, <3>2
      <4> QED
        BY <1>1, <1>2, <4>1 DEF SInv, BlockLabelsOK
    <3> QED
      BY <3>1, <3>2
  <2> QED
    BY <1>2, <2>3, <2>5, <2>6 DEF BlockLabelsOK, LabelsOf
<1>9. ASSUME NEW i \in DOMAIN blocks'
      PROVE  blocks'[i] = b \/ (i \in DOMAIN blocks /\ blocks'[i] = blocks[i])
  <2>1. i = n + 1 \/ i \in 1 .. n
    <3>1. i \in 1 .. n + 1 /\ n \in Nat
      BY <1>1, <1>2, <1>9
    <3> HIDE DEF n
    <3> QED
      BY <3>1
  <2>2. blocks'[n + 1] = b /\ DOMAIN blocks = 1 .. n /\ \A j \in 1 .. n : blocks'[j] = blocks[j]
    BY <1>1, <1>2
  <2>3. CASE i = n + 1
    BY <2>2, <2>3
  <2>4. CASE i \in 1 .. n
    BY <2>2, <2>4
  <2> QED
    BY <2>1, <2>3, <2>4
<1> QED
  BY <1>3, <1>6, <1>7, <1>8, <1>9
(* The innermost block is closed.                                          *)
LEMMA BlockClosed ==
  ASSUME SInv, Parsing, Closed, labels' = labels, pc' = 0 <=> Len(blocks) # 1
  PROVE  /\ BlocksOK' /\ BlockLabelsOK'
         /\ Unplaced = Unplaced' \cup ToPlace(Block) /\ Unplaced' \cap ToPlace(Block) = {}
         /\ Len(blocks) = 1 <=> blocks' = <<>>
         /\ Block.kind = "function" <=> Len(blocks) = 1
         /\ Len(blocks) # 1 => BlockLevel' = BlockLevel - Wide(Block)
         /\ \A i \in DOMAIN blocks' : i \in DOMAIN blocks /\ blocks'[i] = blocks[i]
<1> DEFINE n == Len(blocks)
<1>1. n \in Nat \ {0} /\ blocks \in Seq(BlockType) /\ DOMAIN blocks = 1 .. n
  BY OpenBlocks DEF SInv, BlocksOK
<1>2. /\ blocks' \in Seq(BlockType) /\ Len(blocks') = n - 1 /\ DOMAIN blocks' = 1 .. n - 1
      /\ \A i \in 1 .. n - 1 : i \in 1 .. n /\ blocks'[i] = blocks[i]
  BY <1>1 DEF Closed
<1>3. n = 1 <=> blocks' = <<>>
  BY <1>1, <1>2
<1>4. Block = blocks[n] /\ Block \in BlockType
  BY OpenBlocks DEF Block
<1>5. Block.kind = "function" <=> n = 1
  BY <1>1, <1>4 DEF SInv, BlocksOK
<1>6. ASSUME n # 1
      PROVE  BlockLevel' = BlockLevel - Wide(Block)
  <2>1. blocks[n].level = blocks[n - 1].level + Wide(blocks[n]) /\ n - 1 \in 1 .. n
    BY <1>1, <1>6 DEF SInv, BlocksOK
  <2>2. BlockLevel' = blocks[n - 1].level
    BY <1>1, <1>2, <1>6 DEF BlockLevel, Block
  <2>3. blocks[n - 1].level \in Nat /\ Wide(Block) \in Nat
    <3>1. \A i \in 1 .. n : blocks[i].level \in Nat
      BY <1>1, OpenBlocks DEF BlockType
    <3>2. n - 1 \in 1 .. n
      BY <2>1
    <3> QED
      BY <3>1, <3>2 DEF Wide
  <2> QED
    BY <1>4, <2>1, <2>2, <2>3 DEF BlockLevel
<1>7. BlocksOK'
  <2>1. \A i \in 1 .. n - 1 :
          /\ blocks[i].kind = "function" <=> i = 1
          /\ i = 1 => blocks[i].level = 1
          /\ i # 1 => blocks[i].level = blocks[i - 1].level + Wide(blocks[i])
    BY <1>1 DEF SInv, BlocksOK
  <2>2. \A i, j \in 1 .. n - 1 : i < j => blocks[i].level < blocks[j].level
    BY <1>1 DEF SInv, BlocksOK
  <2>3. \A i \in 1 .. n - 1 : i # 1 => i - 1 \in 1 .. n - 1
    BY <1>1
  <2>4. pc' = 0 <=> blocks' # <<>>
    BY <1>3
  <2> QED
    BY <1>2, <2>1, <2>2, <2>3, <2>4 DEF BlocksOK, Wide
<1>8. BlockLabelsOK'
  BY <1>1, <1>2 DEF SInv, BlockLabelsOK, LabelsOf
<1>9. {ToPlace(blocks[i]) : i \in 1 .. n} = {ToPlace(blocks[i]) : i \in 1 .. n - 1} \cup {ToPlace(blocks[n])}
  BY <1>1
<1>10. Unplaced' = UNION {ToPlace(blocks[i]) : i \in 1 .. n - 1}
  BY <1>2 DEF Unplaced, ToPlace
<1>11. Unplaced = Unplaced' \cup ToPlace(Block)
  BY <1>1, <1>4, <1>9, <1>10 DEF Unplaced
<1>12. ASSUME NEW i \in 1 .. n - 1
       PROVE  ToPlace(blocks[i]) \cap ToPlace(blocks[n]) = {}
  <2>0. n \in Nat \ {0}
    BY <1>1
  <2>1. i \in 1 .. n /\ n \in 1 .. n /\ i # n
    <3> HIDE DEF n
    <3> QED
      BY <2>0
  <2>2. LabelsOf(blocks[i]) \cap LabelsOf(blocks[n]) = {} /\ LabelsOf(blocks[n]) \subseteq 1 .. labels
    BY <1>1, <2>1 DEF SInv, BlockLabelsOK
  <2>3. blocks[i] \in BlockType /\ blocks[n] \in BlockType /\ blocks[n].kind # "function"
    <3>1. n # 1
      <4> HIDE DEF n
      <4> QED
        BY <2>0
    <3>2. blocks[i] \in BlockType
      BY <1>1, <2>1, OpenBlocks
    <3> QED
      BY <1>4, <1>5, <3>1, <3>2
  <2>4. ToPlace(blocks[i]) \subseteq LabelsOf(blocks[i]) \cup {0} /\ ToPlace(blocks[n]) \subseteq LabelsOf(blocks[n])
    BY <2>3 DEF ToPlace, LabelsOf, BlockType, ReturnLabel
  <2> QED
    BY <2>2, <2>4
<1>13. Unplaced' \cap ToPlace(Block) = {}
  BY <1>4, <1>10, <1>12
<1> QED
  BY <1>1, <1>2, <1>3, <1>5, <1>6, <1>7, <1>8, <1>11, <1>13

(* A break is noted at its loop; and nothing happens to the blocks.        *)
LEMMA BlockBroken ==
  ASSUME SInv, Parsing, pc' = pc, NEW k \in DOMAIN blocks, labels' \in Nat, labels <= labels',
         blocks' = [blocks EXCEPT ![k].broken = TRUE]
  PROVE  /\ BlocksOK' /\ BlockLabelsOK' /\ Unplaced' = Unplaced
         /\ blocks' # <<>> /\ BlockLevel' = BlockLevel /\ DOMAIN blocks' = DOMAIN blocks
         /\ \A i \in DOMAIN blocks :
              /\ blocks'[i].kind = blocks[i].kind /\ blocks'[i].start = blocks[i].start
              /\ blocks'[i].level = blocks[i].level
<1> DEFINE n == Len(blocks)
<1>1. n \in Nat \ {0} /\ blocks \in Seq(BlockType) /\ DOMAIN blocks = 1 .. n
  BY OpenBlocks DEF SInv, BlocksOK
<1>2. blocks[k] \in BlockType /\ [blocks[k] EXCEPT !.broken = TRUE] \in BlockType
  BY OpenBlocks DEF BlockType
<1>3. blocks' \in Seq(BlockType) /\ Len(blocks') = n /\ DOMAIN blocks' = 1 .. n
  BY <1>1, <1>2
<1>4. ASSUME NEW i \in DOMAIN blocks
      PROVE  /\ blocks'[i].kind = blocks[i].kind /\ blocks'[i].start = blocks[i].start
             /\ blocks'[i].level = blocks[i].level /\ blocks'[i].exit = blocks[i].exit
             /\ blocks'[i].break = blocks[i].break
  <2>1. blocks'[i] = IF i = k THEN [blocks[k] EXCEPT !.broken = TRUE] ELSE blocks[i]
    BY <1>1
  <2> QED
    BY <1>2, <2>1 DEF BlockType
<1>5. blocks' # <<>> /\ BlockLevel' = BlockLevel
  BY <1>1, <1>3, <1>4 DEF BlockLevel, Block
<1>6. \A i \in DOMAIN blocks : ToPlace(blocks'[i]) = ToPlace(blocks[i]) /\ LabelsOf(blocks'[i]) = LabelsOf(blocks[i])
                               /\ Wide(blocks'[i]) = Wide(blocks[i])
  BY <1>4 DEF ToPlace, LabelsOf, Wide
<1>7. Unplaced' = Unplaced
  <2>1. Unplaced' = UNION {ToPlace(blocks'[i]) : i \in 1 .. n}
    BY <1>3 DEF Unplaced, ToPlace
  <2>2. {ToPlace(blocks'[i]) : i \in 1 .. n} = {ToPlace(blocks[i]) : i \in 1 .. n}
    BY <1>1, <1>6
  <2> QED
    BY <1>1, <2>1, <2>2 DEF Unplaced
<1>8. BlocksOK'
  <2>1. pc' = 0
    BY DEF Parsing
  <2>2. ASSUME NEW i \in 1 .. n
        PROVE  /\ blocks'[i].kind = "function" <=> i = 1
               /\ i = 1 => blocks'[i].level = 1
               /\ i # 1 => blocks'[i].level = blocks'[i - 1].level + Wide(blocks'[i])
    <3>1. i # 1 => i - 1 \in 1 .. n
      BY <1>1
    <3> QED
      BY ZenonT(40), <1>1, <1>4, <1>6, <3>1 DEF SInv, BlocksOK
  <2>3. \A i, j \in 1 .. n : i < j => blocks'[i].level < blocks'[j].level
    BY <1>1, <1>4 DEF SInv, BlocksOK
  <2> QED
    BY <1>3, <1>5, <2>1, <2>2, <2>3 DEF BlocksOK, Wide
<1>9. BlockLabelsOK'
  <2>1. labels \in Nat
    BY DEF SInv, ParserOK
  <2>2. \A i \in 1 .. n : LabelsOf(blocks[i]) \subseteq 1 .. labels'
    BY <1>1, <2>1 DEF SInv, BlockLabelsOK
  <2>3. \A i, j \in 1 .. n : i # j => LabelsOf(blocks'[i]) \cap LabelsOf(blocks'[j]) = {}
    BY <1>1, <1>6 DEF SInv, BlockLabelsOK
  <2>4. \A i \in 1 .. n :
          /\ blocks'[i].kind = "for" => blocks'[i].break = blocks'[i].start /\ blocks'[i].start # blocks'[i].exit
          /\ blocks'[i].kind = "loop" => /\ blocks'[i].break # blocks'[i].start /\ blocks'[i].start # blocks'[i].exit
                                         /\ blocks'[i].break # blocks'[i].exit
    BY <1>1, <1>4 DEF SInv, BlockLabelsOK
  <2> QED
    BY ZenonT(40), <1>1, <1>3, <1>6, <2>2, <2>3, <2>4 DEF BlockLabelsOK, LabelsOf
<1> QED
  BY <1>1, <1>3, <1>4, <1>5, <1>7, <1>8, <1>9

LEMMA BlocksStay ==
  ASSUME SInv, Parsing, UNCHANGED <<blocks, pc>>, labels' \in Nat, labels <= labels'
  PROVE  BlocksOK' /\ BlockLabelsOK' /\ Unplaced' = Unplaced
<1>1. BlocksOK'
  BY DEF SInv, BlocksOK, Wide
<1>2. Unplaced' = Unplaced
  BY DEF Unplaced, ToPlace
<1>3. labels \in Nat
  BY DEF SInv, ParserOK
<1>4. \A i \in DOMAIN blocks : LabelsOf(blocks[i]) \subseteq 1 .. labels'
  BY <1>3 DEF SInv, BlockLabelsOK
<1>5. BlockLabelsOK'
  BY <1>4 DEF SInv, BlockLabelsOK, LabelsOf
<1> QED
  BY <1>1, <1>2, <1>5

(* A statement that may stand behind a condition.                          *)
LEMMA GuardedCode ==
  ASSUME SInv, NEW form \in Forms, NEW d \in Seq(Emitted), Placed(d) = {}, Guarded(form, d)
  PROVE  /\ labels' \in Nat /\ labels <= labels'
         /\ \E e \in Seq(Emitted) :
              /\ code' = code \o e /\ Placed(e) \subseteq labels + 1 .. labels'
              /\ Targets(e) = Targets(d) \cup Placed(e)
<1>1. labels \in Nat /\ code \in Seq(Emitted)
  BY DEF SInv, ParserOK, CodeOK
<1>2. CASE form = "plain"
  <2>1. code' = code \o d /\ labels' = labels
    BY <1>2 DEF Guarded
  <2> QED
    BY <1>1, <2>1
<1>3. CASE form # "plain"
  <2> DEFINE l == labels + 1
  <2>1. PICK g : g = Guard(form)
    OBVIOUS
  <2>2. PICK t : t = Label(l)
    OBVIOUS
  <2>3. l \in Nat
    BY <1>1
  <2> HIDE DEF l
  <2>4. t \in Emitted /\ t.op = "label" /\ t.label = l
    BY <2>2, <2>3 DEF Label, Emitted
  <2>5. <<t>> \in Seq(Emitted) /\ Range(<<t>>) = {t}
    BY <2>4, SeqOne
  <2>6. Placed(<<t>>) = {l} /\ Targets(<<t>>) = {}
    BY <2>4, <2>5 DEF Placed, Targets, JumpOps
  <2>7. g \in Seq(Emitted) /\ Placed(g) = {} /\ Targets(g) = {l}
    <3>1. CASE form = "if"
      <4> DEFINE j == JumpFalse(l)
      <4>1. j \in Emitted /\ j.op = "jumpFalse" /\ j.label = l
        BY <2>3 DEF JumpFalse, Emitted, JumpOps
      <4>2. g = <<j>>
        BY <2>1, <3>1 DEF Guard, l
      <4> HIDE DEF j
      <4>3. <<j>> \in Seq(Emitted) /\ Range(<<j>>) = {j}
        BY <4>1, SeqOne
      <4> QED
        BY <4>1, <4>2, <4>3 DEF Placed, Targets, JumpOps
    <3>2. CASE form # "if"
      <4> DEFINE j == JumpNoError(l)
                 c == CallFailing
      <4>1. j \in Emitted /\ j.op = "jumpNoError" /\ j.label = l /\ c \in Emitted /\ c.op = "call"
        BY <2>3 DEF JumpNoError, CallFailing, Emitted, JumpOps
      <4>2. g = <<c, j>>
        BY <2>1, <3>2 DEF Guard, l
      <4> HIDE DEF j, c
      <4>3. <<c, j>> \in Seq(Emitted) /\ Range(<<c, j>>) = {c, j}
        BY <4>1, SeqTwo
      <4> QED
        BY <4>1, <4>2, <4>3 DEF Placed, Targets, JumpOps
    <3> QED
      BY <3>1, <3>2
  <2>8. PICK e1 : e1 = g \o d
    OBVIOUS
  <2>9. e1 \in Seq(Emitted) /\ Placed(e1) = {} /\ Targets(e1) = Targets(d) \cup {l}
    BY <2>7, <2>8, RangeOfConcat
  <2>10. PICK s : s = <<t>>
    OBVIOUS
  <2>11. PICK e : e = e1 \o s
    OBVIOUS
  <2>12. s \in Seq(Emitted) /\ Placed(s) = {l} /\ Targets(s) = {}
    BY <2>5, <2>6, <2>10
  <2>13. e \in Seq(Emitted) /\ Placed(e) = {l} /\ Targets(e) = Targets(d) \cup {l}
    BY <2>9, <2>11, <2>12, RangeOfConcat
  <2>14. code' = code \o g \o d \o <<t>> /\ labels' = labels + 1
    BY <1>3, <2>1, <2>2 DEF Guarded, l
  <2>15. code' = code \o e
    <3>1. PICK c \in Seq(Emitted) : c = code
      BY <1>1
    <3>2. c \o g \o d = c \o (g \o d)
      BY <2>7, ConcatAssociative
    <3>3. c \o e1 \o s = c \o (e1 \o s)
      BY <2>9, <2>12, ConcatAssociative
    <3> QED
      BY <2>8, <2>10, <2>11, <2>14, <3>1, <3>2, <3>3
  <2>16. l \in labels + 1 .. labels'
    BY <1>1, <2>14 DEF l
  <2>17. Placed(e) \subseteq labels + 1 .. labels' /\ Targets(e) = Targets(d) \cup Placed(e)
    BY <2>13, <2>16
  <2>18. labels' \in Nat /\ labels <= labels'
    BY <1>1, <2>14
  <2> QED
    BY <2>13, <2>15, <2>17, <2>18
<1> QED
  BY <1>2, <1>3

(* Code that places only new labels, while the blocks keep theirs.         *)
LEMMA CodeBehind ==
  ASSUME SInv, NEW d \in Seq(Emitted), code' = code \o d,
         labels' \in Nat, labels <= labels', Placed(d) \subseteq labels + 1 .. labels',
         Targets(d) \subseteq Placed(code) \cup Placed(d) \cup Unplaced, Unplaced' = Unplaced,
         \A i \in DOMAIN blocks' :
           i \in DOMAIN blocks /\ blocks'[i].kind = blocks[i].kind /\ blocks'[i].start = blocks[i].start
  PROVE  CodeOK'
<1>1. labels \in Nat /\ Placed(d) \subseteq 0 .. labels'
  BY DEF SInv, ParserOK
<1>2. (Placed(code) \cup Placed(d)) \cap Unplaced = {}
  <2>1. Unplaced \subseteq 0 .. labels /\ Placed(code) \cap Unplaced = {}
    BY UnplacedLabels DEF SInv, CodeOK
  <2> QED
    BY <1>1, <2>1
<1>3. \A i \in DOMAIN blocks' :
        blocks'[i].kind \in {"for", "loop"} => blocks'[i].start \in Placed(code) \cup Placed(d)
  BY DEF SInv, CodeOK
<1> QED
  BY <1>1, <1>2, <1>3, CodeExtended

(* The machine waits while the function is parsed.                         *)
LEMMA MachineWaits ==
  ASSUME SInv, Parsing, UNCHANGED machine, code' \in Seq(Emitted), pc' \in {0, 1}
  PROVE  MachineOK'
<1>1. Len(code') \in Nat
  OBVIOUS
<1>2. pc' \in 0 .. Len(code') + 1
  BY <1>1
<1> QED
  BY <1>2 DEF SInv, MachineOK, machine, Parsing, Unused

-----------------------------------------------------------------------------
(* The statements.                                                         *)
LEMMA StatementStep ==
  ASSUME SInv, Statement
  PROVE  Parsing /\ stmts' \in 0 .. MaxStmts
<1>1. stmts \in 0 .. MaxStmts /\ MaxStmts \in Nat
  BY LoopAssumption DEF SInv, ParserOK
<1> QED
  BY <1>1 DEF Statement

LEMMA NewVarStep ==
  ASSUME SInv, NEW kind \in Kinds, NewVar(kind)
  PROVE  SInv'
<1>1. /\ Parsing /\ code' = Append(code, New(kind)) /\ sp' = sp + 1
      /\ varDefs' = varDefs \cup {Define(kind, BlockLevel, sp + 1)}
      /\ UNCHANGED <<blocks, pc, labels, returned, early>> /\ UNCHANGED machine
  BY StatementStep DEF NewVar
<1>0. ParserOK'
  BY <1>1, StatementStep DEF NewVar, SInv, ParserOK
<1>2. labels \in Nat /\ code \in Seq(Emitted) /\ sp \in Nat /\ sp = Cardinality(varDefs)
  <2>1. sp \in Nat
    BY Levels DEF SInv
  <2> QED
    BY <2>1 DEF SInv, ParserOK, CodeOK, SlotsOK
<1>3. PICK ins : ins = New(kind)
  OBVIOUS
<1>4. ins \in Emitted /\ ins.op = "new"
  BY <1>2, <1>3, LoopAssumption DEF New, Emitted
<1>5. PICK d : d = <<ins>>
  OBVIOUS
<1>6. d \in Seq(Emitted) /\ Placed(d) = {} /\ Targets(d) = {}
  <2>1. Range(<<ins>>) = {ins} /\ <<ins>> \in Seq(Emitted)
    BY <1>4, SeqOne
  <2> QED
    BY <1>4, <1>5, <2>1 DEF Placed, Targets, JumpOps
<1>7. code' = code \o d
  BY <1>1, <1>2, <1>3, <1>4, <1>5, AppendIsConcat
<1>8. BlocksOK' /\ BlockLabelsOK' /\ Unplaced' = Unplaced
  BY <1>1, <1>2, BlocksStay
<1>9. CodeOK'
  <2>1. /\ labels' \in Nat /\ labels <= labels' /\ Placed(d) \subseteq labels + 1 .. labels'
        /\ Targets(d) \subseteq Placed(code) \cup Placed(d) \cup Unplaced
        /\ \A i \in DOMAIN blocks' :
             i \in DOMAIN blocks /\ blocks'[i].kind = blocks[i].kind /\ blocks'[i].start = blocks[i].start
    BY <1>1, <1>2, <1>6
  <2> QED
    BY <1>6, <1>7, <1>8, <2>1, CodeBehind
<1>10. SlotsOK'
  <2>1. PICK level \in Nat : level = BlockLevel /\ level >= 1
    BY <1>1, OpenBlocks
  <2>2. PICK vs : vs = varDefs
    OBVIOUS
  <2>3. Dense(vs) /\ \A v \in vs : v.level <= level
    BY <2>1, <2>2 DEF SInv, SlotsOK
  <2>4. kind \in {"int", "str", "iter"}
    BY LoopAssumption
  <2>5. PICK new : new = vs \cup {Define(kind, level, Cardinality(vs) + 1)}
    OBVIOUS
  <2>6. Dense(new) /\ Cardinality(new) = Cardinality(vs) + 1
    BY <2>3, <2>4, <2>5, DenseAdd
  <2>7. varDefs' = new /\ sp' = Cardinality(new)
    BY <1>1, <1>2, <2>1, <2>2, <2>5, <2>6
  <2>8. \A v \in new : 1 <= v.level /\ v.level <= level
    BY <2>1, <2>2, <2>3, <2>5 DEF SInv, SlotsOK, Define
  <2>9. BlockLevel' = level /\ blocks' # <<>>
    BY <1>1, <2>1 DEF BlockLevel, Block, Parsing
  <2> QED
    BY <2>6, <2>7, <2>8, <2>9 DEF SlotsOK, Dense, Under, VarType
<1>11. MachineOK'
  BY <1>1, <1>9, MachineWaits DEF CodeOK, Parsing
<1> QED
  BY <1>0, <1>8, <1>9, <1>10, <1>11 DEF SInv

(* Opening a block: its code, and what every block does to the rest.       *)
LEMMA BlockEntered ==
  ASSUME SInv, Statement, UNCHANGED <<returned, early, pc>>, UNCHANGED machine,
         NEW b \in BlockType, b.kind # "function",
         b.level = BlockLevel + Wide(b), blocks' = Append(blocks, b),
         labels' \in Nat, labels <= labels', LabelsOf(b) \subseteq labels + 1 .. labels',
         b.kind = "for" => b.break = b.start /\ b.start # b.exit,
         b.kind = "loop" => b.break # b.start /\ b.start # b.exit /\ b.break # b.exit,
         NEW d \in Seq(Emitted), code' = code \o d,
         Placed(d) = LabelsOf(b) \ ToPlace(b), Targets(d) \subseteq LabelsOf(b),
         b.kind \in {"for", "loop"} => b.start \in Placed(d)
  PROVE  /\ ParserOK' /\ BlocksOK' /\ BlockLabelsOK' /\ CodeOK' /\ MachineOK'
         /\ blocks' # <<>> /\ BlockLevel' = b.level
<1>1. Parsing /\ stmts' \in 0 .. MaxStmts
  BY StatementStep
<1>2. ParserOK'
  BY <1>1 DEF SInv, ParserOK
<1>3. /\ BlocksOK' /\ BlockLabelsOK' /\ Unplaced' = Unplaced \cup ToPlace(b)
      /\ blocks' # <<>> /\ BlockLevel' = b.level
      /\ \A i \in DOMAIN blocks' :
           blocks'[i] = b \/ (i \in DOMAIN blocks /\ blocks'[i] = blocks[i])
  BY <1>1, BlockOpened
<1>4. ToPlace(b) \subseteq LabelsOf(b)
  BY DEF ToPlace, LabelsOf, BlockType
<1>5. /\ labels \in Nat /\ Placed(code) \subseteq 0 .. labels /\ Unplaced \subseteq 0 .. labels
      /\ Placed(code) \cap Unplaced = {}
  BY UnplacedLabels DEF SInv, CodeOK, ParserOK
<1>6. Placed(d) \subseteq 0 .. labels' /\ Placed(d) \subseteq labels + 1 .. labels'
      /\ ToPlace(b) \subseteq labels + 1 .. labels' /\ Placed(d) \cap ToPlace(b) = {}
  BY <1>4, <1>5
<1>7. (Placed(code) \cup Placed(d)) \cap Unplaced' = {}
  BY <1>3, <1>5, <1>6
<1>8. /\ Targets(d) \subseteq Placed(code) \cup Placed(d) \cup Unplaced'
      /\ Unplaced \subseteq Placed(d) \cup Unplaced'
  BY <1>3
<1>9. \A i \in DOMAIN blocks' :
        blocks'[i].kind \in {"for", "loop"} => blocks'[i].start \in Placed(code) \cup Placed(d)
  BY <1>3 DEF SInv, CodeOK
<1>10. CodeOK'
  BY <1>6, <1>7, <1>8, <1>9, CodeExtended
<1>11. MachineOK'
  BY <1>1, <1>10, MachineWaits DEF CodeOK, Parsing
<1> QED
  BY <1>2, <1>3, <1>10, <1>11

(* The variables stay while a block is opened.                             *)
LEMMA SlotsStay ==
  ASSUME SInv, Parsing, UNCHANGED <<varDefs, sp>>, blocks' # <<>>,
         BlockLevel' \in Nat, BlockLevel <= BlockLevel'
  PROVE  SlotsOK'
<1>1. BlockLevel \in Nat
  BY OpenBlocks
<1>2. Dense(varDefs)'
  BY DEF SInv, SlotsOK, Dense, Under, VarType
<1>3. \A v \in varDefs : v.level \in Nat /\ 1 <= v.level /\ v.level <= BlockLevel
  BY DEF SInv, SlotsOK, Dense, VarType
<1>4. \A v \in varDefs : 1 <= v.level /\ v.level <= BlockLevel'
  BY <1>1, <1>3
<1> QED
  BY <1>2, <1>4 DEF SInv, SlotsOK

LEMMA OpenIfStep ==
  ASSUME SInv, OpenIf
  PROVE  SInv'
<1> DEFINE l == labels + 1
           newBlock == [kind |-> "if", level |-> BlockLevel + 1, start |-> 0, exit |-> l,
                        break |-> 0, broken |-> FALSE]
<1>1. /\ Statement /\ code' = Append(code, JumpFalse(l)) /\ labels' = l
      /\ blocks' = Append(blocks, newBlock)
      /\ UNCHANGED <<varDefs, sp, returned, early, pc>> /\ UNCHANGED machine
  BY DEF OpenIf
<1>2. /\ Parsing /\ labels \in Nat /\ l \in Nat /\ code \in Seq(Emitted)
      /\ BlockLevel \in Nat
  BY StatementStep, <1>1, OpenBlocks DEF SInv, ParserOK, CodeOK
<1>3. PICK b : b = newBlock
  OBVIOUS
<1>4. /\ b \in BlockType /\ b.kind = "if" /\ b.level = BlockLevel + Wide(b)
      /\ LabelsOf(b) = {l} /\ ToPlace(b) = {l}
  BY <1>2, <1>3 DEF BlockType, Wide, LabelsOf, ToPlace
<1>5. PICK j : j = JumpFalse(l)
  OBVIOUS
<1>6. j \in Emitted /\ j.op = "jumpFalse" /\ j.label = l
  BY <1>2, <1>5 DEF JumpFalse, Emitted, JumpOps
<1>7. PICK d : d = <<j>>
  OBVIOUS
<1>8. d \in Seq(Emitted) /\ Placed(d) = {} /\ Targets(d) = {l}
  <2>1. Range(<<j>>) = {j} /\ <<j>> \in Seq(Emitted)
    BY <1>6, SeqOne
  <2> QED
    BY <1>6, <1>7, <2>1 DEF Placed, Targets, JumpOps
<1>9. code' = code \o d
  BY <1>1, <1>2, <1>5, <1>6, <1>7, AppendIsConcat
<1>10. /\ labels' \in Nat /\ labels <= labels' /\ l \in labels + 1 .. labels'
  BY <1>1, <1>2
<1> HIDE DEF l, newBlock
<1>11. /\ ParserOK' /\ BlocksOK' /\ BlockLabelsOK' /\ CodeOK' /\ MachineOK'
       /\ blocks' # <<>> /\ BlockLevel' = b.level
  <2>1. Placed(d) = LabelsOf(b) \ ToPlace(b) /\ Targets(d) \subseteq LabelsOf(b)
        /\ LabelsOf(b) \subseteq labels + 1 .. labels'
    BY <1>4, <1>8, <1>10
  <2> QED
    BY <1>1, <1>3, <1>4, <1>8, <1>9, <1>10, <2>1, BlockEntered
<1>12. SlotsOK'
  <2>1. BlockLevel' = BlockLevel + 1
    BY <1>4, <1>11 DEF Wide
  <2>2. BlockLevel' \in Nat /\ BlockLevel <= BlockLevel'
    BY <1>2, <2>1
  <2> QED
    BY <1>1, <1>2, <1>11, <2>2, SlotsStay
<1> QED
  BY <1>11, <1>12 DEF SInv

LEMMA OpenLoopStep ==
  ASSUME SInv, OpenLoop
  PROVE  SInv'
<1> DEFINE l == labels + 1
           newBlock == [kind |-> "loop", level |-> BlockLevel + 1, start |-> l, exit |-> labels + 2,
                        break |-> labels + 3, broken |-> FALSE]
<1>1. /\ Statement /\ code' = Append(code, Label(l)) /\ labels' = labels + 3
      /\ blocks' = Append(blocks, newBlock)
      /\ UNCHANGED <<varDefs, sp, returned, early, pc>> /\ UNCHANGED machine
  BY DEF OpenLoop
<1>2. /\ Parsing /\ labels \in Nat /\ l \in Nat /\ code \in Seq(Emitted)
      /\ BlockLevel \in Nat
  BY StatementStep, <1>1, OpenBlocks DEF SInv, ParserOK, CodeOK
<1>3. PICK b : b = newBlock
  OBVIOUS
<1>4. /\ b \in BlockType /\ b.kind = "loop" /\ b.level = BlockLevel + Wide(b)
      /\ LabelsOf(b) = {l, labels + 2, labels + 3} /\ ToPlace(b) = {labels + 2, labels + 3}
      /\ b.break # b.start /\ b.start # b.exit /\ b.break # b.exit /\ b.start = l
  BY <1>2, <1>3 DEF BlockType, Wide, LabelsOf, ToPlace
<1>5. PICK j : j = Label(l)
  OBVIOUS
<1>6. j \in Emitted /\ j.op = "label" /\ j.label = l
  BY <1>2, <1>5 DEF Label, Emitted, JumpOps
<1>7. PICK d : d = <<j>>
  OBVIOUS
<1>8. d \in Seq(Emitted) /\ Placed(d) = {l} /\ Targets(d) = {}
  <2>1. Range(<<j>>) = {j} /\ <<j>> \in Seq(Emitted)
    BY <1>6, SeqOne
  <2> QED
    BY <1>6, <1>7, <2>1 DEF Placed, Targets, JumpOps
<1>9. code' = code \o d
  BY <1>1, <1>2, <1>5, <1>6, <1>7, AppendIsConcat
<1>10. /\ labels' \in Nat /\ labels <= labels'
       /\ {l, labels + 2, labels + 3} \subseteq labels + 1 .. labels'
       /\ l # labels + 2 /\ l # labels + 3
  BY <1>1, <1>2
<1> HIDE DEF l, newBlock
<1>11. /\ ParserOK' /\ BlocksOK' /\ BlockLabelsOK' /\ CodeOK' /\ MachineOK'
       /\ blocks' # <<>> /\ BlockLevel' = b.level
  <2>1. Placed(d) = LabelsOf(b) \ ToPlace(b) /\ Targets(d) \subseteq LabelsOf(b)
        /\ LabelsOf(b) \subseteq labels + 1 .. labels' /\ b.start \in Placed(d)
    BY <1>4, <1>8, <1>10
  <2> QED
    BY <1>1, <1>3, <1>4, <1>8, <1>9, <1>10, <2>1, BlockEntered
<1>12. SlotsOK'
  <2>1. BlockLevel' = BlockLevel + 1
    BY <1>4, <1>11 DEF Wide
  <2>2. BlockLevel' \in Nat /\ BlockLevel <= BlockLevel'
    BY <1>2, <2>1
  <2> QED
    BY <1>1, <1>2, <1>11, <2>2, SlotsStay
<1> QED
  BY <1>11, <1>12 DEF SInv

LEMMA OpenForStep ==
  ASSUME SInv, OpenFor
  PROVE  SInv'
<1> DEFINE l == labels + 1
           x == labels + 2
           newBlock == [kind |-> "for", level |-> BlockLevel + 2, start |-> l, exit |-> x,
                        break |-> l, broken |-> FALSE]
           iterator == [op |-> "new", kind |-> "iter", ofs |-> sp + 2]
           newCode == <<New("int"), iterator, Label(l), CallNext, JumpError(x)>>
<1>1. /\ Statement /\ code' = code \o newCode /\ labels' = x
      /\ blocks' = Append(blocks, newBlock)
      /\ UNCHANGED <<returned, early, pc>> /\ UNCHANGED machine
  BY DEF OpenFor
<1>2. /\ Parsing /\ labels \in Nat /\ l \in Nat /\ x \in Nat
      /\ BlockLevel \in Nat /\ BlockLevel >= 1
      /\ sp \in Nat /\ sp = Cardinality(varDefs)
  <2>1. sp \in Nat
    BY Levels DEF SInv
  <2> QED
    BY StatementStep, <1>1, <2>1, OpenBlocks DEF SInv, ParserOK, SlotsOK
<1>3. PICK b : b = newBlock
  OBVIOUS
<1>4. /\ b \in BlockType /\ b.kind = "for" /\ b.level = BlockLevel + Wide(b)
      /\ LabelsOf(b) = {l, x} /\ ToPlace(b) = {x}
      /\ b.break = b.start /\ b.start # b.exit /\ b.start = l
  BY <1>2, <1>3 DEF BlockType, Wide, LabelsOf, ToPlace
<1>5. PICK i1, i2, i3, i4, i5 :
        i1 = New("int") /\ i2 = iterator /\ i3 = Label(l) /\ i4 = CallNext /\ i5 = JumpError(x)
  OBVIOUS
<1>6. /\ i1 \in Emitted /\ i1.op = "new" /\ i2 \in Emitted /\ i2.op = "new"
      /\ i3 \in Emitted /\ i3.op = "label" /\ i3.label = l
      /\ i4 \in Emitted /\ i4.op = "next"
      /\ i5 \in Emitted /\ i5.op = "jumpError" /\ i5.label = x
  BY <1>2, <1>5 DEF New, Label, CallNext, JumpError, Emitted, JumpOps
<1>7. PICK d : d = newCode
  OBVIOUS
<1>8. d \in Seq(Emitted) /\ Placed(d) = {l} /\ Targets(d) = {x}
  <2>1. d = <<i1, i2, i3, i4, i5>>
    BY <1>5, <1>7
  <2>2. Range(d) = {i1, i2, i3, i4, i5} /\ d \in Seq(Emitted)
    BY <1>6, <2>1, SeqFive
  <2> QED
    BY <1>6, <2>2 DEF Placed, Targets, JumpOps
<1>9. code' = code \o d
  BY <1>1, <1>7
<1>10. /\ labels' \in Nat /\ labels <= labels' /\ {l, x} \subseteq labels + 1 .. labels' /\ l # x
  BY <1>1, <1>2
<1> HIDE DEF l, x, newBlock, newCode, iterator
<1>11. /\ ParserOK' /\ BlocksOK' /\ BlockLabelsOK' /\ CodeOK' /\ MachineOK'
       /\ blocks' # <<>> /\ BlockLevel' = b.level
  <2>1. Placed(d) = LabelsOf(b) \ ToPlace(b) /\ Targets(d) \subseteq LabelsOf(b)
        /\ LabelsOf(b) \subseteq labels + 1 .. labels' /\ b.start \in Placed(d)
    BY <1>4, <1>8, <1>10
  <2> QED
    BY <1>1, <1>3, <1>4, <1>8, <1>9, <1>10, <2>1, BlockEntered
<1>12. SlotsOK'
  <2>1. PICK level \in Nat : level = BlockLevel + 1 /\ level > 1
    BY <1>2
  <2>2. PICK vs : vs = varDefs
    OBVIOUS
  <2>3. Dense(vs) /\ \A v \in vs : v.level \in Nat /\ 1 <= v.level /\ v.level <= level
    <3>1. \A v \in vs : v.level \in Nat /\ 1 <= v.level /\ v.level <= BlockLevel
      BY <2>2 DEF SInv, SlotsOK, Dense, VarType
    <3> QED
      BY <1>2, <2>1, <2>2, <3>1 DEF SInv, SlotsOK
  <2>4. PICK one : one = vs \cup {Define("int", level, Cardinality(vs) + 1)}
    OBVIOUS
  <2>5. Dense(one) /\ Cardinality(one) = Cardinality(vs) + 1
    BY <2>3, <2>4, DenseAdd
  <2>6. \A v \in one : v.level \in Nat /\ 1 <= v.level /\ v.level <= level
    BY <2>1, <2>3, <2>4 DEF Define
  <2>7. PICK two : two = one \cup {Define("iter", level, Cardinality(one) + 1)}
    OBVIOUS
  <2>8. Dense(two) /\ Cardinality(two) = Cardinality(one) + 1
    BY <2>5, <2>6, <2>7, DenseAdd
  <2>9. \A v \in two : 1 <= v.level /\ v.level <= level
    BY <2>1, <2>6, <2>7 DEF Define
  <2>10. /\ varDefs' = varDefs \cup {Define("int", BlockLevel + 1, sp + 1), Define("iter", BlockLevel + 1, sp + 2)}
         /\ sp' = sp + 2
    BY DEF OpenFor
  <2>11. Cardinality(vs) = sp /\ Cardinality(one) = sp + 1 /\ Cardinality(two) = sp + 2 /\ sp + 1 + 1 = sp + 2
    BY <1>2, <2>2, <2>5, <2>8
  <2>12. varDefs' = two /\ sp' = Cardinality(two)
    BY <2>1, <2>2, <2>4, <2>7, <2>10, <2>11
  <2>13. BlockLevel' = level + 1
    BY <1>2, <1>4, <1>11, <2>1 DEF Wide
  <2>14. \A v \in two : 1 <= v.level /\ v.level <= BlockLevel'
    <3>1. two \subseteq VarType
      BY <2>8 DEF Dense
    <3> QED
      BY <2>1, <2>9, <2>13, <3>1 DEF VarType
  <2> QED
    BY <1>11, <2>8, <2>12, <2>14 DEF SlotsOK, Dense, Under, VarType
<1> QED
  BY <1>11, <1>12 DEF SInv

(* A mark is left and control goes somewhere else.                         *)
LEMMA JumpsAway ==
  ASSUME NEW c \in Seq(Emitted), Placed(c) = {}, Targets(c) = {},
         NEW j \in Emitted, j.op = "jump", NEW e \in Seq(Emitted), Placed(e) = {}
  PROVE  /\ c \o <<j>> \o e \in Seq(Emitted) /\ Placed(c \o <<j>> \o e) = {}
         /\ Targets(c \o <<j>> \o e) = {j.label} \cup Targets(e)
<1>1. PICK s : s = <<j>>
  OBVIOUS
<1>2. s \in Seq(Emitted) /\ Placed(s) = {} /\ Targets(s) = {j.label}
  <2>1. Range(<<j>>) = {j} /\ <<j>> \in Seq(Emitted)
    BY SeqOne
  <2> QED
    BY <1>1, <2>1 DEF Placed, Targets, JumpOps
<1>3. PICK f : f = c \o s
  OBVIOUS
<1>4. f \in Seq(Emitted) /\ Placed(f) = {} /\ Targets(f) = {j.label}
  <2>1. f \in Seq(Emitted) /\ Placed(f) = Placed(c) \cup Placed(s) /\ Targets(f) = Targets(c) \cup Targets(s)
    BY <1>2, <1>3, EmittedConcat
  <2> QED
    BY <1>2, <2>1
<1>5. f \o e \in Seq(Emitted) /\ Placed(f \o e) = {} /\ Targets(f \o e) = {j.label} \cup Targets(e)
  BY <1>4, RangeOfConcat
<1> QED
  BY <1>1, <1>3, <1>5

LEMMA JumpType ==
  \A l \in Nat : Jump(l) \in Emitted /\ Jump(l).op = "jump" /\ Jump(l).label = l
  BY DEF Jump, Emitted, JumpOps

LEMMA LoopLabels ==
  ASSUME SInv, InLoop
  PROVE  Loop.break \in Nat /\ Loop.exit \in Nat
<1>1. InnermostAt \in DOMAIN blocks
  BY OpenBlocks DEF LoopBlocks
<1>2. Loop \in BlockType
  BY <1>1, OpenBlocks DEF Loop
<1> QED
  BY <1>2 DEF BlockType

LEMMA FormLevel ==
  ASSUME SInv, Parsing, NEW form \in Forms
  PROVE  LevelIn(form) \in Nat /\ BlockLevel \in Nat /\ BlockLevel <= LevelIn(form) /\ LevelIn(form) >= 1
  BY OpenBlocks DEF LevelIn

(* The variables below a level remain.                                     *)
LEMMA SlotsForgotten ==
  ASSUME SInv, NEW L \in Nat, Forget(L), sp' = SpWithout(L),
         L > 1 => blocks' # <<>> /\ L - 1 <= BlockLevel' /\ BlockLevel' \in Nat
  PROVE  SlotsOK'
<1>1. PICK vs : vs = Below(L)
  OBVIOUS
<1>2. Dense(vs) /\ varDefs' = vs /\ sp' = Cardinality(vs)
  BY <1>1, Levels DEF SInv, Forget, SpWithout
<1>3. \A v \in vs : v.level \in Nat /\ 1 <= v.level /\ v.level <= L - 1
  <2>1. \A v \in varDefs : v.level \in Nat /\ 1 <= v.level
    BY DEF SInv, SlotsOK, Dense, VarType
  <2> QED
    BY <1>1, <2>1 DEF Below, Under
<1>4. vs # {} => L > 1
  BY <1>3
<1>5. \A v \in vs : 1 <= v.level /\ v.level <= BlockLevel'
  BY <1>3, <1>4
<1> QED
  BY <1>2, <1>4, <1>5 DEF SlotsOK, Dense, Under, VarType

LEMMA BreakStep ==
  ASSUME SInv, NEW form \in Forms, Break(form)
  PROVE  SInv'
<1> DEFINE instructions == <<Mark(1)>> \o FreeBlockVarsNoDelete(LevelIn(form)) \o <<Jump(Loop.break)>>
<1>1. /\ Statement /\ InLoop /\ Guarded(form, instructions)
      /\ blocks' = [blocks EXCEPT ![InnermostAt].broken = TRUE]
      /\ UNCHANGED <<varDefs, sp, returned, early, pc>> /\ UNCHANGED machine
  BY DEF Break
<1>2. Parsing /\ stmts' \in 0 .. MaxStmts
  BY <1>1, StatementStep
<1>3. PICK d : d = instructions
  OBVIOUS
<1>4. d \in Seq(Emitted) /\ Placed(d) = {} /\ Targets(d) = {Loop.break}
  <2>1. PICK m : m = Mark(1)
    OBVIOUS
  <2>2. m \in Emitted /\ m.op = "mark"
    BY <2>1 DEF Mark, Emitted
  <2>3. PICK s : s = <<m>>
    OBVIOUS
  <2>4. s \in Seq(Emitted) /\ Placed(s) = {} /\ Targets(s) = {}
    <3>1. Range(<<m>>) = {m} /\ <<m>> \in Seq(Emitted)
      BY <2>2, SeqOne
    <3> QED
      BY <2>2, <2>3, <3>1 DEF Placed, Targets, JumpOps
  <2>5. PICK p : p = FreeBlockVarsNoDelete(LevelIn(form))
    OBVIOUS
  <2>6. p \in Seq(Emitted) /\ Placed(p) = {} /\ Targets(p) = {}
    BY <1>2, <2>5, FormLevel, FreeLevels DEF SInv
  <2>7. PICK c : c = s \o p
    OBVIOUS
  <2>8. c \in Seq(Emitted) /\ Placed(c) = {} /\ Targets(c) = {}
    <3>1. c \in Seq(Emitted) /\ Placed(c) = Placed(s) \cup Placed(p) /\ Targets(c) = Targets(s) \cup Targets(p)
      BY <2>4, <2>6, <2>7, EmittedConcat
    <3> QED
      BY <2>4, <2>6, <3>1
  <2>9. PICK l \in Nat : l = Loop.break
    BY <1>1, LoopLabels
  <2>10. PICK j : j = Jump(l)
    OBVIOUS
  <2>11. j \in Emitted /\ j.op = "jump" /\ j.label = l
    BY <2>10, JumpType
  <2>12. PICK e : e = <<>>
    OBVIOUS
  <2>13. e \in Seq(Emitted) /\ Placed(e) = {} /\ Targets(e) = {}
    BY <2>12, SeqNone
  <2>14. PICK f : f = c \o <<j>> \o e
    OBVIOUS
  <2>15. f \in Seq(Emitted) /\ Placed(f) = {} /\ Targets(f) = {l}
    <3>0. PICK t : t = {j.label} \cup Targets(e)
      OBVIOUS
    <3>1. /\ c \o <<j>> \o e \in Seq(Emitted) /\ Placed(c \o <<j>> \o e) = {}
          /\ Targets(c \o <<j>> \o e) = t
      BY <2>8, <2>11, <2>13, <3>0, JumpsAway
    <3>2. t = {l}
      BY <2>11, <2>13, <3>0
    <3> QED
      BY <2>14, <3>1, <3>2
  <2>16. f = c \o <<j>>
    <3>1. c \o <<j>> \in Seq(Emitted)
      BY <2>8, <2>11
    <3> QED
      BY <2>12, <2>14, <3>1, ConcatEmptySeq
  <2> QED
    BY <1>3, <2>1, <2>3, <2>5, <2>7, <2>9, <2>10, <2>15, <2>16
<1> HIDE DEF instructions
<1>5. /\ labels' \in Nat /\ labels <= labels'
      /\ \E e \in Seq(Emitted) :
           /\ code' = code \o e /\ Placed(e) \subseteq labels + 1 .. labels'
           /\ Targets(e) = Targets(d) \cup Placed(e)
  BY <1>1, <1>3, <1>4, GuardedCode
<1>6. PICK e \in Seq(Emitted) : /\ code' = code \o e /\ Placed(e) \subseteq labels + 1 .. labels'
                                /\ Targets(e) = Targets(d) \cup Placed(e)
  BY <1>5
<1>7. PICK k \in DOMAIN blocks : k = InnermostAt
  BY <1>1, OpenBlocks DEF LoopBlocks
<1>8. /\ BlocksOK' /\ BlockLabelsOK' /\ Unplaced' = Unplaced
      /\ blocks' # <<>> /\ BlockLevel' = BlockLevel /\ DOMAIN blocks' = DOMAIN blocks
      /\ \A i \in DOMAIN blocks :
           /\ blocks'[i].kind = blocks[i].kind /\ blocks'[i].start = blocks[i].start
           /\ blocks'[i].level = blocks[i].level
  BY <1>1, <1>2, <1>5, <1>7, BlockBroken
<1>9. CodeOK'
  <2>1. Targets(e) \subseteq Placed(code) \cup Placed(e) \cup Unplaced
    BY <1>1, <1>4, <1>6, UnplacedLabels
  <2>2. \A i \in DOMAIN blocks' :
          i \in DOMAIN blocks /\ blocks'[i].kind = blocks[i].kind /\ blocks'[i].start = blocks[i].start
    BY <1>8
  <2> QED
    BY <1>5, <1>6, <1>8, <2>1, <2>2, CodeBehind
<1>10. SlotsOK'
  <2>1. BlockLevel' \in Nat /\ BlockLevel <= BlockLevel'
    BY <1>2, <1>8, OpenBlocks
  <2> QED
    BY <1>1, <1>2, <1>8, <2>1, SlotsStay
<1>11. ParserOK'
  BY <1>1, <1>2, <1>5 DEF SInv, ParserOK
<1>12. MachineOK'
  BY <1>1, <1>2, <1>9, MachineWaits DEF CodeOK, Parsing
<1> QED
  BY <1>8, <1>9, <1>10, <1>11, <1>12 DEF SInv

(* A jump statement that leaves the blocks alone.                          *)
LEMMA JumpStatement ==
  ASSUME SInv, Statement, NEW form \in Forms, NEW d \in Seq(Emitted), Placed(d) = {},
         Targets(d) \subseteq Unplaced, Guarded(form, d),
         UNCHANGED <<blocks, pc>>, UNCHANGED machine, returned' \in BOOLEAN, early' \in BOOLEAN,
         SlotsOK'
  PROVE  SInv'
<1>1. Parsing /\ stmts' \in 0 .. MaxStmts
  BY StatementStep
<1>2. /\ labels' \in Nat /\ labels <= labels'
      /\ \E e \in Seq(Emitted) :
           /\ code' = code \o e /\ Placed(e) \subseteq labels + 1 .. labels'
           /\ Targets(e) = Targets(d) \cup Placed(e)
  BY GuardedCode
<1>3. PICK e \in Seq(Emitted) : /\ code' = code \o e /\ Placed(e) \subseteq labels + 1 .. labels'
                                /\ Targets(e) = Targets(d) \cup Placed(e)
  BY <1>2
<1>4. BlocksOK' /\ BlockLabelsOK' /\ Unplaced' = Unplaced
  BY <1>1, <1>2, BlocksStay
<1>5. CodeOK'
  <2>1. Targets(e) \subseteq Placed(code) \cup Placed(e) \cup Unplaced
    BY <1>3
  <2>2. \A i \in DOMAIN blocks' :
          i \in DOMAIN blocks /\ blocks'[i].kind = blocks[i].kind /\ blocks'[i].start = blocks[i].start
    OBVIOUS
  <2> QED
    BY <1>2, <1>3, <1>4, <2>1, <2>2, CodeBehind
<1>6. ParserOK'
  BY <1>1, <1>2 DEF SInv, ParserOK
<1>7. MachineOK'
  BY <1>1, <1>5, MachineWaits DEF CodeOK, Parsing
<1> QED
  BY <1>4, <1>5, <1>6, <1>7 DEF SInv

LEMMA ReturnStep ==
  ASSUME SInv, NEW form \in Forms, Return(form)
  PROVE  SInv'
<1>1. /\ Statement /\ UNCHANGED <<blocks, pc>> /\ UNCHANGED machine
      /\ returned' \in BOOLEAN /\ early' \in BOOLEAN
  BY DEF Return
<1>2. Parsing /\ BlockLevel \in Nat
  BY <1>1, StatementStep, OpenBlocks
<1>3. CASE InLoop
  <2> DEFINE marks == <<MarkReturn(ReturnMark), Jump(Loop.exit), Jump(ReturnLabel)>>
             instructions == FreeBlockVars(LevelIn(form)) \o marks
  <2>1. Guarded(form, instructions) /\ Forget(LevelIn(form)) /\ sp' = SpWithout(LevelIn(form))
    BY <1>3 DEF Return
  <2>2. PICK m, j1, j2 : m = MarkReturn(ReturnMark) /\ j1 = Jump(Loop.exit) /\ j2 = Jump(ReturnLabel)
    OBVIOUS
  <2>3. /\ m \in Emitted /\ m.op = "mark"
        /\ j1 \in Emitted /\ j1.op = "jump" /\ j1.label = Loop.exit
        /\ j2 \in Emitted /\ j2.op = "jump" /\ j2.label = ReturnLabel
    <3>1. m \in Emitted /\ m.op = "mark"
      BY <2>2 DEF MarkReturn, ReturnMark, Emitted
    <3>2. ReturnLabel \in Nat
      BY DEF ReturnLabel
    <3> QED
      BY <1>3, <2>2, <3>1, <3>2, JumpType, LoopLabels
  <2>4. PICK s : s = <<m, j1, j2>>
    OBVIOUS
  <2>5. s \in Seq(Emitted) /\ Placed(s) = {} /\ Targets(s) = {Loop.exit, ReturnLabel}
    <3>1. Range(s) = {m, j1, j2} /\ s \in Seq(Emitted)
      BY <2>3, <2>4, SeqThree
    <3> QED
      BY <2>3, <3>1 DEF Placed, Targets, JumpOps
  <2>6. PICK p : p = FreeBlockVars(LevelIn(form))
    OBVIOUS
  <2>7. p \in Seq(Emitted) /\ Placed(p) = {} /\ Targets(p) = {}
    BY <1>2, <2>6, FormLevel, FreeLevels DEF SInv
  <2>8. PICK d : d = p \o s
    OBVIOUS
  <2>9. d \in Seq(Emitted) /\ Placed(d) = Placed(p) \cup Placed(s) /\ Targets(d) = Targets(p) \cup Targets(s)
    BY <2>5, <2>7, <2>8, EmittedConcat
  <2>10. Placed(d) = {} /\ Targets(d) \subseteq Unplaced
    BY <1>2, <1>3, <2>5, <2>7, <2>9, UnplacedLabels
  <2>11. Guarded(form, d)
    BY <2>1, <2>2, <2>4, <2>6, <2>8
  <2>12. SlotsOK'
    <3>1. PICK L \in Nat : L = LevelIn(form)
      BY <1>2, FormLevel
    <3>2. BlockLevel' = BlockLevel /\ blocks' # <<>> /\ L - 1 <= BlockLevel
      <4>1. BlockLevel' = BlockLevel
        BY <1>1 DEF BlockLevel, Block
      <4>2. L - 1 <= BlockLevel
        BY <1>2, <3>1 DEF LevelIn
      <4> QED
        BY <1>1, <1>2, <4>1, <4>2 DEF Parsing
    <3> QED
      BY <1>2, <2>1, <3>1, <3>2, SlotsForgotten
  <2> QED
    BY <1>1, <2>9, <2>10, <2>11, <2>12, JumpStatement
<1>4. CASE ~InLoop
  <2>1. Guarded(form, <<Jump(ReturnLabel)>>) /\ UNCHANGED <<varDefs, sp>>
    BY <1>4 DEF Return
  <2>2. PICK j : j = Jump(ReturnLabel)
    OBVIOUS
  <2>3. j \in Emitted /\ j.op = "jump" /\ j.label = ReturnLabel
    BY <2>2, JumpType DEF ReturnLabel
  <2>4. PICK d : d = <<j>>
    OBVIOUS
  <2>5. d \in Seq(Emitted) /\ Placed(d) = {} /\ Targets(d) = {ReturnLabel}
    <3>1. Range(d) = {j} /\ d \in Seq(Emitted)
      BY <2>3, <2>4, SeqOne
    <3> QED
      BY <2>3, <3>1 DEF Placed, Targets, JumpOps
  <2>6. Targets(d) \subseteq Unplaced
    BY <1>2, <2>5, UnplacedLabels
  <2>7. SlotsOK'
    <3>1. BlockLevel' = BlockLevel /\ blocks' # <<>>
      BY <1>1, <1>2 DEF BlockLevel, Block, Parsing
    <3>2. BlockLevel' \in Nat /\ BlockLevel <= BlockLevel'
      BY <1>2, <3>1
    <3> QED
      BY <1>2, <2>1, <3>1, <3>2, SlotsStay
  <2> QED
    BY <1>1, <2>1, <2>2, <2>4, <2>5, <2>6, <2>7, JumpStatement
<1> QED
  BY <1>3, <1>4

LEMMA FailStep ==
  ASSUME SInv, NEW form \in Forms, NEW k \in Codes, ParseFail(form, k)
  PROVE  SInv'
<1>1. /\ Statement /\ UNCHANGED <<blocks, varDefs, sp, returned, pc>> /\ UNCHANGED machine
      /\ early' \in BOOLEAN /\ Guarded(form, <<Mark(k), Jump(ReturnLabel)>>)
  BY DEF ParseFail
<1>2. Parsing /\ returned' \in BOOLEAN
  BY <1>1, StatementStep DEF SInv, ParserOK
<1>3. PICK m, j : m = Mark(k) /\ j = Jump(ReturnLabel)
  OBVIOUS
<1>4. m \in Emitted /\ m.op = "mark" /\ j \in Emitted /\ j.op = "jump" /\ j.label = ReturnLabel
  BY <1>3, JumpType DEF Mark, Emitted, ReturnLabel
<1>5. PICK d : d = <<m, j>>
  OBVIOUS
<1>6. d \in Seq(Emitted) /\ Placed(d) = {} /\ Targets(d) = {ReturnLabel}
  <2>1. Range(d) = {m, j} /\ d \in Seq(Emitted)
    BY <1>4, <1>5, SeqTwo
  <2> QED
    BY <1>4, <2>1 DEF Placed, Targets, JumpOps
<1>7. Targets(d) \subseteq Unplaced
  BY <1>2, <1>6, UnplacedLabels
<1>8. SlotsOK'
  <2>1. BlockLevel' = BlockLevel /\ blocks' # <<>> /\ BlockLevel \in Nat
    BY <1>1, <1>2, OpenBlocks DEF BlockLevel, Block, Parsing
  <2>2. BlockLevel' \in Nat /\ BlockLevel <= BlockLevel'
    BY <2>1
  <2> QED
    BY <1>1, <1>2, <2>1, <2>2, SlotsStay
<1> QED
  BY <1>1, <1>2, <1>3, <1>5, <1>6, <1>7, <1>8, JumpStatement

-----------------------------------------------------------------------------
(* The closing braces.                                                     *)
Cat(c, d) == c \o d

LEMMA CatAssociative ==
  \A c, p, q \in Seq(Emitted) : Cat(Cat(c, p), q) = Cat(c, Cat(p, q)) /\ Cat(p, q) \in Seq(Emitted)
<1> TAKE c, p, q \in Seq(Emitted)
<1>1. c \o p \o q = c \o (p \o q)
  BY ConcatAssociative
<1>2. p \o q \in Seq(Emitted)
  BY ConcatProperties
<1> QED
  BY <1>1, <1>2 DEF Cat

LEMMA RegroupThree ==
  \A c, p, q \in Seq(Emitted) : c \o p \o q = c \o (p \o q)
  BY CatAssociative DEF Cat

LEMMA RegroupFive ==
  \A c, p, q, r, s \in Seq(Emitted) :
    /\ Cat(Cat(Cat(Cat(c, p), q), r), s) = Cat(c, Cat(Cat(Cat(p, q), r), s))
    /\ Cat(Cat(Cat(p, q), r), s) \in Seq(Emitted)
  BY CatAssociative

LEMMA Ins1 ==
  ASSUME NEW a \in Emitted
  PROVE  /\ <<a>> \in Seq(Emitted)
         /\ a.op = "label" => Placed(<<a>>) = {a.label} /\ Targets(<<a>>) = {}
         /\ a.op \in JumpOps => Placed(<<a>>) = {} /\ Targets(<<a>>) = {a.label}
         /\ a.op \notin JumpOps \cup {"label"} => Placed(<<a>>) = {} /\ Targets(<<a>>) = {}
<1>1. <<a>> \in Seq(Emitted) /\ Range(<<a>>) = {a}
  BY SeqOne
<1>2. a.op = "label" => a.op \notin JumpOps
  BY DEF JumpOps
<1> QED
  BY <1>1, <1>2 DEF Placed, Targets

LEMMA Ins2 ==
  ASSUME NEW a \in Emitted, NEW b \in Emitted
  PROVE  /\ <<a, b>> \in Seq(Emitted)
         /\ Placed(<<a, b>>) = Placed(<<a>>) \cup Placed(<<b>>)
         /\ Targets(<<a, b>>) = Targets(<<a>>) \cup Targets(<<b>>)
<1>1. <<a, b>> \in Seq(Emitted) /\ Range(<<a, b>>) = {a, b} /\ Range(<<a>>) = {a} /\ Range(<<b>>) = {b}
  BY SeqOne, SeqTwo
<1> QED
  BY <1>1 DEF Placed, Targets

LEMMA LabelType ==
  \A l \in Nat : Label(l) \in Emitted /\ Label(l).op = "label" /\ Label(l).label = l
  BY DEF Label, Emitted, JumpOps

LEMMA BlockLeft ==
  ASSUME SInv, Parsing, Closed, labels' = labels, UNCHANGED <<early, stmts>>, UNCHANGED machine,
         returned' \in BOOLEAN, NEW d \in Seq(Emitted), code' = code \o d,
         Placed(d) = ToPlace(Block), Targets(d) \subseteq Placed(code) \cup Unplaced,
         pc' \in {0, 1}, pc' = 0 <=> Block.kind # "function",
         NEW L \in Nat, L = BlockLevel - Wide(Block) + 1, Forget(L), sp' = SpWithout(L)
  PROVE  SInv'
<1>1. Block.kind = "function" <=> Len(blocks) = 1
  BY OpenBlocks DEF SInv, BlocksOK, Block
<1>2. /\ BlocksOK' /\ BlockLabelsOK'
      /\ Unplaced = Unplaced' \cup ToPlace(Block) /\ Unplaced' \cap ToPlace(Block) = {}
      /\ Len(blocks) = 1 <=> blocks' = <<>>
      /\ Len(blocks) # 1 => BlockLevel' = BlockLevel - Wide(Block)
      /\ \A i \in DOMAIN blocks' : i \in DOMAIN blocks /\ blocks'[i] = blocks[i]
  BY <1>1, BlockClosed
<1>3. labels \in Nat /\ Unplaced \subseteq 0 .. labels /\ Placed(code) \cap Unplaced = {}
  BY UnplacedLabels DEF SInv, ParserOK, CodeOK
<1>4. CodeOK'
  <2>1. labels' \in Nat /\ labels <= labels' /\ Placed(d) \subseteq 0 .. labels'
    BY <1>2, <1>3
  <2>2. /\ Targets(d) \subseteq Placed(code) \cup Placed(d) \cup Unplaced'
        /\ Unplaced \subseteq Placed(d) \cup Unplaced'
    BY <1>2
  <2>3. (Placed(code) \cup Placed(d)) \cap Unplaced' = {}
    BY <1>2, <1>3
  <2>4. \A i \in DOMAIN blocks' :
          blocks'[i].kind \in {"for", "loop"} => blocks'[i].start \in Placed(code) \cup Placed(d)
    BY <1>2 DEF SInv, CodeOK
  <2> QED
    BY <2>1, <2>2, <2>3, <2>4, CodeExtended
<1>5. ParserOK'
  BY <1>3 DEF SInv, ParserOK
<1>6. MachineOK'
  BY <1>4, MachineWaits DEF CodeOK
<1>7. SlotsOK'
  <2>1. BlockLevel \in Nat /\ Wide(Block) \in {1, 2} /\ (Block.kind = "function" => Wide(Block) = 1)
    BY OpenBlocks DEF Wide
  <2>2. CASE Len(blocks) = 1
    <3>1. BlockLevel = 1
      BY <2>2, OpenBlocks DEF SInv, BlocksOK, BlockLevel, Block
    <3>2. L = 1
      BY <1>1, <2>1, <2>2, <3>1
    <3> QED
      BY <3>2, SlotsForgotten
  <2>3. CASE Len(blocks) # 1
    <3>1. blocks' # <<>> /\ L - 1 = BlockLevel'
      BY <1>2, <2>1, <2>3
    <3>2. L > 1 => L - 1 <= BlockLevel' /\ BlockLevel' \in Nat
      BY <3>1
    <3> QED
      BY <3>1, <3>2, SlotsForgotten
  <2> QED
    BY <2>2, <2>3
<1> QED
  BY <1>2, <1>4, <1>5, <1>6, <1>7 DEF SInv

LEMMA BlockLabels ==
  ASSUME SInv, Parsing
  PROVE  /\ Block.exit \in Nat /\ Block.start \in Nat /\ Block.break \in Nat
         /\ Block.kind \in {"for", "loop"} => Block.start \in Placed(code)
         /\ ToPlace(Block) \subseteq Unplaced
         /\ BlockLevel - Wide(Block) + 1 \in Nat
<1>1. Block \in BlockType /\ Len(blocks) \in DOMAIN blocks /\ Block = blocks[Len(blocks)]
  BY OpenBlocks DEF Block
<1>2. Block.kind \in {"for", "loop"} => Block.start \in Placed(code)
  BY <1>1 DEF SInv, CodeOK
<1>3. ToPlace(Block) \subseteq Unplaced
  BY <1>1, UnplacedLabels
<1>4. BlockLevel - Wide(Block) + 1 \in Nat
  <2>1. BlockLevel \in Nat /\ BlockLevel >= 1 /\ Wide(Block) \in {1, 2}
    BY OpenBlocks DEF Wide
  <2> QED
    BY <2>1
<1> QED
  BY <1>1, <1>2, <1>3, <1>4 DEF BlockType

LEMMA CloseIfStep ==
  ASSUME SInv, CloseIf
  PROVE  SInv'
<1>1. /\ Parsing /\ Block.kind = "if" /\ code' = code \o FreeBlockVars(BlockLevel) \o <<Label(Block.exit)>>
      /\ Forget(BlockLevel) /\ sp' = SpWithout(BlockLevel) /\ returned' \in BOOLEAN
      /\ Closed /\ UNCHANGED <<early, labels, stmts, pc>> /\ UNCHANGED machine
  BY DEF CloseIf
<1>2. PICK L \in Nat : L = BlockLevel
  BY <1>1, OpenBlocks
<1>3. PICK p \in Seq(Emitted) : p = FreeBlockVars(L) /\ Placed(p) = {} /\ Targets(p) = {}
  BY FreeLevels DEF SInv
<1>4. PICK a \in Emitted : a = Label(Block.exit) /\ a.op = "label" /\ a.label = Block.exit
  BY <1>1, BlockLabels, LabelType
<1>5. PICK q \in Seq(Emitted) : q = <<a>> /\ Placed(q) = {Block.exit} /\ Targets(q) = {}
  BY <1>4, Ins1
<1>6. PICK d : d = p \o q
  OBVIOUS
<1>7. d \in Seq(Emitted) /\ Placed(d) = Placed(p) \cup Placed(q) /\ Targets(d) = Targets(p) \cup Targets(q)
  BY <1>6, EmittedConcat
<1>8. Placed(d) = ToPlace(Block) /\ Targets(d) = {}
  BY <1>1, <1>3, <1>5, <1>7 DEF ToPlace
<1>9. code' = code \o d
  <2>1. PICK c \in Seq(Emitted) : c = code
    BY DEF SInv, CodeOK
  <2>2. c \o p \o q = c \o (p \o q)
    BY RegroupThree
  <2> QED
    BY <1>1, <1>2, <1>3, <1>4, <1>5, <1>6, <2>1, <2>2
<1>10. L = BlockLevel - Wide(Block) + 1
  BY <1>1, <1>2 DEF Wide
<1>11. pc' \in {0, 1} /\ pc' = 0
  BY <1>1 DEF Parsing
<1> QED
  BY <1>1, <1>2, <1>7, <1>8, <1>9, <1>10, <1>11, BlockLeft

LEMMA CloseFunctionStep ==
  ASSUME SInv, CloseFunction
  PROVE  SInv'
<1>1. /\ Parsing /\ Block.kind = "function"
      /\ code' = code \o <<Label(ReturnLabel)>> \o FreeBlockVars(1) \o <<Leave>>
      /\ Forget(1) /\ sp' = SpWithout(1) /\ pc' = 1
      /\ Closed /\ UNCHANGED <<returned, early, labels, stmts>> /\ UNCHANGED machine
  BY DEF CloseFunction
<1>2. returned' \in BOOLEAN
  BY <1>1 DEF SInv, ParserOK
<1>3. PICK p \in Seq(Emitted) : p = FreeBlockVars(1) /\ Placed(p) = {} /\ Targets(p) = {}
  BY FreeLevels DEF SInv
<1>4. PICK a \in Emitted : a = Label(ReturnLabel) /\ a.op = "label" /\ a.label = ReturnLabel
  BY LabelType DEF ReturnLabel
<1>5. PICK q \in Seq(Emitted) : q = <<a>> /\ Placed(q) = {ReturnLabel} /\ Targets(q) = {}
  BY <1>4, Ins1
<1>6. PICK b \in Emitted : b = Leave /\ b.op = "leave"
  <2>1. Leave \in Emitted /\ Leave.op = "leave"
    BY DEF Leave, Emitted
  <2> QED
    BY <2>1
<1>7. PICK r \in Seq(Emitted) : r = <<b>> /\ Placed(r) = {} /\ Targets(r) = {}
  BY <1>6, Ins1 DEF JumpOps
<1>8. PICK e \in Seq(Emitted) : e = q \o p /\ Placed(e) = Placed(q) \cup Placed(p) /\ Targets(e) = Targets(q) \cup Targets(p)
  BY EmittedConcat
<1>9. PICK d \in Seq(Emitted) : d = e \o r /\ Placed(d) = Placed(e) \cup Placed(r) /\ Targets(d) = Targets(e) \cup Targets(r)
  BY EmittedConcat
<1>10. Placed(d) = ToPlace(Block) /\ Targets(d) = {}
  BY <1>1, <1>3, <1>5, <1>7, <1>8, <1>9 DEF ToPlace
<1>11. code' = code \o d
  <2>1. PICK c \in Seq(Emitted) : c = code
    BY DEF SInv, CodeOK
  <2>2. c \o q \o p \o r = c \o (q \o p \o r)
    <3>1. Cat(Cat(Cat(c, q), p), r) = Cat(c, Cat(Cat(q, p), r))
      BY CatAssociative
    <3> QED
      BY <3>1, Zenon DEF Cat
  <2> QED
    BY <1>1, <1>3, <1>4, <1>5, <1>6, <1>7, <1>8, <1>9, <2>1, <2>2
<1>12. PICK L \in Nat : L = 1
  OBVIOUS
<1>13. L = BlockLevel - Wide(Block) + 1
  <2>1. BlockLevel = 1
    BY <1>1, OpenBlocks DEF SInv, BlocksOK, BlockLevel, Block
  <2> QED
    BY <1>1, <1>12, <2>1 DEF Wide
<1>14. pc' \in {0, 1} /\ pc' # 0
  BY <1>1
<1> QED
  BY <1>1, <1>2, <1>10, <1>11, <1>12, <1>13, <1>14, BlockLeft

LEMMA CloseForStep ==
  ASSUME SInv, CloseFor
  PROVE  SInv'
<1>1. /\ Parsing /\ Block.kind = "for"
      /\ code' = code \o FreeBlockVars(BlockLevel)
                   \o <<Jump(Block.start), Label(Block.exit)>>
                   \o FreeVars({v \in varDefs : v.level = BlockLevel - 1})
                   \o AfterFor
      /\ Forget(BlockLevel - 1) /\ sp' = SpWithout(BlockLevel - 1)
      /\ Closed /\ UNCHANGED <<returned, early, labels, stmts, pc>> /\ UNCHANGED machine
  BY DEF CloseFor
<1>2. returned' \in BOOLEAN
  BY <1>1 DEF SInv, ParserOK
<1>3. PICK top \in Nat : top = BlockLevel
  BY <1>1, OpenBlocks
<1>4. PICK p \in Seq(Emitted) : p = FreeBlockVars(top) /\ Placed(p) = {} /\ Targets(p) = {}
  BY FreeLevels DEF SInv
<1>5. Block.start \in Nat /\ Block.exit \in Nat /\ Block.start \in Placed(code)
  BY <1>1, BlockLabels
<1>6. PICK j \in Emitted : j = Jump(Block.start) /\ j.op = "jump" /\ j.label = Block.start
  BY <1>5, JumpType
<1>7. PICK a \in Emitted : a = Label(Block.exit) /\ a.op = "label" /\ a.label = Block.exit
  BY <1>5, LabelType
<1>8. PICK q : q = <<j, a>>
  OBVIOUS
<1>9. q \in Seq(Emitted) /\ Placed(q) = {Block.exit} /\ Targets(q) = {Block.start}
  <2>1. Placed(<<j>>) = {} /\ Targets(<<j>>) = {Block.start} /\ Placed(<<a>>) = {Block.exit} /\ Targets(<<a>>) = {}
    BY <1>6, <1>7, Ins1 DEF JumpOps
  <2>2. q \in Seq(Emitted) /\ Placed(q) = Placed(<<j>>) \cup Placed(<<a>>) /\ Targets(q) = Targets(<<j>>) \cup Targets(<<a>>)
    BY <1>8, Ins2
  <2> QED
    BY <2>1, <2>2
<1>10. PICK vs : vs = {v \in varDefs : v.level = BlockLevel - 1}
  OBVIOUS
<1>11. vs \subseteq VarType /\ IsFiniteSet(vs) /\ \A v \in vs : v.ofs # 0
  <2>1. vs \subseteq varDefs
    BY <1>10
  <2>2. varDefs \subseteq VarType /\ IsFiniteSet(varDefs) /\ \A v \in varDefs : v.ofs # 0
    BY <1>3, Levels DEF SInv, SlotsOK, Dense
  <2> QED
    BY <2>1, <2>2, FS_Subset
<1>12. PICK r \in Seq(Emitted) : r = FreeVars(vs) /\ Placed(r) = {} /\ Targets(r) = {}
  BY <1>11, FreeVarsEmitted
<1>13. PICK x, y \in Emitted : x = ReturnIfErr2 /\ x.op = "returnIfErr2" /\ x.label = 0
                               /\ y = ClearBreakErr /\ y.op = "clearBreakErr"
  <2>1. ReturnIfErr2 \in Emitted /\ ReturnIfErr2.op = "returnIfErr2" /\ ReturnIfErr2.label = 0
    BY DEF ReturnIfErr2, Emitted, JumpOps
  <2>2. ClearBreakErr \in Emitted /\ ClearBreakErr.op = "clearBreakErr"
    BY DEF ClearBreakErr, Emitted
  <2> QED
    BY <2>1, <2>2
<1>14. PICK s : s = <<x, y>>
  OBVIOUS
<1>15. s \in Seq(Emitted) /\ Placed(s) = {} /\ Targets(s) = {0}
  <2>1. Placed(<<x>>) = {} /\ Targets(<<x>>) = {0} /\ Placed(<<y>>) = {} /\ Targets(<<y>>) = {}
    BY <1>13, Ins1 DEF JumpOps
  <2>2. s \in Seq(Emitted) /\ Placed(s) = Placed(<<x>>) \cup Placed(<<y>>) /\ Targets(s) = Targets(<<x>>) \cup Targets(<<y>>)
    BY <1>14, Ins2
  <2> QED
    BY <2>1, <2>2
<1>16. PICK d1 \in Seq(Emitted) : d1 = p \o q /\ Placed(d1) = Placed(p) \cup Placed(q) /\ Targets(d1) = Targets(p) \cup Targets(q)
  BY <1>9, EmittedConcat
<1>17. PICK d2 \in Seq(Emitted) : d2 = d1 \o r /\ Placed(d2) = Placed(d1) \cup Placed(r) /\ Targets(d2) = Targets(d1) \cup Targets(r)
  BY EmittedConcat
<1>18. PICK d \in Seq(Emitted) : d = d2 \o s /\ Placed(d) = Placed(d2) \cup Placed(s) /\ Targets(d) = Targets(d2) \cup Targets(s)
  BY <1>15, EmittedConcat
<1>19. Placed(d) = ToPlace(Block)
  <2>1. Placed(d) = {Block.exit}
    BY <1>4, <1>9, <1>12, <1>15, <1>16, <1>17, <1>18
  <2> QED
    BY <1>1, <2>1 DEF ToPlace
<1>20. Targets(d) \subseteq Placed(code) \cup Unplaced
  <2>1. Targets(d) = {Block.start, 0}
    BY <1>4, <1>9, <1>12, <1>15, <1>16, <1>17, <1>18
  <2>2. 0 \in Unplaced
    BY <1>1, UnplacedLabels DEF ReturnLabel
  <2> QED
    BY <1>5, <2>1, <2>2
<1>21. code' = code \o d
  <2>1. PICK c \in Seq(Emitted) : c = code
    BY DEF SInv, CodeOK
  <2>2. c \o p \o q \o r \o s = c \o (p \o q \o r \o s)
    <3>1. Cat(Cat(Cat(Cat(c, p), q), r), s) = Cat(c, Cat(Cat(Cat(p, q), r), s))
      BY <1>9, <1>15, RegroupFive
    <3> QED
      BY <3>1, Zenon DEF Cat
  <2>3. code' = c \o p \o q \o r \o s
    BY <1>1, <1>3, <1>4, <1>6, <1>7, <1>8, <1>10, <1>12, <1>13, <1>14, <2>1 DEF AfterFor
  <2>4. d = p \o q \o r \o s
    BY <1>16, <1>17, <1>18
  <2> QED
    BY <2>1, <2>2, <2>3, <2>4
<1>22. PICK L : L = BlockLevel - 1
  OBVIOUS
<1>23. L \in Nat /\ L = BlockLevel - Wide(Block) + 1
  <2>1. BlockLevel - 2 + 1 \in Nat
    BY <1>1, BlockLabels DEF Wide
  <2> QED
    BY <1>1, <1>3, <1>22, <2>1 DEF Wide
<1>24. pc' \in {0, 1} /\ pc' = 0
  BY <1>1 DEF Parsing
<1> QED
  BY <1>1, <1>2, <1>19, <1>20, <1>21, <1>22, <1>23, <1>24, BlockLeft

LEMMA CloseLoopStep ==
  ASSUME SInv, CloseLoop
  PROVE  SInv'
<1>1. /\ Parsing /\ Block.kind = "loop"
      /\ code' = code \o FreeBlockVarsNoDelete(BlockLevel)
                   \o <<Jump(Block.start), Label(Block.break)>>
                   \o FreeBlockVars(BlockLevel)
                   \o <<Label(Block.exit)>> \o AfterLoop
      /\ Forget(BlockLevel) /\ sp' = SpWithout(BlockLevel)
      /\ Closed /\ UNCHANGED <<returned, early, labels, stmts, pc>> /\ UNCHANGED machine
  BY DEF CloseLoop
<1>2. returned' \in BOOLEAN
  BY <1>1 DEF SInv, ParserOK
<1>3. PICK L \in Nat : L = BlockLevel
  BY <1>1, OpenBlocks
<1>4. PICK p \in Seq(Emitted) : p = FreeBlockVarsNoDelete(L) /\ Placed(p) = {} /\ Targets(p) = {}
  BY FreeLevels DEF SInv
<1>5. Block.start \in Nat /\ Block.exit \in Nat /\ Block.break \in Nat /\ Block.start \in Placed(code)
  BY <1>1, BlockLabels
<1>6. PICK j \in Emitted : j = Jump(Block.start) /\ j.op = "jump" /\ j.label = Block.start
  BY <1>5, JumpType
<1>7. PICK a \in Emitted : a = Label(Block.break) /\ a.op = "label" /\ a.label = Block.break
  BY <1>5, LabelType
<1>8. PICK q : q = <<j, a>>
  OBVIOUS
<1>9. q \in Seq(Emitted) /\ Placed(q) = {Block.break} /\ Targets(q) = {Block.start}
  <2>1. Placed(<<j>>) = {} /\ Targets(<<j>>) = {Block.start} /\ Placed(<<a>>) = {Block.break} /\ Targets(<<a>>) = {}
    BY <1>6, <1>7, Ins1 DEF JumpOps
  <2>2. q \in Seq(Emitted) /\ Placed(q) = Placed(<<j>>) \cup Placed(<<a>>) /\ Targets(q) = Targets(<<j>>) \cup Targets(<<a>>)
    BY <1>8, Ins2
  <2> QED
    BY <2>1, <2>2
<1>10. PICK r \in Seq(Emitted) : r = FreeBlockVars(L) /\ Placed(r) = {} /\ Targets(r) = {}
  BY FreeLevels DEF SInv
<1>11. PICK x \in Emitted : x = Label(Block.exit) /\ x.op = "label" /\ x.label = Block.exit
  BY <1>5, LabelType
<1>12. PICK s \in Seq(Emitted) : s = <<x>> /\ Placed(s) = {Block.exit} /\ Targets(s) = {}
  BY <1>11, Ins1
<1>13. PICK y \in Emitted : y = ClearBreakErr /\ y.op = "clearBreakErr"
  <2>1. ClearBreakErr \in Emitted /\ ClearBreakErr.op = "clearBreakErr"
    BY DEF ClearBreakErr, Emitted
  <2> QED
    BY <2>1
<1>14. PICK t \in Seq(Emitted) : t = <<y>> /\ Placed(t) = {} /\ Targets(t) = {}
  BY <1>13, Ins1 DEF JumpOps
<1>16. PICK d1 \in Seq(Emitted) : d1 = p \o q /\ Placed(d1) = Placed(p) \cup Placed(q) /\ Targets(d1) = Targets(p) \cup Targets(q)
  BY <1>9, EmittedConcat
<1>17. PICK d2 \in Seq(Emitted) : d2 = d1 \o r /\ Placed(d2) = Placed(d1) \cup Placed(r) /\ Targets(d2) = Targets(d1) \cup Targets(r)
  BY EmittedConcat
<1>18. PICK d3 \in Seq(Emitted) : d3 = d2 \o s /\ Placed(d3) = Placed(d2) \cup Placed(s) /\ Targets(d3) = Targets(d2) \cup Targets(s)
  BY EmittedConcat
<1>19. PICK d \in Seq(Emitted) : d = d3 \o t /\ Placed(d) = Placed(d3) \cup Placed(t) /\ Targets(d) = Targets(d3) \cup Targets(t)
  BY EmittedConcat
<1>20. Placed(d) = ToPlace(Block)
  <2>1. Placed(d) = {Block.break, Block.exit}
    BY <1>4, <1>9, <1>10, <1>12, <1>14, <1>16, <1>17, <1>18, <1>19
  <2> QED
    BY <1>1, <2>1 DEF ToPlace
<1>21. Targets(d) \subseteq Placed(code) \cup Unplaced
  <2>1. Targets(d) = {Block.start}
    BY <1>4, <1>9, <1>10, <1>12, <1>14, <1>16, <1>17, <1>18, <1>19
  <2> QED
    BY <1>5, <2>1
<1>22. code' = code \o d
  <2>1. PICK c \in Seq(Emitted) : c = code
    BY DEF SInv, CodeOK
  <2>2. c \o p \o q \o r \o s \o t = c \o (p \o q \o r \o s \o t)
    <3>1. Cat(Cat(Cat(Cat(Cat(c, p), q), r), s), t) = Cat(c, Cat(Cat(Cat(Cat(p, q), r), s), t))
      <4>1. PICK e : e = Cat(Cat(Cat(p, q), r), s)
        OBVIOUS
      <4>2. Cat(Cat(Cat(Cat(c, p), q), r), s) = Cat(c, e) /\ e \in Seq(Emitted)
        BY <1>9, <4>1, RegroupFive
      <4>3. Cat(Cat(c, e), t) = Cat(c, Cat(e, t))
        BY <4>2, CatAssociative
      <4> QED
        BY <4>1, <4>2, <4>3
    <3> QED
      BY <3>1, Zenon DEF Cat
  <2>3. code' = c \o p \o q \o r \o s \o t
    BY <1>1, <1>3, <1>4, <1>6, <1>7, <1>8, <1>10, <1>11, <1>12, <1>13, <1>14, <2>1 DEF AfterLoop
  <2>4. d = p \o q \o r \o s \o t
    BY <1>16, <1>17, <1>18, <1>19
  <2> QED
    BY <2>1, <2>2, <2>3, <2>4
<1>23. L = BlockLevel - Wide(Block) + 1
  BY <1>1, <1>3 DEF Wide
<1>24. pc' \in {0, 1} /\ pc' = 0
  BY <1>1 DEF Parsing
<1> QED
  BY <1>1, <1>2, <1>3, <1>20, <1>21, <1>22, <1>23, <1>24, BlockLeft

-----------------------------------------------------------------------------
(* The machine.                                                            *)
LEMMA WhileRunning ==
  ASSUME SInv, Running
  PROVE  /\ blocks = <<>> /\ varDefs = {} /\ pc \in Nat \ {0} /\ Instr \in Emitted
         /\ pc + 1 \in 0 .. Len(code) + 1 /\ pc + 1 # 0
         /\ Instr.op \in JumpOps =>
              /\ Position(Instr.label) \in 0 .. Len(code) + 1 /\ Position(Instr.label) # 0
              /\ Position(Instr.label) \in DOMAIN code
              /\ code[Position(Instr.label)] = Label(Instr.label)
<1>1. code \in Seq(Emitted) /\ pc \in DOMAIN code
  BY DEF Running, SInv, CodeOK
<1>2. pc \in Nat \ {0} /\ Instr \in Emitted /\ pc + 1 \in 0 .. Len(code) + 1 /\ pc + 1 # 0
      /\ DOMAIN code = 1 .. Len(code) /\ Len(code) \in Nat
  BY <1>1 DEF Instr
<1>3. blocks = <<>>
  BY <1>2 DEF SInv, BlocksOK
<1>4. varDefs = {}
  BY <1>3 DEF SInv, SlotsOK
<1>5. ASSUME Instr.op \in JumpOps
      PROVE  /\ Position(Instr.label) \in DOMAIN code
             /\ code[Position(Instr.label)] = Label(Instr.label)
  <2>1. PICK l : l = Instr.label
    OBVIOUS
  <2>2. Instr \in Range(code)
    BY <1>1 DEF Range, Instr
  <2>3. l \in Targets(code)
    BY <1>5, <2>1, <2>2 DEF Targets
  <2>4. Unplaced = {}
    BY <1>3 DEF Unplaced
  <2>5. l \in Placed(code)
    BY <2>3, <2>4 DEF SInv, CodeOK
  <2>6. PICK i \in DOMAIN code : code[i].op = "label" /\ code[i].label = l
    BY <2>5 DEF Placed, Range
  <2>7. Position(l) \in DOMAIN code /\ code[Position(l)].op = "label" /\ code[Position(l)].label = l
    BY <2>6 DEF Position
  <2>8. code[Position(l)] \in Emitted
    BY <1>1, <2>7
  <2>9. \A x \in Emitted : x.op = "label" => x = [op |-> "label", label |-> x.label]
    BY DEF Emitted, JumpOps
  <2> QED
    BY <2>1, <2>7, <2>8, <2>9 DEF Label
<1>6. Instr.op \in JumpOps => Position(Instr.label) \in 0 .. Len(code) + 1 /\ Position(Instr.label) # 0
  BY <1>2, <1>5
<1> QED
  BY <1>2, <1>3, <1>4, <1>5, <1>6

LEMMA ParserRests ==
  ASSUME SInv, UNCHANGED parser, pc # 0, pc' # 0
  PROVE  ParserOK' /\ BlocksOK' /\ SlotsOK' /\ BlockLabelsOK' /\ CodeOK'
<1> USE DEF parser
<1>1. ParserOK'
  BY DEF SInv, ParserOK
<1>2. BlocksOK'
  BY DEF SInv, BlocksOK, Wide
<1>3. SlotsOK'
  BY DEF SInv, SlotsOK, Dense, Under, VarType, BlockLevel, Block
<1>4. BlockLabelsOK'
  BY DEF SInv, BlockLabelsOK, LabelsOf
<1>5. CodeOK'
  <2>1. Unplaced' = Unplaced
    BY DEF Unplaced, ToPlace
  <2> QED
    BY <2>1 DEF SInv, CodeOK, Placed, Targets
<1> QED
  BY <1>1, <1>2, <1>3, <1>4, <1>5

LEMMA InstructionTypes ==
  \A x \in Emitted :
    /\ x.op = "new" => x.kind \in {"int", "str", "iter"} /\ x.ofs \in Nat \ {0}
    /\ x.op = "free" => x.ofs \in Nat \ {0}
    /\ x.op = "pop" => x.n \in Nat
    /\ x.op = "mark" => x.n \in {1, 2} \cup Codes
    /\ x.op \in JumpOps \cup {"label"} => x.label \in Nat
  BY DEF Emitted, JumpOps

LEMMA MachineStep ==
  ASSUME SInv, Execute
  PROVE  SInv'
<1>1. Running /\ UNCHANGED parser
  BY DEF Execute, ExecNew, ExecFree, ExecPop, ExecMark, ExecJump, ExecCall, ExecNext,
         ExecReturnIfErr2, ExecClearBreakErr, ExecLeave, At
<1>2. /\ pc \in Nat \ {0} /\ Instr \in Emitted /\ pc + 1 \in 0 .. Len(code) + 1 /\ pc + 1 # 0
      /\ Instr.op \in JumpOps => Position(Instr.label) \in 0 .. Len(code) + 1 /\ Position(Instr.label) # 0
  BY <1>1, WhileRunning
<1>3. code' = code
  BY <1>1 DEF parser
<1>4. /\ depth \in Int /\ stack \in Seq(Objs \cup {0}) /\ Len(stack) = IF depth > 0 THEN depth ELSE 0
      /\ r15 \in {0, 1, 2} \cup Codes
      /\ heap \in [Objs -> [kind : {"free", "str", "iter"}, left : 0 .. Items]]
      /\ leaving \in BOOLEAN /\ fault = "none" /\ pc \in 0 .. Len(code) + 1
  BY <1>1 DEF SInv, MachineOK, Running
<1>5. Items \in Nat /\ Codes \subseteq Nat
  BY LoopAssumption
<1> DEFINE Moved == pc' \in 0 .. Len(code) + 1 /\ pc' # 0
           Words == depth' \in Int /\ stack' \in Seq(Objs \cup {0})
                    /\ Len(stack') = IF depth' > 0 THEN depth' ELSE 0
           Kept == heap' \in [Objs -> [kind : {"free", "str", "iter"}, left : 0 .. Items]]
           Rest == /\ r15' \in {0, 1, 2} \cup Codes /\ leaving' \in BOOLEAN
                   /\ fault' \in {"none", "wrong slot", "below the stack", "not an object",
                                  "wrong argument"}
<1>6. ASSUME NEW f \in {"wrong slot", "below the stack", "wrong argument", "not an object"}, Fails(f)
      PROVE  Moved /\ Words /\ Kept /\ Rest
  BY <1>2, <1>4, <1>6 DEF Fails
<1>7. Step => Moved
  BY <1>2 DEF Step
<1>8. Moved /\ Words /\ Kept /\ Rest
  <2>1. CASE ExecNew
    <3>1. CASE Instr.ofs # depth + 1
      BY <1>6, <2>1, <3>1 DEF ExecNew
    <3>2. CASE Instr.ofs = depth + 1
      <4>1. depth' = depth + 1 /\ Step /\ UNCHANGED <<r15, leaving, fault>>
        BY <2>1, <3>2 DEF ExecNew
      <4>2. Instr.kind \in {"int", "str", "iter"} /\ Instr.ofs \in Nat \ {0}
        BY <1>2, <2>1, InstructionTypes DEF ExecNew, At
      <4>3. depth \in Nat /\ Len(stack) = depth
        BY <1>4, <3>2, <4>2
      <4>4. CASE Instr.kind = "int"
        <5>1. stack' = Append(stack, 0) /\ heap' = heap
          BY <2>1, <3>2, <4>4 DEF ExecNew
        <5>2. Words
          BY <1>4, <4>1, <4>3, <5>1
        <5> QED
          BY <1>4, <1>7, <4>1, <5>1, <5>2
      <4>5. CASE Instr.kind # "int"
        <5>1. PICK o \in FreeObjs :
                /\ stack' = Append(stack, o)
                /\ heap' = [heap EXCEPT ![o] =
                     [kind |-> Instr.kind, left |-> IF Instr.kind = "iter" THEN Items ELSE 0]]
          BY <2>1, <3>2, <4>5 DEF ExecNew
        <5>2. o \in Objs
          BY DEF FreeObjs
        <5>3. Words
          BY <1>4, <4>1, <4>3, <5>1, <5>2
        <5>4. Kept
          BY <1>4, <1>5, <4>2, <4>5, <5>1, <5>2
        <5> QED
          BY <1>4, <1>7, <4>1, <5>3, <5>4
      <4> QED
        BY <4>4, <4>5
    <3> QED
      BY <3>1, <3>2
  <2>2. CASE ExecFree
    <3> DEFINE o == stack[Instr.ofs]
    <3>1. CASE Instr.ofs > depth \/ o = 0 \/ heap[o] = Unused
      BY <1>6, <2>2, <3>1 DEF ExecFree
    <3>2. CASE ~(Instr.ofs > depth \/ o = 0 \/ heap[o] = Unused)
      <4>1. heap' = [heap EXCEPT ![o] = Unused] /\ Step /\ UNCHANGED <<depth, stack, r15, leaving, fault>>
        BY <2>2, <3>2 DEF ExecFree
      <4>2. Unused \in [kind : {"free", "str", "iter"}, left : 0 .. Items]
        BY <1>5 DEF Unused
      <4>3. Kept
        BY <1>4, <4>1, <4>2
      <4> QED
        BY <1>4, <1>7, <4>1, <4>3
    <3> QED
      BY <3>1, <3>2
  <2>3. CASE ExecPop
    <3>1. /\ depth' = depth - Instr.n /\ stack' = SubSeq(stack, 1, depth - Instr.n)
          /\ Step /\ UNCHANGED <<r15, heap, leaving, fault>>
      BY <2>3 DEF ExecPop
    <3>2. Instr.n \in Nat
      BY <1>2, <2>3, InstructionTypes DEF ExecPop, At
    <3>3. PICK n \in Nat : n = Instr.n
      BY <3>2
    <3>4. Words
      <4>1. CASE depth - n > 0
        BY SMTT(30), <1>4, <3>1, <3>3, <4>1
      <4>2. CASE ~(depth - n > 0)
        <5>1. stack' = <<>>
          BY <1>4, <3>1, <3>3, <4>2
        <5> QED
          BY <1>4, <3>1, <3>3, <4>2, <5>1
      <4> QED
        BY <4>1, <4>2
    <3> QED
      BY <1>4, <1>7, <3>1, <3>4
  <2>4. CASE ExecMark
    <3>1. /\ r15' = Instr.n /\ leaving' = (Instr.by = "return")
          /\ Step /\ UNCHANGED <<depth, stack, heap, fault>>
      BY <2>4 DEF ExecMark
    <3>2. Instr.n \in {1, 2} \cup Codes
      BY <1>2, <2>4, InstructionTypes DEF ExecMark, At
    <3> QED
      BY <1>4, <1>7, <3>1, <3>2
  <2>5. CASE ExecJump
    <3>1. UNCHANGED machine
      BY <2>5 DEF ExecJump
    <3>2. Moved
      <4>1. Step \/ (Instr.op \in JumpOps /\ GoTo(Instr.label))
        BY <2>5 DEF ExecJump, At, JumpOps
      <4> QED
        BY <1>2, <1>7, <4>1 DEF GoTo
    <3> QED
      BY <1>4, <3>1, <3>2 DEF machine
  <2>6. CASE ExecCall
    BY <1>4, <1>7, <2>6 DEF ExecCall
  <2>7. CASE ExecNext
    <3> DEFINE o == stack[depth]
    <3>1. CASE depth < 1 \/ o = 0 \/ heap[o].kind # "iter"
      BY <1>6, <2>7, <3>1 DEF ExecNext
    <3>2. CASE ~(depth < 1 \/ o = 0 \/ heap[o].kind # "iter")
      <4>1. /\ heap' = [heap EXCEPT ![o].left = IF @ = 0 THEN 0 ELSE @ - 1]
            /\ r15' = AfterNext(o) /\ Step /\ UNCHANGED <<depth, stack, leaving, fault>>
        BY <2>7, <3>2 DEF ExecNext
      <4>2. o \in Objs
        BY <1>4, <3>2
      <4>3. heap[o].left \in 0 .. Items
        BY <1>4, <4>2
      <4>4. Kept
        <5>1. PICK left \in 0 .. Items : left = IF heap[o].left = 0 THEN 0 ELSE heap[o].left - 1
          BY <1>5, <4>3
        <5>2. heap[o] \in [kind : {"free", "str", "iter"}, left : 0 .. Items]
          BY <1>4, <4>2
        <5>3. [heap[o] EXCEPT !.left = left] \in [kind : {"free", "str", "iter"}, left : 0 .. Items]
          BY <5>2
        <5>4. heap' = [heap EXCEPT ![o] = [heap[o] EXCEPT !.left = left]]
          BY <1>4, <4>1, <4>2, <5>1, <5>2
        <5> QED
          BY <1>4, <4>2, <5>3, <5>4
      <4> QED
        BY <1>4, <1>7, <4>1, <4>4 DEF AfterNext
    <3> QED
      BY <3>1, <3>2
  <2>8. CASE ExecReturnIfErr2
    <3>1. UNCHANGED <<depth, stack, heap, leaving, fault>> /\ r15' \in {r15, 0}
      BY <2>8 DEF ExecReturnIfErr2, ClearedErr
    <3>2. Moved
      <4>1. Step \/ (Instr.op \in JumpOps /\ GoTo(Instr.label))
        BY <2>8 DEF ExecReturnIfErr2, At, JumpOps
      <4> QED
        BY <1>2, <1>7, <4>1 DEF GoTo
    <3> QED
      BY <1>4, <3>1, <3>2
  <2>9. CASE ExecClearBreakErr
    BY <1>4, <1>7, <2>9 DEF ExecClearBreakErr
  <2>10. CASE ExecLeave
    <3>1. depth' = 0 /\ stack' = <<>> /\ Step /\ UNCHANGED <<r15, heap, leaving, fault>>
      BY <2>10 DEF ExecLeave
    <3> QED
      BY <1>4, <1>7, <3>1
  <2> QED
    BY <2>1, <2>2, <2>3, <2>4, <2>5, <2>6, <2>7, <2>8, <2>9, <2>10 DEF Execute
<1>9. MachineOK'
  BY <1>3, <1>8 DEF MachineOK
<1>10. ParserOK' /\ BlocksOK' /\ SlotsOK' /\ BlockLabelsOK' /\ CodeOK'
  BY <1>1, <1>2, <1>8, ParserRests
<1> QED
  BY <1>9, <1>10 DEF SInv

LEMMA SInvInit == Init => SInv
<1> SUFFICES ASSUME Init PROVE SInv
  OBVIOUS
<1> DEFINE b == [kind |-> "function", level |-> 1, start |-> 0, exit |-> 0, break |-> 0, broken |-> FALSE]
<1>1. /\ code = <<>> /\ blocks = <<b>> /\ varDefs = {} /\ sp = 0 /\ returned = FALSE /\ early = FALSE
      /\ labels = 0 /\ stmts = 0 /\ pc = 0 /\ depth = 0 /\ stack = <<>> /\ r15 = 0
      /\ heap = [o \in Objs |-> Unused] /\ leaving = FALSE /\ fault = "none"
  BY DEF Init
<1>2. b \in BlockType /\ b.kind = "function" /\ b.level = 1
  BY DEF BlockType
<1> HIDE DEF b
<1>3. Len(blocks) = 1 /\ DOMAIN blocks = {1} /\ blocks[1] = b /\ blocks \in Seq(BlockType) /\ blocks # <<>>
  BY <1>1, <1>2
<1>4. ParserOK
  <2>1. 0 \in 0 .. MaxStmts
    BY LoopAssumption
  <2> QED
    BY <1>1, <2>1 DEF ParserOK
<1>5. BlocksOK
  BY <1>1, <1>2, <1>3 DEF BlocksOK
<1>6. SlotsOK
  <2>1. IsFiniteSet({}) /\ Cardinality({}) = 0
    BY FS_EmptySet
  <2>2. PICK vs : vs = {}
    OBVIOUS
  <2>3. \A L \in Nat : Under(vs, L) = {} /\ 1 .. 0 = {}
    BY <2>2 DEF Under
  <2>4. Dense(vs)
    BY <2>1, <2>2, <2>3 DEF Dense
  <2> QED
    BY <1>1, <2>1, <2>2, <2>4 DEF SlotsOK
<1>7. LabelsOf(b) = {} /\ ToPlace(b) = {0}
  BY <1>2 DEF LabelsOf, ToPlace, ReturnLabel
<1>8. BlockLabelsOK
  BY <1>2, <1>3, <1>7 DEF BlockLabelsOK
<1>9. CodeOK
  <2>1. code \in Seq(Emitted) /\ Placed(code) = {} /\ Targets(code) = {}
    BY <1>1, SeqNone
  <2> QED
    BY <1>2, <1>3, <2>1 DEF CodeOK
<1>10. MachineOK
  <2>1. Unused \in [kind : {"free", "str", "iter"}, left : 0 .. Items]
    BY LoopAssumption DEF Unused
  <2>2. Len(code) = 0 /\ stack \in Seq(Objs \cup {0}) /\ Len(stack) = 0
    BY <1>1
  <2>3. heap \in [Objs -> [kind : {"free", "str", "iter"}, left : 0 .. Items]]
    BY <1>1, <2>1
  <2>4. pc \in 0 .. Len(code) + 1 /\ Len(stack) = IF depth > 0 THEN depth ELSE 0
    BY <1>1, <2>2
  <2>5. /\ depth \in Int /\ r15 \in {0, 1, 2} \cup Codes /\ leaving \in BOOLEAN
        /\ fault \in {"none", "wrong slot", "below the stack", "not an object", "wrong argument"}
    <3>1. depth \in Int /\ r15 \in {0, 1, 2} \cup Codes
      BY <1>1
    <3>2. leaving \in BOOLEAN
      BY <1>1
    <3>3. fault \in {"none", "wrong slot", "below the stack", "not an object", "wrong argument"}
      BY <1>1
    <3> QED
      BY <3>1, <3>2, <3>3
  <2>6. depth = 0 /\ stack = <<>> /\ r15 = 0 /\ ~leaving /\ fault = "none" /\ heap = [o \in Objs |-> Unused]
    BY <1>1
  <2> QED
    BY <2>2, <2>3, <2>4, <2>5, <2>6, Zenon DEF MachineOK
<1> QED
  BY <1>4, <1>5, <1>6, <1>8, <1>9, <1>10 DEF SInv

LEMMA SInvNext ==
  ASSUME SInv, [Next]_vars
  PROVE  SInv'
<1>1. CASE ParseStatement
  BY <1>1, NewVarStep, OpenIfStep, OpenForStep, OpenLoopStep, BreakStep, ReturnStep, FailStep
     DEF ParseStatement
<1>2. CASE Close
  BY <1>2, CloseIfStep, CloseForStep, CloseLoopStep, CloseFunctionStep DEF Close
<1>3. CASE Execute
  BY <1>3, MachineStep
<1>4. CASE UNCHANGED vars
  <2>1. UNCHANGED parser /\ UNCHANGED machine /\ UNCHANGED pc
    BY <1>4 DEF vars
  <2>2. ParserOK'
    BY <2>1 DEF parser, SInv, ParserOK
  <2>3. BlocksOK'
    BY <2>1 DEF parser, SInv, BlocksOK, Wide
  <2>4. SlotsOK'
    BY <2>1 DEF parser, SInv, SlotsOK, Dense, Under, VarType, BlockLevel, Block
  <2>5. BlockLabelsOK'
    BY <2>1 DEF parser, SInv, BlockLabelsOK, LabelsOf
  <2>6. CodeOK'
    <3>1. Unplaced' = Unplaced
      BY <2>1 DEF parser, Unplaced, ToPlace
    <3> QED
      BY <2>1, <3>1 DEF parser, SInv, CodeOK, Placed, Targets
  <2>7. MachineOK'
    BY <2>1 DEF parser, machine, SInv, MachineOK, Unused
  <2> QED
    BY <2>2, <2>3, <2>4, <2>5, <2>6, <2>7 DEF SInv
<1> QED
  BY <1>1, <1>2, <1>3, <1>4 DEF Next

(* The structure of the emitted code and of the machine always holds.      *)
THEOREM StructureHolds == Spec => []SInv
<1>1. Init => SInv
  BY SInvInit
<1>2. SInv /\ [Next]_vars => SInv'
  BY SInvNext
<1> QED
  BY <1>1, <1>2, PTL DEF Spec

(* TypeOK: the parser's bookkeeping, the code and the machine keep their   *)
(* types, and no jump leads out of the code: every label is placed once    *)
(* the blocks are closed.                                                  *)
THEOREM TypeCorrect == Spec => []TypeOK
<1>1. SInv => TypeOK
  <2> SUFFICES ASSUME SInv PROVE TypeOK
    OBVIOUS
  <2>1. Emitted \subseteq Instructions
    <3>1. Codes \subseteq Nat
      BY LoopAssumption
    <3>2. [op : {"mark"}, n : {1} \cup Codes, by : {"statement"}] \cup [op : {"mark"}, n : {2}, by : {"return"}]
            \subseteq [op : {"mark"}, n : Nat, by : {"statement", "return"}]
      <4>1. PICK K : K = {1} \cup Codes
        OBVIOUS
      <4>2. K \subseteq Nat
        BY <3>1, <4>1
      <4>3. [op : {"mark"}, n : K, by : {"statement"}] \subseteq [op : {"mark"}, n : Nat, by : {"statement", "return"}]
        BY <4>2
      <4>4. [op : {"mark"}, n : {2}, by : {"return"}] \subseteq [op : {"mark"}, n : Nat, by : {"statement", "return"}]
        OBVIOUS
      <4> QED
        BY <4>1, <4>3, <4>4
    <3>3. [op : {"new"}, kind : {"int", "str", "iter"}, ofs : Nat \ {0}]
            \subseteq [op : {"new"}, kind : {"int", "str", "iter"}, ofs : Nat]
      OBVIOUS
    <3>4. [op : {"free"}, ofs : Nat \ {0}] \subseteq [op : {"free"}, ofs : Nat]
      OBVIOUS
    <3>5. JumpOps \cup {"label"} = {"jump", "jumpFalse", "jumpError", "jumpNoError", "label", "returnIfErr2"}
      BY DEF JumpOps
    <3> QED
      BY <3>2, <3>3, <3>4, <3>5 DEF Emitted, Instructions
  <2>2. code \in Seq(Instructions)
    <3>1. code \in Seq(Emitted)
      BY DEF SInv, CodeOK
    <3> HIDE DEF Emitted, Instructions
    <3> QED
      BY <2>1, <3>1
  <2>3. varDefs \subseteq [kind : {"int", "str", "iter"}, level : Nat, ofs : Nat] /\ sp \in Nat
    <3>1. varDefs \subseteq VarType
      BY DEF SInv, SlotsOK, Dense
    <3>2. sp \in Nat
      BY Levels DEF SInv
    <3> QED
      BY <3>1, <3>2 DEF VarType
  <2>4. ParserOK /\ MachineOK
    BY DEF SInv
  <2> QED
    BY <2>2, <2>3, <2>4 DEF TypeOK, ParserOK, MachineOK
<1> QED
  BY <1>1, StructureHolds, PTL

(* SlotsAreDense: LocalSp counts the local variables and each has a word   *)
(* of its own, whatever the function does: a block forgets its variables   *)
(* and gives back exactly their words.                                     *)
THEOREM ParserKeepsCount == Spec => []SlotsAreDense
<1>1. SInv => SlotsAreDense
  <2> SUFFICES ASSUME SInv PROVE SlotsAreDense
    OBVIOUS
  <2>1. PICK vs : vs = varDefs
    OBVIOUS
  <2>2. Dense(vs) /\ sp = Cardinality(vs)
    BY <2>1 DEF SInv, SlotsOK
  <2>3. \E m \in Nat : \A v \in vs : v.level <= m
    <3>1. CASE varDefs = {}
      BY <2>1, <3>1
    <3>2. CASE varDefs # {}
      <4>1. blocks # <<>> /\ \A v \in vs : v.level <= BlockLevel
        BY <2>1, <3>2 DEF SInv, SlotsOK
      <4>2. Parsing
        BY <4>1 DEF Parsing, SInv, BlocksOK
      <4>3. BlockLevel \in Nat
        BY <4>2, OpenBlocks
      <4> QED
        BY <4>1, <4>3
    <3> QED
      BY <3>1, <3>2
  <2>4. {v.ofs : v \in vs} = 1 .. Cardinality(vs)
    BY <2>2, <2>3, DenseAll
  <2> QED
    BY <2>1, <2>2, <2>4 DEF SlotsAreDense
<1> QED
  BY <1>1, StructureHolds, PTL

=============================================================================
