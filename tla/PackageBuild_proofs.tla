-------------------------- MODULE PackageBuild_proofs --------------------------
(***************************************************************************)
(* The builds of a project, for any number of packages, source files and   *)
(* runs of the compiler, which fail or are killed anywhere: what is taken  *)
(* from the cache stays, imports are compiled first, a sound cache has one *)
(* unfinished package at most afterwards, -clean makes it sound, and a     *)
(* project that compiles is built.                                         *)
(***************************************************************************)
EXTENDS PackageBuild, Inductions, SequenceTheorems

(* Only .jkv files have import statements.                                 *)
FilesOK ==
  /\ files \in [Nodes -> Seq(File)]
  /\ \A n \in Nodes : \A i \in DOMAIN files[n] :
       files[n][i].kind # "jkv" => files[n][i].imports = {}

(* What is true of every call of ProcessPackage that is under way.  The    *)
(* package being compiled was not taken from the cache; nor will those it  *)
(* has yet to compile be.                                                  *)
FrameOK(f) ==
  /\ f.pkg \notin compiled /\ f.todo \subseteq known \ compiled
  /\ f.doing # "files" /\ f.pkg \in Cached => f.pkg \in known
  /\ f.doing = "files" => f.pkg \in Cached \cup {Root}
  /\ f.doing # "collect" => Imports(f.pkg) \subseteq known
  /\ IF f.doing = "files" THEN f.next # 0 ELSE f.next = 1

CallsOK ==
  /\ phase \notin {"lib", "packages"} => stack = <<>>
  /\ \A i \in DOMAIN stack :
       /\ FrameOK(stack[i])
       /\ i # 1 => stack[i].pkg \in known
       /\ i # Len(stack) => stack[i].doing = "deps"

(* BuildLib will not meet a package that was taken from the cache: what it *)
(* finds there was put there by itself, for a package compiled earlier.    *)
LibOK ==
  phase = "lib" =>
    /\ \A p \in lib : p \notin compiled /\ (p \in Cached => p \in known)
    /\ stack # <<>> => stack[1].pkg \notin lib

CompiledOK ==
  /\ compiled \subseteq Cached
  /\ phase = "removing" => compiled = {}

BInv == TypeOK /\ FilesOK /\ CallsOK /\ LibOK /\ CompiledOK
-----------------------------------------------------------------------------
(* Directories and their imports.                                          *)

LEMMA ImportsInPkgs ==
  ASSUME FilesOK, NEW n \in Nodes
  PROVE  /\ Imports(n) \subseteq Pkgs
         /\ DOMAIN files[n] = 1 .. Len(files[n]) /\ Len(files[n]) \in Nat
         /\ \A i \in DOMAIN files[n] :
              files[n][i] \in File /\ files[n][i].imports \subseteq Imports(n)
<1>1. files[n] \in Seq(File)
  BY DEF FilesOK
<1>2. DOMAIN files[n] = 1 .. Len(files[n]) /\ Len(files[n]) \in Nat
  BY <1>1, LenProperties
<1>3. \A i \in DOMAIN files[n] : files[n][i] \in File
  BY <1>1, <1>2, ElementOfSeq
<1> QED
  BY <1>2, <1>3 DEF Imports, File

(* The entries that are read come before the others.                       *)
LEMMA ReadFacts ==
  ASSUME FilesOK, NEW n \in Nodes
  PROVE  /\ Read(n) \subseteq DOMAIN files[n]
         /\ UNION {files[n][i].imports : i \in Read(n)} \subseteq Imports(n)
         /\ Read(n) # {} => Cardinality(Read(n)) \in Read(n)
         /\ Read(n) = DOMAIN files[n] =>
              UNION {files[n][i].imports : i \in Read(n)} = Imports(n)
<1> DEFINE S == Read(n)
           L == Len(files[n])
<1>1. L \in Nat /\ DOMAIN files[n] = 1 .. L /\ S \subseteq 1 .. L
  BY ImportsInPkgs DEF Read
<1>2. \A i \in S : \A j \in 1 .. i : j \in S
  <2> SUFFICES ASSUME NEW i \in S, NEW j \in 1 .. i PROVE j \in S
    OBVIOUS
  <2>1. j \in 1 .. L /\ \A k \in 1 .. j : k \in 1 .. i
    BY <1>1
  <2> QED
    BY <1>1, <2>1 DEF Read
<1>3. S # {} => Cardinality(S) \in S
  <2> HIDE DEF S, L
  <2> SUFFICES ASSUME S # {}, Cardinality(S) \notin S PROVE FALSE
    OBVIOUS
  <2> DEFINE k == Cardinality(S)
  <2>1. IsFiniteSet(S) /\ k \in Nat
    <3>1. IsFiniteSet(1 .. L)
      BY <1>1, FS_Interval
    <3>2. IsFiniteSet(S)
      BY <1>1, <3>1, FS_Subset
    <3> QED
      BY <3>2, FS_CardinalityType
  <2>2. k # 0
    BY <2>1, FS_EmptySet
  <2> HIDE DEF k
  <2>3. \A i \in S : i \in 1 .. (k - 1)
    <3> SUFFICES ASSUME NEW i \in S PROVE i \in 1 .. (k - 1)
      OBVIOUS
    <3>1. i \in Nat /\ i # 0
      BY <1>1
    <3>2. ~(k <= i)
      BY <1>2, <2>1, <2>2, <3>1 DEF k
    <3> QED
      BY <2>1, <3>1, <3>2
  <2>4. S \subseteq 1 .. (k - 1) /\ IsFiniteSet(1 .. (k - 1)) /\ k - 1 \in Nat
    BY <2>1, <2>2, <2>3, FS_Interval
  <2>5. Cardinality(1 .. (k - 1)) = k - 1
    <3> DEFINE m == k - 1
    <3>1. m \in Nat
      BY <2>4
    <3> HIDE DEF m
    <3>2. Cardinality(1 .. m) = m
      BY <3>1, FS_Interval
    <3> QED
      BY <3>2 DEF m
  <2>6. k <= k - 1
    BY <2>4, <2>5, FS_Subset DEF k
  <2> QED
    BY <2>1, <2>6
<1> QED
  BY <1>1, <1>3 DEF Imports

(* The recursive definition of a chain of imports has a value, and enough  *)
(* steps are taken: it is the least set that holds S and, with a package,  *)
(* those it imports.                                                       *)
LEMMA ChainCloses ==
  ASSUME FilesOK, NEW S, S \subseteq Pkgs
  PROVE  /\ S \subseteq Chain(S) /\ Chain(S) \subseteq Pkgs
         /\ \A p \in Chain(S) : Imports(p) \subseteq Chain(S)
         /\ \A X : S \subseteq X /\ (\A p \in X \cap Pkgs : Imports(p) \subseteq X)
                   => Chain(S) \subseteq X
<1> DEFINE edge == [p \in Pkgs |-> Imports(p)]
           N == Cardinality(Pkgs)
           Eq(R) == R = [n \in Nat |-> IF n = 0 THEN S
                           ELSE R[n - 1] \cup UNION {Imports(p) : p \in R[n - 1]}]
<1>1. \A p \in Pkgs : edge[p] = Imports(p) /\ edge[p] \subseteq Pkgs
  BY ImportsInPkgs DEF Nodes
<1>2. \A A : A \subseteq Pkgs => Widen(edge, A) = A \cup UNION {Imports(p) : p \in A}
  BY DEF Widen
<1> HIDE DEF edge
<1>3. \E R : Eq(R)
  <2>1. PICK R : WidensTo(R, edge, S)
    BY <1>1, WidenExists
  <2>2. \A n \in Nat : R[n] \subseteq Pkgs
    BY <1>1, <2>1, WidenedStays
  <2>3. \A n \in Nat : n # 0 => n - 1 \in Nat
    OBVIOUS
  <2>4. R = [n \in Nat |-> IF n = 0 THEN S ELSE Widen(edge, R[n - 1])]
    BY <2>1 DEF WidensTo
  <2>5. \A n \in Nat : n # 0 =>
          Widen(edge, R[n - 1]) = R[n - 1] \cup UNION {Imports(p) : p \in R[n - 1]}
    BY <1>2, <2>2, <2>3
  <2>6. Eq(R)
    BY <2>4, <2>5
  <2> QED
    BY <2>6
<1> DEFINE R == CHOOSE R : Eq(R)
<1>4. Eq(R)
  BY <1>3
<1>5. Chain(S) = R[N]
  BY DEF Chain
<1> HIDE DEF R
<1>6. \A n \in Nat : R[n] \subseteq Pkgs
  <2> DEFINE T == {n \in Nat : R[n] \subseteq Pkgs}
  <2>1. 0 \in T
    BY <1>4
  <2>2. ASSUME NEW n \in Nat, n \in T PROVE n + 1 \in T
    <3>1. n + 1 \in Nat /\ n + 1 # 0 /\ (n + 1) - 1 = n
      OBVIOUS
    <3>2. R[n + 1] = R[n] \cup UNION {Imports(p) : p \in R[n]}
      BY <1>4, <3>1
    <3> QED
      BY <1>1, <2>2, <3>1, <3>2
  <2>3. Nat \subseteq T
    <3> HIDE DEF T
    <3> QED
      BY <2>1, <2>2, NatSetInduction
  <2> QED
    BY <2>3
<1>7. WidensTo(R, edge, S)
  <2>1. \A n \in Nat : n # 0 => n - 1 \in Nat
    OBVIOUS
  <2>2. \A n \in Nat : n # 0 =>
          Widen(edge, R[n - 1]) = R[n - 1] \cup UNION {Imports(p) : p \in R[n - 1]}
    BY <1>2, <1>6, <2>1
  <2>3. R = [n \in Nat |-> IF n = 0 THEN S ELSE Widen(edge, R[n - 1])]
    BY <1>4, <2>2
  <2> QED
    BY <2>3 DEF WidensTo
<1>8. N \in Nat /\ Cardinality(S) \in Nat /\ IsFiniteSet(Pkgs)
  BY BuildAssumption, FS_CardinalityType, FS_Subset
<1>9. Cardinality(Pkgs) <= N + Cardinality(S)
  BY <1>8
<1> HIDE DEF N, Eq
<1>10. /\ S \subseteq R[N] /\ R[N] \subseteq Pkgs
       /\ \A u \in R[N] : edge[u] \subseteq R[N]
       /\ \A X : S \subseteq X /\ (\A u \in X : edge[u] \subseteq X) => R[N] \subseteq X
  <2>1. S \subseteq Pkgs /\ IsFiniteSet(Pkgs) /\ \A u \in Pkgs : edge[u] \subseteq Pkgs
    BY <1>1, <1>8
  <2> QED
    BY ONLY <1>7, <1>8, <1>9, <2>1, WidenCloses
<1>11. ASSUME NEW X, S \subseteq X, \A p \in X \cap Pkgs : Imports(p) \subseteq X
       PROVE  R[N] \subseteq X
  <2>1. S \subseteq X \cap Pkgs
    BY <1>11
  <2>2. \A u \in X \cap Pkgs : edge[u] \subseteq X \cap Pkgs
    BY <1>1, <1>11
  <2>3. R[N] \subseteq X \cap Pkgs
    BY <1>10, <2>1, <2>2
  <2> QED
    BY <2>3
<1> QED
  BY <1>1, <1>5, <1>10, <1>11

-----------------------------------------------------------------------------
(* The stack of calls.                                                     *)

LEMMA StackFacts ==
  ASSUME stack \in Seq(Frame)
  PROVE  /\ Len(stack) \in Nat /\ DOMAIN stack = 1 .. Len(stack)
         /\ \A i \in DOMAIN stack : stack[i] \in Frame
         /\ stack # <<>> =>
              /\ Len(stack) # 0 /\ Len(stack) \in DOMAIN stack /\ 1 \in DOMAIN stack
              /\ Top \in Frame
         /\ stack = <<>> => Len(stack) = 0 /\ DOMAIN stack = {}
<1>1. Len(stack) \in Nat /\ DOMAIN stack = 1 .. Len(stack)
  BY LenProperties
<1>2. \A i \in DOMAIN stack : stack[i] \in Frame
  BY <1>1, ElementOfSeq
<1>3. stack # <<>> => Len(stack) # 0
  BY <1>1, EmptySeq
<1>4. stack = <<>> => Len(stack) = 0
  BY EmptySeq
<1> QED
  BY <1>1, <1>2, <1>3, <1>4 DEF Top

LEMMA SetTopFacts ==
  ASSUME stack \in Seq(Frame), stack # <<>>, NEW f \in Frame
  PROVE  /\ SetTop(f) \in Seq(Frame) /\ SetTop(f) # <<>>
         /\ Len(SetTop(f)) = Len(stack) /\ DOMAIN SetTop(f) = DOMAIN stack
         /\ \A i \in DOMAIN stack :
              SetTop(f)[i] = IF i = Len(stack) THEN f ELSE stack[i]
<1>1. Len(stack) \in DOMAIN stack /\ Len(stack) # 0
  BY StackFacts
<1>2. SetTop(f) \in Seq(Frame) /\ Len(SetTop(f)) = Len(stack)
  BY <1>1, ExceptSeq DEF SetTop
<1>3. DOMAIN SetTop(f) = DOMAIN stack
  BY DEF SetTop
<1>4. SetTop(f) # <<>>
  BY <1>1, <1>2, EmptySeq
<1>5. \A i \in DOMAIN stack : SetTop(f)[i] = IF i = Len(stack) THEN f ELSE stack[i]
  BY DEF SetTop
<1> QED
  BY <1>2, <1>3, <1>4, <1>5

LEMMA PushFacts ==
  ASSUME stack \in Seq(Frame), stack # <<>>, NEW f \in Frame, NEW g \in Frame,
         stack' = Append(SetTop(f), g)
  PROVE  /\ stack' \in Seq(Frame) /\ stack' # <<>> /\ Len(stack') = Len(stack) + 1
         /\ DOMAIN stack' = 1 .. (Len(stack) + 1)
         /\ \A i \in DOMAIN stack : stack'[i] = IF i = Len(stack) THEN f ELSE stack[i]
         /\ stack'[Len(stack) + 1] = g
<1>0. PICK s : s = stack'
  OBVIOUS
<1> DEFINE t == SetTop(f)
<1>1. /\ t \in Seq(Frame) /\ Len(t) = Len(stack) /\ DOMAIN t = DOMAIN stack
      /\ \A i \in DOMAIN stack : t[i] = IF i = Len(stack) THEN f ELSE stack[i]
  BY SetTopFacts
<1>2. Len(stack) \in Nat /\ DOMAIN stack = 1 .. Len(stack)
  BY StackFacts
<1>3. s = Append(t, g)
  BY <1>0
<1> HIDE DEF t
<1>4. /\ s \in Seq(Frame) /\ Len(s) = Len(t) + 1 /\ s[Len(t) + 1] = g
      /\ \A i \in 1 .. Len(t) : s[i] = t[i]
  BY <1>1, <1>3, AppendProperties
<1>5. s # <<>>
  BY <1>1, <1>2, <1>4, EmptySeq
<1>6. DOMAIN s = 1 .. Len(s)
  BY <1>4, LenProperties
<1> QED
  BY <1>0, <1>1, <1>2, <1>4, <1>5, <1>6

LEMMA PopFacts ==
  ASSUME stack \in Seq(Frame), stack # <<>>
  PROVE  /\ Pop \in Seq(Frame) /\ Len(Pop) = Len(stack) - 1
         /\ DOMAIN Pop = 1 .. (Len(stack) - 1)
         /\ \A i \in DOMAIN Pop : i \in DOMAIN stack /\ i < Len(stack) /\ Pop[i] = stack[i]
         /\ Len(stack) = 1 => Pop = <<>>
         /\ Len(stack) # 1 => Pop # <<>>
<1> DEFINE m == Len(stack) - 1
<1>1. /\ Len(stack) \in Nat /\ Len(stack) # 0 /\ DOMAIN stack = 1 .. Len(stack)
      /\ \A i \in DOMAIN stack : stack[i] \in Frame
  BY StackFacts
<1>2. m \in Nat /\ 1 \in Int /\ m \in Int
  BY <1>1
<1>3. \A i \in 1 .. m : i \in DOMAIN stack /\ i < Len(stack)
  BY <1>1
<1>4. Pop = SubSeq(stack, 1, m)
  BY DEF Pop
<1> HIDE DEF m
<1>5. Pop \in Seq(Frame) /\ Len(Pop) = m /\ \A i \in 1 .. m : Pop[i] = stack[i]
  <2>1. /\ SubSeq(stack, 1, m) \in Seq(Frame)
        /\ Len(SubSeq(stack, 1, m)) = IF 1 <= m THEN m - 1 + 1 ELSE 0
        /\ \A i \in 1 .. (m - 1 + 1) : SubSeq(stack, 1, m)[i] = stack[1 + i - 1]
    BY <1>1, <1>2, <1>3, SubSeqProperties
  <2>2. m - 1 + 1 = m /\ (m < 1 => m = 0) /\ \A i \in 1 .. m : 1 + i - 1 = i
    BY <1>2
  <2> QED
    BY <1>2, <1>4, <2>1, <2>2
<1>6. DOMAIN Pop = 1 .. m
  BY <1>5, LenProperties
<1>7. Pop = <<>> <=> m = 0
  BY <1>5, EmptySeq
<1> QED
  BY <1>1, <1>3, <1>5, <1>6, <1>7 DEF m

LEMMA CallFacts ==
  ASSUME NEW n \in Nodes
  PROVE  /\ Call(n) \in Frame /\ <<Call(n)>> \in Seq(Frame)
         /\ Len(<<Call(n)>>) = 1 /\ DOMAIN <<Call(n)>> = {1} /\ <<Call(n)>>[1] = Call(n)
         /\ <<Call(n)>> # <<>>
         /\ Call(n).pkg = n /\ Call(n).doing = "collect" /\ Call(n).todo = {}
         /\ Call(n).next = 1
<1>1. Call(n) \in Frame
  BY DEF Call, Frame
<1>2. <<Call(n)>> # <<>>
  <2>1. <<Call(n)>> \in Seq(Frame) /\ Len(<<Call(n)>>) = 1
    BY <1>1
  <2>2. Len(<<>>) = 0
    BY EmptySeq
  <2> QED
    BY <2>1, <2>2
<1> QED
  BY <1>1, <1>2 DEF Call

-----------------------------------------------------------------------------
(* The invariant of the cache that is used, step by step.  The calls below *)
(* the top one wait for it; a step of ProcessPackage finds new packages    *)
(* and makes at most its own package's directory.                          *)

StepFacts ==
  /\ files' = files
  /\ known \subseteq known' /\ compiled \subseteq compiled'
  /\ compiled' \subseteq compiled \cup (Cached \ known)
  /\ Cached \subseteq Cached' /\ Cached' \subseteq Cached \cup {Top.pkg}

LEMMA SameDirectories ==
  ASSUME files' = files
  PROVE  /\ \A n : Imports(n)' = Imports(n)
         /\ \A S : Chain(S)' = Chain(S)
         /\ \A n : OneFile(n)' = OneFile(n)
         /\ \A S : Tidy(S)' = Tidy(S)
         /\ FilesOK => FilesOK'
<1>1. \A n : Imports(n)' = Imports(n)
  BY DEF Imports
<1>2. \A S : Chain(S)' = Chain(S)
  BY DEF Chain, Imports
<1>3. \A n : OneFile(n)' = OneFile(n)
  BY DEF OneFile
<1>4. \A S : Tidy(S)' = Tidy(S)
  BY DEF Tidy, OneFile
<1>5. FilesOK => FilesOK'
  BY DEF FilesOK
<1> QED
  BY <1>1, <1>2, <1>3, <1>4, <1>5

LEMMA TopKnown ==
  ASSUME BInv, stack # <<>>, Len(stack) # 1
  PROVE  Top.pkg \in known
<1>1. stack \in Seq(Frame)
  BY DEF BInv, TypeOK
<1>2. Len(stack) \in DOMAIN stack
  BY <1>1, StackFacts
<1> QED
  BY <1>2 DEF BInv, CallsOK, Top

LEMMA WaitingCalls ==
  ASSUME BInv, StepFacts, NEW i \in DOMAIN stack, i # Len(stack), stack'[i] = stack[i]
  PROVE  /\ FrameOK(stack[i])'
         /\ i # 1 => stack'[i].pkg \in known'
         /\ stack'[i].doing = "deps"
<1>1. stack \in Seq(Frame)
  BY DEF BInv, TypeOK
<1>2. stack[i].doing = "deps" /\ FrameOK(stack[i]) /\ (i # 1 => stack[i].pkg \in known)
  BY DEF BInv, CallsOK
<1>3. Len(stack) # 1 /\ stack # <<>>
  BY <1>1, StackFacts
<1>4. Top.pkg \in known
  BY <1>3, TopKnown
<1>5. stack[i].pkg \notin compiled'
  BY <1>2 DEF FrameOK, StepFacts
<1>6. stack[i].todo \subseteq known' \ compiled'
  BY <1>2 DEF FrameOK, StepFacts
<1>7. stack[i].pkg \in Cached' => stack[i].pkg \in known'
  BY <1>2, <1>4 DEF FrameOK, StepFacts
<1>8. Imports(stack[i].pkg)' \subseteq known'
  <2>1. Imports(stack[i].pkg) \subseteq known'
    BY <1>2 DEF FrameOK, StepFacts
  <2>2. \A n : Imports(n)' = Imports(n)
    BY SameDirectories DEF StepFacts
  <2> QED
    BY <2>1, <2>2 DEF Imports, StepFacts
<1> QED
  BY <1>2, <1>5, <1>6, <1>7, <1>8 DEF FrameOK, StepFacts

LEMMA LibraryWaits ==
  ASSUME BInv, StepFacts, stack # <<>>, phase' = phase, lib' = lib,
         stack' # <<>> => stack'[1].pkg = stack[1].pkg
  PROVE  LibOK'
<1>1. stack \in Seq(Frame)
  BY DEF BInv, TypeOK
<1>2. Len(stack) = 1 => Top = stack[1]
  BY DEF Top
<1>3. Len(stack) # 1 => Top.pkg \in known
  BY TopKnown
<1>4. ASSUME phase = "lib", NEW p \in lib
      PROVE  p \notin compiled' /\ (p \in Cached' => p \in known')
  <2>1. p \notin compiled /\ (p \in Cached => p \in known) /\ stack[1].pkg # p
    BY <1>4 DEF BInv, LibOK
  <2> QED
    BY <1>2, <1>3, <2>1 DEF StepFacts
<1> QED
  BY <1>4 DEF BInv, LibOK

LEMMA EndOfCalls ==
  ASSUME BInv, files' = files, stack' = <<>>, lib' = {}, phase' \in {"idle", "imports"},
         compiled' \subseteq Cached'
  PROVE  FilesOK' /\ CallsOK' /\ LibOK' /\ CompiledOK'
<1>1. FilesOK'
  BY SameDirectories DEF BInv
<1>2. CallsOK'
  <2>1. <<>> \in Seq(Frame)
    BY EmptySeq
  <2>2. DOMAIN stack' = {}
    BY <2>1, EmptySeq, LenProperties
  <2> QED
    BY <2>2 DEF CallsOK
<1> QED
  BY <1>1, <1>2 DEF LibOK, CompiledOK

(* The calls are in order again when the top one is.                       *)
LEMMA TopChanged ==
  ASSUME BInv, StepFacts, stack # <<>>, NEW f \in Frame, stack' = SetTop(f),
         f.pkg = Top.pkg, FrameOK(f)', phase' = phase, lib' = lib,
         compiled' \subseteq Cached'
  PROVE  FilesOK' /\ CallsOK' /\ LibOK' /\ CompiledOK' /\ stack' \in Seq(Frame)
<1>1. stack \in Seq(Frame)
  BY DEF BInv, TypeOK
<1>2. /\ stack' \in Seq(Frame) /\ stack' # <<>> /\ Len(stack') = Len(stack)
      /\ DOMAIN stack' = DOMAIN stack
      /\ \A i \in DOMAIN stack : stack'[i] = IF i = Len(stack) THEN f ELSE stack[i]
  BY <1>1, SetTopFacts
<1>3. /\ Len(stack) \in Nat /\ Len(stack) # 0 /\ DOMAIN stack = 1 .. Len(stack)
      /\ Len(stack) \in DOMAIN stack /\ 1 \in DOMAIN stack
  BY <1>1, StackFacts
<1>4. phase \in {"lib", "packages"}
  BY DEF BInv, CallsOK
<1>5. ASSUME NEW i \in DOMAIN stack'
      PROVE  /\ FrameOK(stack[i])'
             /\ i # 1 => stack'[i].pkg \in known'
             /\ i # Len(stack') => stack'[i].doing = "deps"
  <2>1. CASE i # Len(stack)
    <3>1. stack'[i] = stack[i] /\ i \in DOMAIN stack
      BY <1>2, <2>1
    <3>2. FrameOK(stack[i])' /\ (i # 1 => stack'[i].pkg \in known') /\ stack'[i].doing = "deps"
      BY <2>1, <3>1, WaitingCalls
    <3> QED
      BY <3>1, <3>2 DEF FrameOK
  <2>2. CASE i = Len(stack)
    <3>1. stack'[i] = f
      BY <1>2, <1>3, <2>2
    <3>2. i # 1 => Top.pkg \in known'
      BY <2>2, TopKnown DEF StepFacts
    <3>3. FrameOK(stack[i])'
      BY <3>1 DEF FrameOK
    <3> QED
      BY <1>2, <2>2, <3>1, <3>2, <3>3
  <2> QED
    BY <2>1, <2>2
<1>6. CallsOK'
  BY <1>4, <1>5 DEF CallsOK
<1>7. stack'[1].pkg = stack[1].pkg
  BY <1>2, <1>3 DEF Top
<1>8. LibOK'
  BY <1>7, LibraryWaits
<1>9. FilesOK'
  BY SameDirectories DEF BInv, StepFacts
<1> QED
  BY <1>2, <1>4, <1>6, <1>8, <1>9 DEF CompiledOK

LEMMA CollectStep ==
  ASSUME BInv, Collect
  PROVE  BInv' /\ StepFacts
<1> DEFINE n == Top.pkg
           all == UNION {files[n][i].imports : i \in Read(n)}
           new == all \ known
           f == [Top EXCEPT !.doing = "deps", !.todo = Uncompiled]
<1>1. TypeOK /\ FilesOK /\ stack \in Seq(Frame) /\ stack # <<>>
  BY DEF BInv, TypeOK, Collect
<1>2. /\ Top \in Frame /\ n \in Nodes /\ Top.doing = "collect" /\ Top.next = 1
      /\ n \notin compiled /\ (n \in Cached => n \in known)
  BY <1>1, StackFacts DEF BInv, CallsOK, FrameOK, Frame, Collect, Top
<1>3. /\ all \subseteq Imports(n) /\ Imports(n) \subseteq Pkgs
      /\ Read(n) # {} => files[n][Cardinality(Read(n))].imports \subseteq all
      /\ Read(n) = DOMAIN files[n] => all = Imports(n)
  BY <1>1, <1>2, ReadFacts, ImportsInPkgs
<1>4. /\ known' = known \cup all /\ compiled' = compiled \cup (new \cap Cached)
      /\ used' = UsedByLast(n) /\ UNCHANGED <<files, short, broken, asm, pkg, clean, sound, runs>>
  <2>1. known' = known \cup new /\ compiled' = IsCompiled(new)
    BY DEF Collect
  <2>2. used' = UsedByLast(n) /\ UNCHANGED <<project, cache, run>>
    BY DEF Collect
  <2> QED
    BY <2>1, <2>2 DEF IsCompiled, project, cache, run
<1>5. used' \subseteq known' /\ known' \subseteq Pkgs /\ compiled' \subseteq known'
  BY <1>1, <1>3, <1>4 DEF TypeOK, UsedByLast
<1>6. Cached' = Cached
  BY <1>4 DEF Cached
<1>7. StepFacts
  BY <1>4, <1>6 DEF StepFacts
<1>8. compiled' \subseteq Cached'
  BY <1>4, <1>6 DEF BInv, CompiledOK
<1> HIDE DEF new, all, f
<1>9. CASE Read(n) # DOMAIN files[n]
  <2>1. stack' = <<>> /\ lib' = {} /\ phase' \in {"idle", "imports"}
        /\ (phase' = "idle" => status' = "error") /\ (phase' # "idle" => status' = status /\ phase = "lib")
    BY <1>9 DEF Collect, Fail, End
  <2>2. TypeOK'
    <3>1. <<>> \in Seq(Frame) /\ Len(<<>>) = 0
      BY EmptySeq
    <3> QED
      BY <1>1, <1>4, <1>5, <1>6, <2>1, <3>1, BuildAssumption
         DEF TypeOK, Phases, Statuses
  <2>3. FilesOK' /\ CallsOK' /\ LibOK' /\ CompiledOK'
    BY <1>4, <1>8, <2>1, EndOfCalls
  <2> QED
    BY <1>7, <2>2, <2>3 DEF BInv
<1>10. CASE Read(n) = DOMAIN files[n]
  <2>1. stack' = SetTop(f) /\ UNCHANGED <<lib, phase, status>>
    BY <1>10 DEF Collect, f
  <2>2. Uncompiled \subseteq known' \ compiled'
    BY DEF Uncompiled
  <2>3. PICK g : g = f
    OBVIOUS
  <2>4. /\ g \in Frame /\ g.pkg = n /\ g.doing = "deps" /\ g.todo = Uncompiled
        /\ g.next = 1 /\ stack' = SetTop(g)
    BY <1>2, <1>5, <2>1, <2>2, <2>3 DEF f, Frame
  <2>5. FrameOK(g)'
    <3>1. g.pkg \notin compiled' /\ g.todo \subseteq known' \ compiled'
      BY <1>2, <1>4, <2>2, <2>4 DEF new
    <3>2. g.pkg \in Cached' => g.pkg \in known'
      BY <1>2, <1>4, <1>6, <2>4
    <3>3. Imports(g.pkg) \subseteq known'
      BY <1>3, <1>4, <1>10, <2>4
    <3>4. \A m : Imports(m)' = Imports(m)
      BY <1>4, SameDirectories
    <3> QED
      BY <2>4, <3>1, <3>2, <3>3, <3>4 DEF FrameOK
  <2>6. FilesOK' /\ CallsOK' /\ LibOK' /\ CompiledOK' /\ stack' \in Seq(Frame)
    BY <1>1, <1>7, <1>8, <2>1, <2>4, <2>5, TopChanged
  <2>7. Len(stack') = Len(stack)
    BY <1>1, <2>4, SetTopFacts
  <2>8. TypeOK'
    BY <1>1, <1>4, <1>5, <1>6, <2>1, <2>6, <2>7 DEF TypeOK
  <2> QED
    BY <1>7, <2>6, <2>8 DEF BInv
<1> QED
  BY <1>9, <1>10

(* What the call on top is about, when there is one.                       *)
LEMMA TopFacts ==
  ASSUME BInv, stack # <<>>
  PROVE  /\ TypeOK /\ FilesOK /\ stack \in Seq(Frame)
         /\ Len(stack) \in Nat /\ Len(stack) # 0 /\ DOMAIN stack = 1 .. Len(stack)
         /\ Len(stack) \in DOMAIN stack /\ 1 \in DOMAIN stack
         /\ Top \in Frame /\ Top.pkg \in Nodes /\ Top = stack[Len(stack)] /\ FrameOK(Top)
         /\ phase \in {"lib", "packages"} /\ status = "running"
<1>1. TypeOK /\ FilesOK /\ stack \in Seq(Frame)
  BY DEF BInv, TypeOK
<1>2. /\ Len(stack) \in Nat /\ Len(stack) # 0 /\ DOMAIN stack = 1 .. Len(stack)
      /\ Len(stack) \in DOMAIN stack /\ 1 \in DOMAIN stack
      /\ Top \in Frame /\ Top = stack[Len(stack)]
  BY <1>1, StackFacts DEF Top
<1>3. FrameOK(stack[Len(stack)])
  BY <1>2 DEF BInv, CallsOK
<1>4. FrameOK(Top)
  BY <1>2, <1>3 DEF FrameOK
<1>5. phase \in {"lib", "packages"}
  BY DEF BInv, CallsOK
<1>6. status = "running"
  BY <1>1, <1>5 DEF TypeOK
<1> QED
  BY <1>1, <1>2, <1>4, <1>5, <1>6 DEF Frame

LEMMA Finishing ==
  ASSUME BInv, NEW s,
         s \in {"error", "panic", "overflow", "killed", "ok", "rejected"},
         End(s) \/ (stack # <<>> /\ Fail),
         UNCHANGED <<project, cache, packages, run>>
  PROVE  BInv'
<1>1. UNCHANGED <<files, short, broken, asm, pkg, known, compiled, used, clean, sound, runs>>
  BY DEF project, cache, packages, run
<1>2. /\ stack' = <<>> /\ lib' = {}
      /\ phase' \in {"idle", "imports"} /\ status' \in Statuses
      /\ phase' # "idle" <=> status' = "running"
  <2>1. CASE End(s)
    BY <2>1 DEF End, Statuses
  <2>2. CASE stack # <<>> /\ Fail
    <3>1. status = "running"
      BY <2>2, TopFacts
    <3> QED
      BY <2>2, <3>1 DEF Fail, End, Statuses
  <2> QED
    BY <2>1, <2>2
<1>3. Cached' = Cached /\ compiled' \subseteq Cached'
  BY <1>1 DEF Cached, BInv, CompiledOK
<1>4. FilesOK' /\ CallsOK' /\ LibOK' /\ CompiledOK'
  BY <1>1, <1>2, <1>3, EndOfCalls
<1>5. TypeOK'
  <2>1. <<>> \in Seq(Frame) /\ Len(<<>>) = 0
    BY EmptySeq
  <2> QED
    BY <1>1, <1>2, <1>3, <2>1, BuildAssumption DEF BInv, TypeOK, Phases
<1> QED
  BY <1>4, <1>5 DEF BInv

LEMMA DescendStep ==
  ASSUME BInv, NEW p \in Pkgs, Descend(p)
  PROVE  BInv'
<1>1. /\ stack # <<>> /\ Top.doing = "deps" /\ p \in Top.todo
      /\ UNCHANGED <<project, cache, packages, run>>
  BY DEF Descend
<1>2. UNCHANGED <<files, short, broken, asm, pkg, known, compiled, used, clean, sound, runs>>
  BY <1>1 DEF project, cache, packages, run
<1>3. CASE Len(stack) = MaxCalls
  <2>1. End("overflow")
    BY <1>3 DEF Descend
  <2> QED
    BY <1>1, <2>1, Finishing
<1>4. CASE Len(stack) # MaxCalls
  <2> DEFINE F == [Top EXCEPT !.todo = @ \ {p}]
  <2>1. PICK f : f = F
    OBVIOUS
  <2>2. PICK g : g = Call(p)
    OBVIOUS
  <2>3. stack' = Append(SetTop(f), g) /\ UNCHANGED <<lib, phase, status>>
    BY <1>4, <2>1, <2>2 DEF Descend
  <2>4. /\ stack \in Seq(Frame) /\ FrameOK(Top) /\ Top \in Frame
        /\ Len(stack) \in Nat /\ DOMAIN stack = 1 .. Len(stack)
        /\ Len(stack) # 0 /\ Len(stack) \in DOMAIN stack /\ 1 \in DOMAIN stack
        /\ Top = stack[Len(stack)] /\ phase \in {"lib", "packages"}
    BY <1>1, TopFacts
  <2>5. /\ f \in Frame /\ f.pkg = Top.pkg /\ f.doing = "deps" /\ f.next = Top.next
        /\ f.todo = Top.todo \ {p}
    BY <1>1, <2>1, <2>4 DEF Frame
  <2>6. /\ g \in Frame /\ g.pkg = p /\ g.doing = "collect" /\ g.todo = {} /\ g.next = 1
    BY <2>2, CallFacts DEF Nodes
  <2>7. /\ stack' \in Seq(Frame) /\ stack' # <<>> /\ Len(stack') = Len(stack) + 1
        /\ DOMAIN stack' = 1 .. (Len(stack) + 1)
        /\ \A i \in DOMAIN stack : stack'[i] = IF i = Len(stack) THEN f ELSE stack[i]
        /\ stack'[Len(stack) + 1] = g
    <3>1. stack \in Seq(Frame) /\ stack # <<>> /\ stack' = Append(SetTop(f), g)
      BY <1>1, <2>3, <2>4
    <3>2. f \in Frame /\ g \in Frame
      BY <2>5, <2>6
    <3> QED
      BY <3>1, <3>2, PushFacts
  <2>8. p \in known /\ p \notin compiled
    BY <1>1, <2>4 DEF FrameOK
  <2>9. Cached' = Cached
    BY <1>2 DEF Cached
  <2>10. StepFacts
    BY <1>2, <2>9 DEF StepFacts
  <2>11. \A m : Imports(m)' = Imports(m)
    BY <1>2, SameDirectories
  <2>12. ASSUME NEW i \in DOMAIN stack'
         PROVE  /\ FrameOK(stack[i])'
                /\ i # 1 => stack'[i].pkg \in known'
                /\ i # Len(stack') => stack'[i].doing = "deps"
    <3>1. CASE i \in DOMAIN stack /\ i # Len(stack)
      <4>1. stack'[i] = stack[i]
        BY <2>7, <3>1
      <4> QED
        BY <2>10, <3>1, <4>1, WaitingCalls DEF FrameOK
    <3>2. CASE i = Len(stack)
      <4>1. stack'[i] = f
        BY <2>4, <2>7, <3>2
      <4>2. FrameOK(f)'
        BY <1>1, <1>2, <2>4, <2>5, <2>9, <2>11 DEF FrameOK
      <4>3. i # 1 => Top.pkg \in known
        BY <1>1, <3>2, TopKnown
      <4>4. FrameOK(stack[i])'
        BY <4>1, <4>2 DEF FrameOK
      <4> QED
        BY <1>2, <2>5, <4>1, <4>3, <4>4
    <3>3. CASE i = Len(stack) + 1
      <4>1. stack'[i] = g
        BY <2>7, <3>3
      <4>2. FrameOK(g)'
        BY <1>2, <2>6, <2>8 DEF FrameOK
      <4>3. FrameOK(stack[i])'
        BY <4>1, <4>2 DEF FrameOK
      <4> QED
        BY <1>2, <2>6, <2>7, <2>8, <3>3, <4>1, <4>3
    <3> QED
      BY <2>4, <2>7, <3>1, <3>2, <3>3
  <2>13. CallsOK'
    BY <2>3, <2>4, <2>12 DEF CallsOK
  <2>14. stack'[1].pkg = stack[1].pkg
    BY <2>4, <2>5, <2>7
  <2>15. LibOK'
    BY <1>1, <2>3, <2>10, <2>14, LibraryWaits
  <2>16. FilesOK' /\ CompiledOK'
    BY <1>2, <2>3, <2>9, SameDirectories DEF BInv, CompiledOK
  <2>17. TypeOK'
    <3>1. Len(stack') <= MaxCalls
      <4>1. Len(stack) <= MaxCalls /\ MaxCalls \in Nat
        BY BuildAssumption DEF BInv, TypeOK
      <4>2. Len(stack') = Len(stack) + 1 /\ Len(stack) \in Nat /\ Len(stack) # MaxCalls
        BY <1>4, <2>4, <2>7
      <4> QED
        BY <4>1, <4>2
    <3> QED
      BY <1>2, <2>3, <2>7, <2>9, <3>1 DEF BInv, TypeOK
  <2> QED
    BY <2>13, <2>15, <2>16, <2>17 DEF BInv
<1> QED
  BY <1>3, <1>4

LEMMA InitCompileStep ==
  ASSUME BInv, InitCompile
  PROVE  BInv' /\ StepFacts
<1>1. stack # <<>> /\ Top.doing = "deps"
  BY DEF InitCompile
<1>2. UNCHANGED <<files, short, broken, pkg, known, compiled, lib, phase, status,
                  clean, sound, runs>>
      /\ used' = {}
  BY DEF InitCompile, project, run
<1>3. /\ TypeOK /\ stack \in Seq(Frame) /\ Top \in Frame /\ Top.pkg \in Nodes /\ FrameOK(Top)
  BY <1>1, TopFacts
<1>4. /\ asm' \in [Pkgs -> {"none", "part", "full"}]
      /\ Cached' = Cached \cup ({Top.pkg} \ {Root})
  BY <1>3, BuildAssumption DEF InitCompile, TypeOK, Cached, Nodes
<1>5. StepFacts /\ compiled' \subseteq Cached'
  BY <1>2, <1>4 DEF StepFacts, BInv, CompiledOK
<1>6. PICK f : f = [Top EXCEPT !.doing = "files"]
  OBVIOUS
<1>7. /\ f \in Frame /\ f.pkg = Top.pkg /\ f.doing = "files" /\ f.todo = Top.todo
      /\ f.next = Top.next /\ stack' = SetTop(f)
  BY <1>3, <1>6 DEF Frame, InitCompile
<1>8. FrameOK(f)'
  <2>1. \A m : Imports(m)' = Imports(m)
    BY <1>2, SameDirectories
  <2>2. f.pkg \in Cached' \cup {Root}
    BY <1>4, <1>7
  <2> QED
    BY <1>1, <1>2, <1>3, <1>7, <2>1, <2>2 DEF FrameOK
<1>9. FilesOK' /\ CallsOK' /\ LibOK' /\ CompiledOK' /\ stack' \in Seq(Frame)
  BY <1>1, <1>2, <1>5, <1>7, <1>8, TopChanged
<1>10. Len(stack') = Len(stack)
  BY <1>1, <1>3, <1>7, SetTopFacts
<1>11. TypeOK'
  BY <1>2, <1>3, <1>4, <1>9, <1>10 DEF TypeOK
<1> QED
  BY <1>5, <1>9, <1>11 DEF BInv

(* The package of a call that compiles its files has its directory.        *)
LEMMA FinishedFacts ==
  ASSUME BInv, stack # <<>>, Top.doing = "files"
  PROVE  /\ Finished(Top.pkg) \in [Pkgs -> {"none", "part", "full"}]
         /\ \A a : asm' = a /\ a \in {asm, Finished(Top.pkg)} => Cached' = Cached
         /\ Top.pkg # Root => Top.pkg \in Cached /\ Finished(Top.pkg)[Top.pkg] = "full"
         /\ \A p \in Pkgs : p # Top.pkg => Finished(Top.pkg)[p] = asm[p]
<1>1. Top.pkg \in Cached \cup {Root} /\ asm \in [Pkgs -> {"none", "part", "full"}]
  BY TopFacts DEF FrameOK, TypeOK
<1>2. Finished(Top.pkg) \in [Pkgs -> {"none", "part", "full"}]
  BY <1>1 DEF Finished, Cached
<1>3. Top.pkg # Root => Top.pkg \in Cached /\ Finished(Top.pkg)[Top.pkg] = "full"
  BY <1>1 DEF Finished, Cached
<1>4. \A p \in Pkgs : p # Top.pkg => Finished(Top.pkg)[p] = asm[p]
  BY <1>1 DEF Finished
<1>5. \A p \in Pkgs : Finished(Top.pkg)[p] # "none" <=> asm[p] # "none"
  BY <1>1, <1>3, <1>4 DEF Finished, Cached
<1>6. ASSUME NEW a, asm' = a, a \in {asm, Finished(Top.pkg)}
      PROVE  Cached' = Cached
  <2>1. \A p \in Pkgs : a[p] # "none" <=> asm[p] # "none"
    BY <1>5, <1>6
  <2> QED
    BY <1>6, <2>1 DEF Cached
<1> QED
  BY <1>2, <1>3, <1>4, <1>6

(* An entry is behind the call, or the run is over.                        *)
LEMMA CompileEntryCases ==
  ASSUME BInv, CompileEntry
  PROVE  /\ stack # <<>> /\ Top.doing = "files" /\ Top.next \in DOMAIN files[Top.pkg]
         /\ Entry \in File /\ Entry.imports \subseteq Imports(Top.pkg)
         /\ UNCHANGED <<project, pkg, known, compiled, run>>
         /\ \/ /\ (Fail /\ (~(Entry.imports \subseteq pkg) \/ Top.pkg \in broken))
                  \/ (End("panic") /\ EarlierFile)
               /\ UNCHANGED <<asm, used>>
            \/ /\ asm' \in {asm, Finished(Top.pkg)} /\ Entry.imports \subseteq pkg
               /\ used' \in {used, Entry.imports}
               /\ UNCHANGED <<lib, phase, status>>
               /\ stack' = SetTop([Top EXCEPT !.next = @ + 1])
<1>1. stack # <<>> /\ Top.doing = "files" /\ Top.next <= Len(files[Top.pkg])
      /\ UNCHANGED <<project, pkg, known, compiled, run>>
  BY DEF CompileEntry
<1>2. /\ FilesOK /\ Top \in Frame /\ Top.pkg \in Nodes /\ FrameOK(Top)
  BY <1>1, TopFacts
<1>3. Top.next \in DOMAIN files[Top.pkg]
  <2>1. Top.next \in Nat /\ Top.next # 0
    BY <1>1, <1>2 DEF Frame, FrameOK
  <2> QED
    BY <1>1, <1>2, <2>1, ImportsInPkgs
<1>4. /\ Entry \in File /\ Entry.imports \subseteq Imports(Top.pkg)
      /\ Entry.kind # "jkv" => Entry.imports = {}
  BY <1>2, <1>3, ImportsInPkgs DEF Entry, FilesOK
<1>5. CASE Entry.kind # "jkv"
  BY <1>1, <1>3, <1>4, <1>5 DEF CompileEntry
<1>6. CASE Entry.kind = "jkv"
  <2>1. CASE ~(Entry.imports \subseteq pkg)
    BY <1>1, <1>3, <1>4, <1>6, <2>1 DEF CompileEntry
  <2>2. CASE (Entry.imports \subseteq pkg) /\ EarlierFile
    BY <1>1, <1>3, <1>4, <1>6, <2>2 DEF CompileEntry
  <2>3. CASE (Entry.imports \subseteq pkg) /\ ~EarlierFile /\ Top.pkg \in broken
    BY <1>1, <1>3, <1>4, <1>6, <2>3 DEF CompileEntry
  <2>4. CASE (Entry.imports \subseteq pkg) /\ ~EarlierFile /\ Top.pkg \notin broken
    BY <1>1, <1>3, <1>4, <1>6, <2>4 DEF CompileEntry
  <2> QED
    BY <2>1, <2>2, <2>3, <2>4
<1> QED
  BY <1>5, <1>6

LEMMA CompileEntryStep ==
  ASSUME BInv, CompileEntry
  PROVE  BInv' /\ StepFacts
<1>1. /\ stack # <<>> /\ Top.doing = "files" /\ Entry.imports \subseteq Imports(Top.pkg)
      /\ UNCHANGED <<project, pkg, known, compiled, run>>
  BY CompileEntryCases
<1>2. UNCHANGED <<files, short, broken, pkg, known, compiled, clean, sound, runs>>
  BY <1>1 DEF project, run
<1>3. TypeOK /\ stack \in Seq(Frame) /\ Top \in Frame /\ FrameOK(Top)
  BY <1>1, TopFacts
<1>4. CASE (Fail \/ End("panic")) /\ UNCHANGED <<asm, used>>
  <2>1. UNCHANGED <<project, cache, packages, run>>
    BY <1>1, <1>4 DEF cache, packages
  <2>2. BInv'
    BY <1>1, <1>4, <2>1, Finishing
  <2>3. StepFacts
    BY <1>2, <1>4 DEF StepFacts, Cached
  <2> QED
    BY <2>2, <2>3
<1>5. CASE /\ asm' \in {asm, Finished(Top.pkg)} /\ used' \in {used, Entry.imports}
           /\ UNCHANGED <<lib, phase, status>>
           /\ stack' = SetTop([Top EXCEPT !.next = @ + 1])
  <2>1. asm' \in [Pkgs -> {"none", "part", "full"}] /\ Cached' = Cached
    <3>1. PICK a : a = asm'
      OBVIOUS
    <3>2. a \in [Pkgs -> {"none", "part", "full"}] /\ Cached' = Cached
      BY <1>1, <1>3, <1>5, <3>1, FinishedFacts DEF TypeOK
    <3> QED
      BY <3>1, <3>2
  <2>2. StepFacts /\ compiled' \subseteq Cached'
    BY <1>2, <2>1 DEF StepFacts, BInv, CompiledOK
  <2>3. PICK f : f = [Top EXCEPT !.next = @ + 1]
    OBVIOUS
  <2>4. Top.next \in Nat /\ Top.next # 0 /\ Imports(Top.pkg) \subseteq known
    BY <1>1, <1>3 DEF Frame, FrameOK
  <2>5. /\ f \in Frame /\ f.pkg = Top.pkg /\ f.doing = "files" /\ f.todo = Top.todo
        /\ f.next = Top.next + 1 /\ stack' = SetTop(f)
    BY <1>1, <1>3, <1>5, <2>3, <2>4 DEF Frame
  <2>6. FrameOK(f)'
    <3>1. \A m : Imports(m)' = Imports(m)
      BY <1>2, SameDirectories
    <3>2. f.next # 0
      BY <2>4, <2>5
    <3> QED
      BY <1>1, <1>2, <1>3, <2>1, <2>5, <3>1, <3>2 DEF FrameOK
  <2>7. FilesOK' /\ CallsOK' /\ LibOK' /\ CompiledOK' /\ stack' \in Seq(Frame)
    BY <1>1, <1>5, <2>2, <2>5, <2>6, TopChanged
  <2>8. Len(stack') = Len(stack)
    BY <1>1, <1>3, <2>5, SetTopFacts
  <2>9. used' \subseteq known'
    BY <1>1, <1>2, <1>3, <1>5, <2>4 DEF TypeOK
  <2>10. TypeOK'
    BY <1>2, <1>3, <1>5, <2>1, <2>7, <2>8, <2>9 DEF TypeOK
  <2> QED
    BY <2>2, <2>7, <2>10 DEF BInv
<1> QED
  BY <1>4, <1>5, CompileEntryCases

LEMMA OutputPkgFileStep ==
  ASSUME BInv, OutputPkgFile
  PROVE  BInv' /\ StepFacts
<1>1. /\ stack # <<>> /\ Top.doing = "files"
      /\ asm' = Finished(Top.pkg) /\ pkg' = pkg \cup ({Top.pkg} \ {Root}) /\ stack' = Pop
      /\ phase' = (IF Len(stack) = 1 /\ phase = "packages" THEN "build" ELSE phase)
      /\ UNCHANGED <<lib, status>>
  BY DEF OutputPkgFile
<1>2. UNCHANGED <<files, short, broken, known, compiled, used, clean, sound, runs>>
  BY DEF OutputPkgFile, project, packages, run
<1>3. /\ TypeOK /\ stack \in Seq(Frame) /\ Top \in Frame /\ FrameOK(Top)
      /\ Len(stack) \in Nat /\ Len(stack) # 0 /\ 1 \in DOMAIN stack
      /\ phase \in {"lib", "packages"} /\ status = "running"
  BY <1>1, TopFacts
<1>4. asm' \in [Pkgs -> {"none", "part", "full"}] /\ Cached' = Cached
  <2>1. PICK a : a = asm'
    OBVIOUS
  <2>2. a \in [Pkgs -> {"none", "part", "full"}] /\ Cached' = Cached
    BY <1>1, <2>1, FinishedFacts
  <2> QED
    BY <2>1, <2>2
<1>5. StepFacts /\ compiled' \subseteq Cached'
  BY <1>2, <1>4 DEF StepFacts, BInv, CompiledOK
<1>6. /\ stack' \in Seq(Frame) /\ Len(stack') = Len(stack) - 1
      /\ DOMAIN stack' = 1 .. (Len(stack) - 1)
      /\ \A i \in DOMAIN stack' : i \in DOMAIN stack /\ i < Len(stack) /\ stack'[i] = stack[i]
      /\ Len(stack) = 1 => stack' = <<>>
      /\ Len(stack) # 1 => stack' # <<>>
  <2>1. stack' = Pop
    BY <1>1
  <2> QED
    BY <1>1, <1>3, <2>1, PopFacts
<1>7. ASSUME NEW i \in DOMAIN stack'
      PROVE  /\ FrameOK(stack[i])'
             /\ i # 1 => stack'[i].pkg \in known'
             /\ i # Len(stack') => stack'[i].doing = "deps"
  <2>1. i \in DOMAIN stack /\ i # Len(stack) /\ stack'[i] = stack[i]
    BY <1>3, <1>6
  <2> QED
    BY <1>5, <2>1, WaitingCalls DEF FrameOK
<1>8. CallsOK'
  BY <1>1, <1>3, <1>6, <1>7 DEF CallsOK
<1>9. LibOK'
  <2>1. CASE phase = "lib"
    <3>1. stack' # <<>> => stack'[1].pkg = stack[1].pkg
      BY <1>3, <1>6
    <3>2. phase' = phase
      BY <1>1, <2>1
    <3> QED
      BY <1>1, <1>5, <3>1, <3>2, LibraryWaits
  <2>2. CASE phase # "lib"
    BY <1>1, <1>3, <2>2 DEF LibOK
  <2> QED
    BY <2>1, <2>2
<1>10. FilesOK' /\ CompiledOK'
  BY <1>1, <1>2, <1>3, <1>5, SameDirectories DEF BInv, CompiledOK
<1>11. TypeOK'
  <2>1. pkg' \subseteq Cached'
    BY <1>1, <1>3, <1>4 DEF TypeOK, FrameOK
  <2>2. Len(stack') <= MaxCalls
    <3>1. Len(stack) <= MaxCalls /\ MaxCalls \in Nat
      BY <1>3, BuildAssumption DEF TypeOK
    <3> QED
      BY <1>3, <1>6, <3>1
  <2>3. phase' \in Phases /\ phase' # "idle"
    BY <1>1, <1>3 DEF Phases
  <2> QED
    BY <1>1, <1>2, <1>3, <1>4, <1>6, <2>1, <2>2, <2>3 DEF TypeOK
<1> QED
  BY <1>5, <1>8, <1>9, <1>10, <1>11 DEF BInv

-----------------------------------------------------------------------------
(* main and the import phase.                                              *)

LEMMA InitIsBasic == Init => BInv
<1> SUFFICES ASSUME Init PROVE BInv
  OBVIOUS
<1>1. PICK graph \in Graphs, layout \in Layouts, names \in Shorts :
        InitFor(graph, layout, names)
  BY DEF Init
<1>2. /\ files = [n \in Nodes |-> Directory(layout[n], graph[n])]
      /\ short = names /\ broken = {} /\ asm = [p \in Pkgs |-> "none"] /\ pkg = {}
      /\ known = {} /\ compiled = {} /\ used = {} /\ stack = <<>> /\ lib = {}
      /\ phase = "idle" /\ status = "none" /\ clean = FALSE /\ sound = FALSE /\ runs = 0
  BY <1>1 DEF InitFor
<1>3. graph \in [Nodes -> SUBSET Pkgs] /\ layout \in [Nodes -> Seq(Kinds)]
  BY BuildAssumption
<1>4. ASSUME NEW n \in Nodes
      PROVE  /\ files[n] \in Seq(File)
             /\ \A i \in DOMAIN files[n] :
                  files[n][i].kind # "jkv" => files[n][i].imports = {}
  <2> DEFINE l == layout[n]
             g == graph[n]
  <2>1. files[n] = Directory(l, g) /\ l \in Seq(Kinds) /\ g \subseteq Pkgs
    BY <1>2, <1>3
  <2> HIDE DEF l, g
  <2>2. DOMAIN l = 1 .. Len(l) /\ Len(l) \in Nat /\ \A i \in DOMAIN l : l[i] \in Kinds
    BY <2>1, LenProperties, ElementOfSeq
  <2>3. DOMAIN files[n] = 1 .. Len(l)
    BY <2>1, <2>2 DEF Directory
  <2>4. \A i \in 1 .. Len(l) :
          /\ files[n][i] \in File
          /\ files[n][i].kind # "jkv" => files[n][i].imports = {}
    BY <2>1, <2>2 DEF Directory, File
  <2>5. files[n] = [i \in 1 .. Len(l) |-> files[n][i]]
    BY <2>1, <2>2 DEF Directory
  <2>6. files[n] \in Seq(File)
    BY <2>2, <2>4, <2>5, IsASeq
  <2> QED
    BY <2>3, <2>4, <2>6
<1>5. FilesOK
  <2>1. files = [n \in Nodes |-> files[n]]
    BY <1>2
  <2> QED
    BY <1>4, <2>1 DEF FilesOK
<1>6. <<>> \in Seq(Frame) /\ Len(<<>>) = 0
  BY EmptySeq
<1>7. DOMAIN stack = {}
  BY <1>2, <1>6, LenProperties
<1>8. TypeOK
  <2>1. stack \in Seq(Frame) /\ Len(stack) <= MaxCalls /\ runs \in 0 .. MaxRuns
    <3>1. MaxCalls \in Nat /\ MaxRuns \in Nat
      BY BuildAssumption
    <3>2. stack \in Seq(Frame) /\ Len(stack) = 0 /\ runs = 0
      BY <1>2, <1>6
    <3> QED
      BY <3>1, <3>2
  <2>2. asm \in [Pkgs -> {"none", "part", "full"}]
    BY <1>2
  <2>3. files \in [Nodes -> Seq(File)] /\ short \in Shorts /\ broken \subseteq Nodes
    BY <1>2, <1>5 DEF FilesOK
  <2>4. /\ pkg \subseteq Cached /\ known \subseteq Pkgs /\ compiled \subseteq known
        /\ used \subseteq known /\ lib \subseteq Lib
    BY <1>2
  <2>5. /\ phase \in Phases /\ status \in Statuses /\ (phase # "idle" <=> status = "running")
        /\ clean \in BOOLEAN /\ sound \in BOOLEAN
    BY <1>2 DEF Phases, Statuses
  <2> QED
    BY <2>1, <2>2, <2>3, <2>4, <2>5 DEF TypeOK
<1>9. CallsOK /\ LibOK /\ CompiledOK
  BY <1>2, <1>7 DEF CallsOK, LibOK, CompiledOK
<1> QED
  BY <1>5, <1>8, <1>9 DEF BInv

LEMMA NeededInPkgs ==
  ASSUME FilesOK
  PROVE  /\ Needed \subseteq Pkgs /\ Imports(Root) \subseteq Needed
         /\ \A p \in Needed : Imports(p) \subseteq Needed
         /\ Chain(Lib) \subseteq Pkgs /\ Lib \subseteq Chain(Lib)
         /\ \A p \in Chain(Lib) : Imports(p) \subseteq Chain(Lib)
<1>1. Imports(Root) \subseteq Pkgs /\ Lib \subseteq Pkgs
  BY ImportsInPkgs, BuildAssumption DEF Nodes
<1> DEFINE S == Imports(Root)
<1>2. S \subseteq Pkgs
  BY <1>1
<1> HIDE DEF S
<1>3. /\ S \subseteq Chain(S) /\ Chain(S) \subseteq Pkgs
      /\ \A p \in Chain(S) : Imports(p) \subseteq Chain(S)
  BY <1>2, ChainCloses
<1>4. Needed = Chain(S)
  BY DEF Needed, S
<1> QED
  BY <1>1, <1>3, <1>4, ChainCloses DEF S

(* What main does keeps the invariant.                                     *)
LEMMA MainStep ==
  ASSUME BInv,
         \/ \E n \in Nodes : Edit(n)
         \/ \E c \in BOOLEAN : Start(c)
         \/ \E p \in Pkgs : Remove(p) \/ BuildLib(p)
         \/ Removed \/ BuildLibDone \/ ImportsAccepted
  PROVE  BInv'
<1>1. /\ TypeOK /\ FilesOK /\ CallsOK /\ LibOK /\ CompiledOK /\ FilesOK'
      /\ files' = files
  <2>1. files' = files
    BY DEF Edit, Start, Remove, BuildLib, Removed, BuildLibDone, ImportsAccepted, project
  <2> QED
    BY <2>1, SameDirectories DEF BInv
<1>2. phase \notin {"lib", "packages"} => stack = <<>> /\ DOMAIN stack = {}
  BY <1>1, StackFacts DEF CallsOK, TypeOK
<1>3. ASSUME NEW n \in Nodes, Edit(n) PROVE BInv'
  <2>1. /\ UNCHANGED <<files, short, asm, pkg, known, compiled, used, stack, lib, phase,
                       clean, sound, runs>>
        /\ phase = "idle" /\ broken' \subseteq Nodes /\ status' = "none" /\ stack = <<>>
    BY <1>2, <1>3 DEF Edit, cache, packages, run
  <2>2. Cached' = Cached
    BY <2>1 DEF Cached
  <2>3. TypeOK'
    BY <1>1, <2>1, <2>2 DEF TypeOK, Statuses
  <2>4. CallsOK' /\ LibOK' /\ CompiledOK'
    BY <1>1, <1>2, <2>1, <2>2 DEF CallsOK, LibOK, CompiledOK
  <2> QED
    BY <1>1, <2>3, <2>4 DEF BInv
<1>4. ASSUME NEW c \in BOOLEAN, Start(c) PROVE BInv'
  <2>1. /\ UNCHANGED <<files, short, broken, asm, pkg, stack>>
        /\ known' = {} /\ compiled' = {} /\ used' = {} /\ lib' \in {Lib, {}}
        /\ phase' \in {"removing", "imports"} /\ status' = "running"
        /\ clean' = c /\ sound' = FALSE /\ runs' = runs + 1 /\ runs < MaxRuns
        /\ phase = "idle" /\ stack = <<>>
    BY <1>2, <1>4 DEF Start, project, cache
  <2>2. Cached' = Cached
    BY <2>1 DEF Cached
  <2>3. runs' \in 0 .. MaxRuns
    BY <1>1, <2>1, BuildAssumption DEF TypeOK
  <2>4. TypeOK'
    BY <1>1, <2>1, <2>2, <2>3 DEF TypeOK, Statuses, Phases
  <2>5. CallsOK' /\ LibOK' /\ CompiledOK'
    BY <1>2, <2>1 DEF CallsOK, LibOK, CompiledOK
  <2> QED
    BY <1>1, <2>4, <2>5 DEF BInv
<1>5. ASSUME NEW p \in Pkgs, Remove(p) PROVE BInv'
  <2>1. /\ UNCHANGED <<files, short, broken, known, compiled, used, stack, lib, phase, status,
                       clean, sound, runs>>
        /\ phase = "removing" /\ stack = <<>> /\ compiled = {}
    BY <1>1, <1>2, <1>5 DEF Remove, project, packages, run, CompiledOK
  <2>2. asm' \in [Pkgs -> {"none", "part", "full"}] /\ pkg' \subseteq Cached'
    BY <1>1, <1>5 DEF Remove, TypeOK, Cached
  <2>3. TypeOK'
    BY <1>1, <2>1, <2>2 DEF TypeOK
  <2>4. CallsOK' /\ LibOK' /\ CompiledOK'
    BY <1>2, <2>1 DEF CallsOK, LibOK, CompiledOK
  <2> QED
    BY <1>1, <2>3, <2>4 DEF BInv
<1>6. ASSUME NEW p \in Pkgs, BuildLib(p) PROVE BInv'
  <2>1. /\ UNCHANGED <<files, short, broken, asm, pkg, known, compiled, used, phase, status,
                       clean, sound, runs>>
        /\ phase = "lib" /\ stack = <<>> /\ p \in lib /\ stack' = <<Call(p)>>
        /\ lib' = lib \ {p}
    BY <1>6 DEF BuildLib, project, cache, packages, run
  <2>2. PICK g : g = Call(p)
    OBVIOUS
  <2>3. /\ stack' \in Seq(Frame) /\ DOMAIN stack' = {1} /\ stack'[1] = g /\ Len(stack') = 1
        /\ g.pkg = p /\ g.doing = "collect" /\ g.todo = {} /\ g.next = 1
    BY <2>1, <2>2, CallFacts DEF Nodes
  <2>4. Cached' = Cached
    BY <2>1 DEF Cached
  <2>5. p \notin compiled /\ (p \in Cached => p \in known)
    BY <1>1, <2>1 DEF LibOK
  <2>6. CallsOK'
    BY <2>1, <2>3, <2>4, <2>5 DEF CallsOK, FrameOK
  <2>7. LibOK' /\ CompiledOK'
    BY <1>1, <2>1, <2>3, <2>4 DEF LibOK, CompiledOK
  <2>8. TypeOK'
    BY <1>1, <2>1, <2>3, <2>4, BuildAssumption DEF TypeOK
  <2> QED
    BY <1>1, <2>6, <2>7, <2>8 DEF BInv
<1>7. ASSUME Removed \/ BuildLibDone PROVE BInv'
  <2>1. /\ UNCHANGED <<files, short, broken, asm, pkg, known, compiled, used, stack, lib, status,
                       clean, sound, runs>>
        /\ \/ phase = "removing" /\ phase' = "lib" /\ Cached = {}
           \/ phase = "lib" /\ phase' = "imports" /\ lib = {}
        /\ stack = <<>>
    BY <1>2, <1>7 DEF Removed, BuildLibDone, AllIsGone, project, cache, packages, run
  <2>2. Cached' = Cached
    BY <2>1 DEF Cached
  <2>3. DOMAIN stack = {}
    BY <1>1, <2>1, StackFacts DEF TypeOK
  <2>4. TypeOK'
    BY <1>1, <2>1, <2>2 DEF TypeOK, Phases
  <2>5. CallsOK' /\ LibOK' /\ CompiledOK'
    BY <1>1, <2>1, <2>2, <2>3 DEF CallsOK, LibOK, CompiledOK
  <2> QED
    BY <1>1, <2>4, <2>5 DEF BInv
<1>8. ASSUME ImportsAccepted PROVE BInv'
  <2>1. /\ UNCHANGED <<files, short, broken, asm, pkg, lib, status, clean, runs>>
        /\ phase = "imports" /\ phase' = "packages" /\ stack' = <<Call(Root)>>
        /\ known' = known \cup Needed /\ used' = used \cup Needed
        /\ compiled' = compiled \cup (Needed \cap Cached)
        /\ sound' \in BOOLEAN
    BY <1>8 DEF ImportsAccepted, IsCompiled, project, cache
  <2>2. PICK g : g = Call(Root)
    OBVIOUS
  <2>3. /\ stack' \in Seq(Frame) /\ DOMAIN stack' = {1} /\ stack'[1] = g /\ Len(stack') = 1
        /\ g.pkg = Root /\ g.doing = "collect" /\ g.todo = {} /\ g.next = 1
    BY <2>1, <2>2, CallFacts DEF Nodes
  <2>4. Cached' = Cached
    BY <2>1 DEF Cached
  <2>5. Needed \subseteq Pkgs /\ Root \notin Pkgs
    BY <1>1, NeededInPkgs, BuildAssumption
  <2>6. Root \notin compiled' /\ Root \notin Cached'
    BY <1>1, <2>1, <2>5 DEF TypeOK, Cached
  <2>7. CallsOK'
    BY <2>1, <2>3, <2>6 DEF CallsOK, FrameOK
  <2>8. LibOK' /\ CompiledOK'
    BY <1>1, <2>1, <2>4 DEF LibOK, CompiledOK
  <2>9. TypeOK'
    BY <1>1, <2>1, <2>3, <2>4, <2>5, BuildAssumption DEF TypeOK, Phases
  <2> QED
    BY <1>1, <2>7, <2>8, <2>9 DEF BInv
<1> QED
  BY <1>3, <1>4, <1>5, <1>6, <1>7, <1>8

LEMMA NextIsBasic == BInv /\ [Next]_vars => BInv'
<1> SUFFICES ASSUME BInv, [Next]_vars PROVE BInv'
  OBVIOUS
<1>1. CASE \/ \E n \in Nodes : Edit(n)
           \/ \E c \in BOOLEAN : Start(c)
           \/ \E p \in Pkgs : Remove(p) \/ BuildLib(p)
           \/ Removed \/ BuildLibDone \/ ImportsAccepted
  BY <1>1, MainStep
<1>2. CASE ImportsRejected
  BY <1>2, Finishing DEF ImportsRejected
<1>3. CASE BuildLink
  BY <1>3, Finishing DEF BuildLink
<1>4. CASE Kill
  BY <1>4, Finishing DEF Kill
<1>5. CASE Collect
  BY <1>5, CollectStep
<1>6. CASE \E p \in Pkgs : Descend(p)
  BY <1>6, DescendStep
<1>7. CASE InitCompile
  BY <1>7, InitCompileStep
<1>8. CASE CompileEntry
  BY <1>8, CompileEntryStep
<1>9. CASE OutputPkgFile
  BY <1>9, OutputPkgFileStep
<1>10. CASE UNCHANGED vars
  <2>1. UNCHANGED <<files, short, broken, asm, pkg, known, compiled, used, stack, lib,
                    phase, status, clean, sound, runs>>
    BY <1>10 DEF vars, project, cache, packages, run
  <2>2. Cached' = Cached
    BY <2>1 DEF Cached
  <2>3. \A m : Imports(m)' = Imports(m)
    BY <2>1, SameDirectories
  <2>4. TypeOK' /\ FilesOK'
    BY <2>1, <2>2, SameDirectories DEF BInv, TypeOK
  <2>5. CallsOK'
    BY <2>1, <2>2 DEF BInv, CallsOK, FrameOK, Imports
  <2>6. LibOK' /\ CompiledOK'
    BY <2>1, <2>2 DEF BInv, LibOK, CompiledOK
  <2> QED
    BY <2>4, <2>5, <2>6 DEF BInv
<1> QED
  BY <1>1, <1>2, <1>3, <1>4, <1>5, <1>6, <1>7, <1>8, <1>9, <1>10 DEF Next

LEMMA Basic == Spec => []BInv
  BY InitIsBasic, NextIsBasic, PTL DEF Spec

(* The state of the builds has its type, however many packages there are.  *)
THEOREM TypeCorrect == Spec => []TypeOK
<1>1. BInv => TypeOK
  BY DEF BInv
<1> QED
  BY <1>1, Basic, PTL

-----------------------------------------------------------------------------
(* A package that was in the cache when it was first imported stays as it  *)
(* is until the cache is removed: whoever imports it, and also when the    *)
(* package that imports it is compiled again.                              *)
THEOREM TakenFromCacheStays == Spec => CachedUntouched
<1> DEFINE Untouched == \A p \in compiled : asm'[p] = asm[p] /\ (p \in pkg' <=> p \in pkg)
<1>1. ASSUME BInv, [Next]_vars PROVE Untouched
  <2>1. CASE UNCHANGED <<asm, pkg>>
    BY <2>1
  <2>2. CASE \E q \in Pkgs : Remove(q)
    BY <1>1, <2>2 DEF Remove, BInv, CompiledOK
  <2>3. CASE InitCompile
    <3>1. Top.pkg \notin compiled /\ TypeOK
      BY <1>1, <2>3, TopFacts DEF InitCompile, FrameOK
    <3> QED
      BY <2>3, <3>1 DEF InitCompile, TypeOK
  <2>4. CASE CompileEntry
    <3>1. stack # <<>> /\ Top.doing = "files" /\ pkg' = pkg
          /\ asm' \in {asm, Finished(Top.pkg)}
      BY <1>1, <2>4, CompileEntryCases
    <3>2. Top.pkg \notin compiled /\ TypeOK
      BY <1>1, <3>1, TopFacts DEF FrameOK
    <3> QED
      BY <1>1, <3>1, <3>2, FinishedFacts DEF TypeOK
  <2>5. CASE OutputPkgFile
    <3>1. stack # <<>> /\ Top.doing = "files" /\ asm' = Finished(Top.pkg)
          /\ pkg' = pkg \cup ({Top.pkg} \ {Root})
      BY <2>5 DEF OutputPkgFile
    <3>2. Top.pkg \notin compiled /\ TypeOK
      BY <1>1, <3>1, TopFacts DEF FrameOK
    <3> QED
      BY <1>1, <3>1, <3>2, FinishedFacts DEF TypeOK
  <2>6. CASE UNCHANGED vars
    BY <2>1, <2>6 DEF vars, cache
  <2> QED
    BY <1>1, <2>1, <2>2, <2>3, <2>4, <2>5, <2>6
       DEF Next, Edit, Start, BuildLib, Descend, Removed, BuildLibDone, ImportsAccepted,
           ImportsRejected, Collect, BuildLink, Kill, cache
<1>2. BInv /\ [Next]_vars => [Untouched]_vars
  BY <1>1
<1> QED
  BY <1>2, Basic, PTL DEF Spec, CachedUntouched

-----------------------------------------------------------------------------
(* The cache is being filled from an empty or a sound one.                 *)
Careful == sound \/ phase = "lib"

(* The package whose .asm file is open.                                    *)
Working == IF stack # <<>> /\ Top.doing = "files" THEN {Top.pkg} ELSE {}

ReadyOK ==
  \A i \in DOMAIN stack : \A j \in DOMAIN files[stack[i].pkg] :
    j < stack[i].next => files[stack[i].pkg][j].imports \subseteq pkg

FinishedOK ==
  /\ sound => phase \in {"packages", "build", "idle"}
  /\ Careful => \A p \in pkg : Imports(p) \subseteq Cached
  /\ Careful /\ phase # "idle" => Unfinished \subseteq Working
  /\ sound => \E p \in Nodes : Unfinished \subseteq {p}
  /\ sound /\ status = "ok" => Unfinished = {}

(* What the steps of ProcessPackage do to the calls.                       *)
SameCalls ==
  /\ UNCHANGED <<lib, phase, status>> /\ stack' # <<>> /\ stack' \in Seq(Frame)
  /\ Len(stack') = Len(stack) /\ DOMAIN stack' = DOMAIN stack
  /\ \A i \in DOMAIN stack :
       stack'[i].pkg = stack[i].pkg /\ (i # Len(stack) => stack'[i] = stack[i])

LEMMA SetTopMoves ==
  ASSUME BInv, stack # <<>>, NEW f \in Frame, f.pkg = Top.pkg, stack' = SetTop(f),
         UNCHANGED <<lib, phase, status>>
  PROVE  SameCalls /\ stack'[Len(stack)] = f
<1>1. stack \in Seq(Frame) /\ Len(stack) \in DOMAIN stack /\ Top = stack[Len(stack)]
  BY TopFacts
<1>2. /\ stack' \in Seq(Frame) /\ stack' # <<>>
      /\ Len(stack') = Len(stack) /\ DOMAIN stack' = DOMAIN stack
      /\ \A i \in DOMAIN stack : stack'[i] = IF i = Len(stack) THEN f ELSE stack[i]
  BY <1>1, SetTopFacts
<1> QED
  BY <1>1, <1>2 DEF SameCalls

LEMMA CollectMoves ==
  ASSUME BInv, Collect
  PROVE  /\ stack # <<>> /\ Top.doing = "collect"
         /\ UNCHANGED <<files, short, broken, asm, pkg, clean, sound, runs>>
         /\ \/ Fail /\ Read(Top.pkg) # DOMAIN files[Top.pkg]
            \/ /\ SameCalls /\ stack'[Len(stack)].doing = "deps"
               /\ stack'[Len(stack)].todo = Uncompiled /\ stack'[Len(stack)].next = 1
               /\ Read(Top.pkg) = DOMAIN files[Top.pkg]
<1>1. stack # <<>> /\ Top.doing = "collect" /\ UNCHANGED <<project, cache, run>>
  BY DEF Collect
<1>2. Top \in Frame /\ Top.next = 1
  BY <1>1, TopFacts DEF FrameOK
<1>3. CASE Read(Top.pkg) = DOMAIN files[Top.pkg]
  <2>1. stack' = SetTop([Top EXCEPT !.doing = "deps", !.todo = Uncompiled])
        /\ UNCHANGED <<lib, phase, status>>
    BY <1>3 DEF Collect
  <2>2. Uncompiled \subseteq Pkgs
    BY CollectStep DEF BInv, TypeOK, Uncompiled
  <2>3. PICK f : f = [Top EXCEPT !.doing = "deps", !.todo = Uncompiled]
    OBVIOUS
  <2>4. /\ f \in Frame /\ f.pkg = Top.pkg /\ f.doing = "deps" /\ f.todo = Uncompiled
        /\ f.next = 1 /\ stack' = SetTop(f)
    BY <1>2, <2>1, <2>2, <2>3 DEF Frame
  <2>5. SameCalls /\ stack'[Len(stack)] = f
    BY <1>1, <2>1, <2>4, SetTopMoves
  <2> QED
    BY <1>1, <1>3, <2>4, <2>5 DEF project, cache, run
<1>4. CASE Read(Top.pkg) # DOMAIN files[Top.pkg]
  BY <1>1, <1>4 DEF Collect, project, cache, run
<1> QED
  BY <1>3, <1>4

LEMMA DescendMoves ==
  ASSUME BInv, NEW p \in Pkgs, Descend(p)
  PROVE  /\ stack # <<>> /\ Top.doing = "deps" /\ p \in Top.todo
         /\ UNCHANGED <<files, short, broken, asm, pkg, known, compiled, used,
                        clean, sound, runs>>
         /\ \/ End("overflow") /\ Len(stack) = MaxCalls
            \/ /\ UNCHANGED <<lib, phase, status>> /\ stack' # <<>>
               /\ Len(stack') = Len(stack) + 1 /\ DOMAIN stack' = 1 .. (Len(stack) + 1)
               /\ \A i \in DOMAIN stack :
                    stack'[i].pkg = stack[i].pkg /\ (i # Len(stack) => stack'[i] = stack[i])
               /\ stack'[Len(stack)].doing = "deps" /\ stack'[Len(stack)].next = 1
               /\ stack'[Len(stack)].todo = Top.todo \ {p}
               /\ stack'[Len(stack) + 1] = Call(p)
<1>1. /\ stack # <<>> /\ Top.doing = "deps" /\ p \in Top.todo
      /\ UNCHANGED <<project, cache, packages, run>>
  BY DEF Descend
<1>2. /\ Top \in Frame /\ Top.next = 1 /\ stack \in Seq(Frame)
      /\ Len(stack) \in DOMAIN stack /\ Top = stack[Len(stack)]
  BY <1>1, TopFacts DEF FrameOK
<1>3. CASE Len(stack) = MaxCalls
  BY <1>1, <1>3 DEF Descend, project, cache, packages, run
<1>4. CASE Len(stack) # MaxCalls
  <2>1. stack' = Append(SetTop([Top EXCEPT !.todo = @ \ {p}]), Call(p))
        /\ UNCHANGED <<lib, phase, status>>
    BY <1>4 DEF Descend
  <2>2. PICK f : f = [Top EXCEPT !.todo = @ \ {p}]
    OBVIOUS
  <2>3. PICK g : g = Call(p)
    OBVIOUS
  <2>4. /\ f \in Frame /\ f.pkg = Top.pkg /\ f.doing = "deps" /\ f.todo = Top.todo \ {p}
        /\ f.next = 1 /\ g \in Frame /\ stack' = Append(SetTop(f), g)
    BY <1>1, <1>2, <2>1, <2>2, <2>3, CallFacts DEF Frame, Nodes
  <2>5. /\ stack' \in Seq(Frame) /\ stack' # <<>> /\ Len(stack') = Len(stack) + 1
        /\ DOMAIN stack' = 1 .. (Len(stack) + 1)
        /\ \A i \in DOMAIN stack : stack'[i] = IF i = Len(stack) THEN f ELSE stack[i]
        /\ stack'[Len(stack) + 1] = g
    BY <1>1, <1>2, <2>4, PushFacts
  <2> QED
    BY <1>1, <1>2, <2>1, <2>3, <2>4, <2>5 DEF project, cache, packages, run
<1> QED
  BY <1>3, <1>4

LEMMA InitCompileMoves ==
  ASSUME BInv, InitCompile
  PROVE  /\ stack # <<>> /\ Top.doing = "deps" /\ Top.todo = {}
         /\ UNCHANGED <<files, short, broken, pkg, known, compiled, clean, sound, runs>>
         /\ Cached' = Cached \cup ({Top.pkg} \ {Root})
         /\ \A p \in Pkgs : asm'[p] = IF p = Top.pkg THEN "part" ELSE asm[p]
         /\ SameCalls /\ stack'[Len(stack)].doing = "files"
         /\ stack'[Len(stack)].next = 1
<1>1. /\ stack # <<>> /\ Top.doing = "deps" /\ Top.todo = {}
      /\ UNCHANGED <<project, pkg, known, compiled, lib, phase, status, run>>
      /\ asm' = IF Top.pkg = Root THEN asm ELSE [asm EXCEPT ![Top.pkg] = "part"]
  BY DEF InitCompile, DepsDone
<1>2. Top \in Frame /\ Top.next = 1 /\ TypeOK /\ Top.pkg \in Nodes
  BY <1>1, TopFacts DEF FrameOK
<1>3. PICK f : f = [Top EXCEPT !.doing = "files"]
  OBVIOUS
<1>4. /\ f \in Frame /\ f.pkg = Top.pkg /\ f.doing = "files" /\ f.next = 1
      /\ stack' = SetTop(f)
  BY <1>2, <1>3 DEF Frame, InitCompile
<1>5. SameCalls /\ stack'[Len(stack)] = f
  BY <1>1, <1>4, SetTopMoves
<1>6. /\ Cached' = Cached \cup ({Top.pkg} \ {Root})
      /\ \A p \in Pkgs : asm'[p] = IF p = Top.pkg THEN "part" ELSE asm[p]
  BY <1>1, <1>2, BuildAssumption DEF TypeOK, Cached, Nodes
<1> QED
  BY <1>1, <1>4, <1>5, <1>6 DEF project, run

LEMMA CompileEntryMoves ==
  ASSUME BInv, CompileEntry
  PROVE  /\ stack # <<>> /\ Top.doing = "files" /\ Top.next \in DOMAIN files[Top.pkg]
         /\ Entry.imports \subseteq Imports(Top.pkg)
         /\ UNCHANGED <<files, short, broken, pkg, known, compiled, clean, sound, runs>>
         /\ Cached' = Cached /\ \A p \in Pkgs : p # Top.pkg => asm'[p] = asm[p]
         /\ \/ /\ UNCHANGED asm
               /\ \/ Fail /\ (~(Entry.imports \subseteq pkg) \/ Top.pkg \in broken)
                  \/ End("panic") /\ EarlierFile
            \/ /\ Entry.imports \subseteq pkg
               /\ SameCalls /\ stack'[Len(stack)].doing = "files"
               /\ stack'[Len(stack)].next = Top.next + 1
<1>1. /\ stack # <<>> /\ Top.doing = "files" /\ Top.next \in DOMAIN files[Top.pkg]
      /\ Entry.imports \subseteq Imports(Top.pkg)
      /\ UNCHANGED <<project, pkg, known, compiled, run>>
  BY CompileEntryCases
<1>2. UNCHANGED <<files, short, broken, pkg, known, compiled, clean, sound, runs>>
  BY <1>1 DEF project, run
<1>3. CASE UNCHANGED asm /\ (\/ Fail /\ (~(Entry.imports \subseteq pkg) \/ Top.pkg \in broken)
                             \/ End("panic") /\ EarlierFile)
  BY <1>1, <1>2, <1>3 DEF Cached
<1>4. CASE /\ asm' \in {asm, Finished(Top.pkg)} /\ Entry.imports \subseteq pkg
           /\ UNCHANGED <<lib, phase, status>>
           /\ stack' = SetTop([Top EXCEPT !.next = @ + 1])
  <2>1. Cached' = Cached /\ \A p \in Pkgs : p # Top.pkg => asm'[p] = asm[p]
    <3>1. PICK a : a = asm'
      OBVIOUS
    <3> QED
      BY <1>1, <1>4, <3>1, FinishedFacts
  <2>2. PICK f : f = [Top EXCEPT !.next = @ + 1]
    OBVIOUS
  <2>3. Top \in Frame /\ Top.next \in Nat
    BY <1>1, TopFacts DEF Frame
  <2>4. /\ f \in Frame /\ f.pkg = Top.pkg /\ f.doing = "files" /\ f.next = Top.next + 1
        /\ stack' = SetTop(f)
    BY <1>1, <1>4, <2>2, <2>3 DEF Frame
  <2>5. SameCalls /\ stack'[Len(stack)] = f
    BY <1>1, <1>4, <2>4, SetTopMoves
  <2> QED
    BY <1>1, <1>2, <1>4, <2>1, <2>4, <2>5
<1> QED
  BY <1>3, <1>4, CompileEntryCases

LEMMA OutputPkgFileMoves ==
  ASSUME BInv, OutputPkgFile
  PROVE  /\ stack # <<>> /\ Top.doing = "files" /\ Top.next > Len(files[Top.pkg])
         /\ UNCHANGED <<files, short, broken, known, compiled, used, lib, status,
                        clean, sound, runs>>
         /\ Cached' = Cached /\ \A p \in Pkgs : p # Top.pkg => asm'[p] = asm[p]
         /\ Top.pkg # Root => asm'[Top.pkg] = "full"
         /\ pkg' = pkg \cup ({Top.pkg} \ {Root})
         /\ Len(stack') = Len(stack) - 1 /\ DOMAIN stack' = 1 .. (Len(stack) - 1)
         /\ \A i \in DOMAIN stack' :
              /\ i \in DOMAIN stack /\ i < Len(stack) /\ stack'[i] = stack[i]
              /\ stack'[i].doing = "deps" /\ stack'[i].next = 1
         /\ Len(stack) = 1 => stack' = <<>>
         /\ Len(stack) # 1 => stack' # <<>> /\ Top' = stack[Len(stack) - 1]
         /\ phase' = (IF Len(stack) = 1 /\ phase = "packages" THEN "build" ELSE phase)
<1>1. /\ stack # <<>> /\ Top.doing = "files" /\ Top.next > Len(files[Top.pkg])
      /\ asm' = Finished(Top.pkg) /\ pkg' = pkg \cup ({Top.pkg} \ {Root}) /\ stack' = Pop
      /\ phase' = (IF Len(stack) = 1 /\ phase = "packages" THEN "build" ELSE phase)
      /\ UNCHANGED <<project, packages, lib, status, run>>
  BY DEF OutputPkgFile
<1>2. stack \in Seq(Frame) /\ Len(stack) \in Nat /\ Len(stack) # 0
  BY <1>1, TopFacts
<1>3. /\ Len(stack') = Len(stack) - 1 /\ DOMAIN stack' = 1 .. (Len(stack) - 1)
      /\ \A i \in DOMAIN stack' : i \in DOMAIN stack /\ i < Len(stack) /\ stack'[i] = stack[i]
      /\ Len(stack) = 1 => stack' = <<>>
      /\ Len(stack) # 1 => stack' # <<>>
  <2>1. stack' = Pop
    BY <1>1
  <2> QED
    BY <1>1, <1>2, <2>1, PopFacts
<1>4. \A i \in DOMAIN stack' : stack'[i].doing = "deps" /\ stack'[i].next = 1
  <2>1. \A i \in DOMAIN stack' : i \in DOMAIN stack /\ i # Len(stack)
    BY <1>2, <1>3
  <2>2. \A i \in DOMAIN stack : i # Len(stack) => stack[i].doing = "deps" /\ stack[i].next = 1
    BY DEF BInv, CallsOK, FrameOK
  <2> QED
    BY <1>3, <2>1, <2>2
<1>5. Len(stack) # 1 => Top' = stack[Len(stack) - 1]
  <2>1. Len(stack) # 1 => Len(stack) - 1 \in 1 .. (Len(stack) - 1)
    <3>1. \A k \in Nat : k # 0 /\ k # 1 => k - 1 \in 1 .. (k - 1)
      OBVIOUS
    <3> QED
      BY <1>2, <3>1
  <2> QED
    BY <1>3, <2>1 DEF Top
<1>6. Cached' = Cached /\ (\A p \in Pkgs : p # Top.pkg => asm'[p] = asm[p])
      /\ (Top.pkg # Root => asm'[Top.pkg] = "full")
  <2>1. PICK a : a = asm'
    OBVIOUS
  <2> QED
    BY <1>1, <2>1, FinishedFacts
<1> QED
  BY <1>1, <1>3, <1>4, <1>5, <1>6 DEF project, packages, run

-----------------------------------------------------------------------------
(* What a run that starts from a sound cache leaves unfinished.            *)

(* The entries behind a call, when the calls keep their places.            *)
LEMMA StillReady ==
  ASSUME BInv, BInv', ReadyOK, files' = files, pkg \subseteq pkg',
         \A i \in DOMAIN stack' :
           \/ stack'[i].next = 1
           \/ /\ i \in DOMAIN stack /\ stack'[i].pkg = stack[i].pkg
              /\ stack'[i].next = stack[i].next
  PROVE  ReadyOK'
<1> SUFFICES ASSUME NEW i \in DOMAIN stack', NEW j \in DOMAIN files[stack'[i].pkg],
                    j < stack'[i].next
             PROVE  files[stack'[i].pkg][j].imports \subseteq pkg'
  BY DEF ReadyOK
<1>1. CASE stack'[i].next = 1
  <2>1. stack' \in Seq(Frame)
    BY DEF BInv, TypeOK
  <2>2. stack'[i] \in Frame
    BY <2>1, LenProperties, ElementOfSeq
  <2>3. stack'[i].pkg \in Nodes
    BY <2>2 DEF Frame
  <2> QED
    BY <1>1, <2>3, ImportsInPkgs DEF BInv
<1>2. CASE /\ i \in DOMAIN stack /\ stack'[i].pkg = stack[i].pkg
           /\ stack'[i].next = stack[i].next
  BY <1>2 DEF ReadyOK
<1> QED
  BY <1>1, <1>2

LEMMA ReadyStep ==
  ASSUME BInv, BInv', ReadyOK, [Next]_vars
  PROVE  ReadyOK'
<1>1. CASE stack' = <<>>
  <2>1. <<>> \in Seq(Frame)
    BY EmptySeq
  <2>2. DOMAIN stack' = {}
    BY <1>1, <2>1, EmptySeq, LenProperties
  <2> QED
    BY <2>2 DEF ReadyOK
<1>2. CASE UNCHANGED <<files, pkg, stack>>
  BY <1>2, StillReady
<1>3. ASSUME Collect, stack' # <<>> PROVE ReadyOK'
  <2>1. SameCalls /\ stack'[Len(stack)].next = 1 /\ UNCHANGED <<files, pkg>>
    BY <1>3, CollectMoves DEF Fail, End
  <2> QED
    BY <2>1, StillReady DEF SameCalls
<1>4. ASSUME NEW p \in Pkgs, Descend(p), stack' # <<>> PROVE ReadyOK'
  <2>1. /\ DOMAIN stack' = 1 .. (Len(stack) + 1)
        /\ \A i \in DOMAIN stack : i # Len(stack) => stack'[i] = stack[i]
        /\ stack'[Len(stack)].next = 1 /\ stack'[Len(stack) + 1] = Call(p)
        /\ UNCHANGED <<files, pkg>> /\ stack # <<>>
    BY <1>4, DescendMoves DEF End
  <2>2. Len(stack) \in Nat /\ DOMAIN stack = 1 .. Len(stack)
    BY <2>1, TopFacts
  <2>3. Call(p).next = 1
    BY DEF Call
  <2>4. \A i \in DOMAIN stack' : i \in DOMAIN stack \/ i = Len(stack) + 1
    BY <2>1, <2>2
  <2> QED
    BY <2>1, <2>3, <2>4, StillReady
<1>5. ASSUME InitCompile PROVE ReadyOK'
  <2>1. SameCalls /\ stack'[Len(stack)].next = 1 /\ UNCHANGED <<files, pkg>>
    BY <1>5, InitCompileMoves
  <2> QED
    BY <2>1, StillReady DEF SameCalls
<1>6. ASSUME CompileEntry, stack' # <<>> PROVE ReadyOK'
  <2>1. /\ stack # <<>> /\ Entry.imports \subseteq pkg /\ UNCHANGED <<files, pkg>>
        /\ SameCalls /\ stack'[Len(stack)].next = Top.next + 1
    BY <1>6, CompileEntryMoves DEF Fail, End
  <2>2. /\ Top \in Frame /\ Top.next \in Nat /\ Top = stack[Len(stack)] /\ Top.pkg \in Nodes
        /\ FilesOK
    BY <2>1, TopFacts DEF Frame
  <2> SUFFICES ASSUME NEW i \in DOMAIN stack', NEW j \in DOMAIN files[stack'[i].pkg],
                      j < stack'[i].next
               PROVE  files[stack'[i].pkg][j].imports \subseteq pkg'
    BY <2>1 DEF ReadyOK
  <2>3. i \in DOMAIN stack /\ stack'[i].pkg = stack[i].pkg
    BY <2>1 DEF SameCalls
  <2>4. CASE i # Len(stack)
    <3>1. stack'[i] = stack[i]
      BY <2>1, <2>3, <2>4 DEF SameCalls
    <3> QED
      BY <2>1, <2>3, <3>1 DEF ReadyOK
  <2>5. CASE i = Len(stack)
    <3>1. j \in DOMAIN files[Top.pkg] /\ j < Top.next + 1 /\ stack'[i].pkg = Top.pkg
      BY <2>1, <2>2, <2>3, <2>5
    <3>2. j \in Nat
      BY <2>2, <3>1, ImportsInPkgs
    <3>3. j < Top.next \/ j = Top.next
      BY <2>2, <3>1, <3>2
    <3> QED
      BY <2>1, <2>2, <2>3, <2>5, <3>1, <3>3 DEF ReadyOK, Entry
  <2> QED
    BY <2>4, <2>5
<1>7. ASSUME OutputPkgFile PROVE ReadyOK'
  BY <1>7, OutputPkgFileMoves, StillReady
<1>8. ASSUME NEW p \in Nodes, stack' = <<Call(p)>>, UNCHANGED <<files, pkg>> PROVE ReadyOK'
  BY <1>8, CallFacts, StillReady
<1>9. CASE phase \notin {"lib", "packages"} /\ ~ImportsAccepted
  <2>1. stack = <<>>
    BY <1>9 DEF BInv, CallsOK
  <2>2. stack' = <<>>
    BY <1>9, <2>1 DEF Next, Edit, Start, Remove, BuildLib, Descend, Removed, BuildLibDone,
       ImportsRejected, Collect, InitCompile, CompileEntry, OutputPkgFile, BuildLink, Kill,
       End, vars, cache
  <2> QED
    BY <1>1, <2>2
<1>10. ASSUME ImportsAccepted PROVE ReadyOK'
  BY <1>8, <1>10 DEF ImportsAccepted, project, cache, Nodes
<1>11. ASSUME NEW p \in Pkgs, BuildLib(p) PROVE ReadyOK'
  BY <1>8, <1>11 DEF BuildLib, project, cache, Nodes
<1>12. CASE BuildLibDone \/ UNCHANGED vars
  BY <1>2, <1>12 DEF BuildLibDone, vars, project, cache
<1>13. CASE Kill
  BY <1>1, <1>13 DEF Kill, End
<1> QED
  BY <1>1, <1>3, <1>4, <1>5, <1>6, <1>7, <1>9, <1>10, <1>11, <1>12, <1>13
     DEF Next, Edit, Start, Remove, Removed, ImportsRejected, BuildLink

(* A step that leaves the cache alone.                                     *)
LEMMA CacheSame ==
  ASSUME BInv, FinishedOK, UNCHANGED <<files, asm, pkg, sound>>,
         phase' = "lib" => phase = "lib",
         sound => phase' \in {"packages", "build", "idle"},
         Careful' /\ phase' # "idle" => Unfinished \subseteq Working',
         sound /\ status' = "ok" => Unfinished = {}
  PROVE  FinishedOK'
<1>1. Cached' = Cached /\ Unfinished' = Unfinished /\ \A n : Imports(n)' = Imports(n)
  BY SameDirectories DEF Cached, Unfinished
<1>2. Careful' => Careful
  BY DEF Careful
<1>3. Careful => \A p \in pkg : Imports(p) \subseteq Cached
  BY DEF FinishedOK
<1>4. Careful' => \A p \in pkg' : Imports(p)' \subseteq Cached'
  BY <1>1, <1>2, <1>3
<1>5. sound => \E p \in Nodes : Unfinished \subseteq {p}
  BY DEF FinishedOK
<1> QED
  BY <1>1, <1>4, <1>5 DEF FinishedOK

LEMMA CompiledImports ==
  ASSUME BInv, ReadyOK, stack # <<>>, Top.doing = "files", Top.next > Len(files[Top.pkg])
  PROVE  Imports(Top.pkg) \subseteq pkg
<1>1. /\ FilesOK /\ Top \in Frame /\ Top.pkg \in Nodes /\ Top.next \in Nat
      /\ Top = stack[Len(stack)] /\ Len(stack) \in DOMAIN stack
  BY TopFacts DEF Frame
<1>2. DOMAIN files[Top.pkg] = 1 .. Len(files[Top.pkg]) /\ Len(files[Top.pkg]) \in Nat
  BY <1>1, ImportsInPkgs
<1>3. \A j \in DOMAIN files[Top.pkg] : j < Top.next
  BY <1>1, <1>2
<1>4. \A j \in DOMAIN files[Top.pkg] : files[Top.pkg][j].imports \subseteq pkg
  BY <1>1, <1>3 DEF ReadyOK
<1> QED
  BY <1>4 DEF Imports

LEMMA InitFinished == Init => ReadyOK /\ FinishedOK
<1> SUFFICES ASSUME Init PROVE ReadyOK /\ FinishedOK
  OBVIOUS
<1>1. /\ stack = <<>> /\ asm = [p \in Pkgs |-> "none"] /\ sound = FALSE /\ phase = "idle"
  BY DEF Init, InitFor
<1>2. BInv
  BY InitIsBasic
<1>3. DOMAIN stack = {}
  BY <1>1, <1>2, StackFacts DEF BInv, TypeOK
<1> QED
  BY <1>1, <1>3 DEF ReadyOK, FinishedOK, Careful

LEMMA FinishedStep ==
  ASSUME BInv, BInv', ReadyOK, FinishedOK, [Next]_vars
  PROVE  FinishedOK'
<1>1. phase \in Phases /\ (sound => phase \in {"packages", "build", "idle"})
  BY DEF BInv, TypeOK, FinishedOK
<1>2. Careful /\ phase # "idle" => Unfinished \subseteq Working
  BY DEF FinishedOK
<1>3. ASSUME Top.doing # "files" \/ stack = <<>> PROVE Working = {}
  BY <1>3 DEF Working
(* The cache stays as it is and no .asm file was open.                     *)
<1>4. ASSUME Working = {}, UNCHANGED <<files, asm, pkg, sound>>, phase # "idle",
             phase' = "lib" => phase = "lib",
             sound => phase' \in {"packages", "build", "idle"}
      PROVE  FinishedOK'
  <2>1. Careful => Unfinished = {}
    BY <1>2, <1>4
  <2>2. Careful' => Careful
    BY <1>4 DEF Careful
  <2> QED
    BY <1>4, <2>1, <2>2, CacheSame DEF Careful
<1>5. CASE UNCHANGED vars
  <2>1. UNCHANGED <<files, asm, pkg, sound, phase, status, stack>>
    BY <1>5 DEF vars, project, cache, run
  <2>2. Working' = Working
    BY <2>1 DEF Working, Top
  <2>3. Careful' = Careful
    BY <2>1 DEF Careful
  <2> QED
    BY <1>1, <1>2, <2>1, <2>2, <2>3, CacheSame DEF FinishedOK
<1>6. ASSUME NEW n \in Nodes, Edit(n) PROVE FinishedOK'
  <2>1. UNCHANGED <<files, asm, pkg, sound, phase>> /\ phase = "idle" /\ status' = "none"
    BY <1>6 DEF Edit, cache, run
  <2> QED
    BY <2>1, CacheSame
<1>7. ASSUME NEW c \in BOOLEAN, Start(c) PROVE FinishedOK'
  BY <1>7 DEF Start, FinishedOK, Careful
<1>8. ASSUME NEW p \in Pkgs, Remove(p) PROVE FinishedOK'
  <2>1. phase' = "removing" /\ sound' = FALSE
    BY <1>1, <1>8 DEF Remove, run, BInv, TypeOK
  <2> QED
    BY <2>1 DEF FinishedOK, Careful
<1>9. ASSUME NEW p \in Pkgs, BuildLib(p) PROVE FinishedOK'
  BY <1>1, <1>3, <1>4, <1>9 DEF BuildLib, project, cache, run
<1>10. ASSUME NEW p \in Pkgs, Descend(p) PROVE FinishedOK'
  <2>1. /\ stack # <<>> /\ Top.doing = "deps" /\ UNCHANGED <<files, asm, pkg, sound>>
        /\ phase' \in {phase, "idle"}
    BY <1>10, DescendMoves DEF End
  <2>2. phase # "idle"
    BY <2>1, TopFacts
  <2> QED
    BY <1>1, <1>3, <1>4, <2>1, <2>2
<1>11. CASE Removed
  <2>1. Cached' = {} /\ pkg' = {} /\ sound' = FALSE
    BY <1>1, <1>11 DEF Removed, AllIsGone, cache, Cached, run, BInv, TypeOK
  <2> QED
    BY <2>1 DEF FinishedOK, Unfinished
<1>12. CASE BuildLibDone
  BY <1>1, <1>3, <1>4, <1>12 DEF BuildLibDone, project, cache, run
<1>13. CASE ImportsAccepted
  <2>1. /\ phase' = "packages" /\ UNCHANGED <<files, asm, pkg, status>> /\ phase = "imports"
        /\ sound' = SoundCache
    BY <1>13 DEF ImportsAccepted, SoundCache, project, cache
  <2>2. status' # "ok"
    BY <2>1 DEF BInv, TypeOK
  <2>3. SoundCache => Unfinished' = {} /\ \A p \in pkg' : Imports(p)' \subseteq Cached'
    <3>1. SoundCache => Unfinished = {} /\ \A p \in pkg : Imports(p) \subseteq Cached
      BY DEF SoundCache, Unfinished, BInv, TypeOK
    <3>2. Unfinished' = Unfinished /\ Cached' = Cached /\ \A p : Imports(p)' = Imports(p)
      BY <2>1, SameDirectories DEF Unfinished, Cached
    <3> QED
      BY <2>1, <3>1, <3>2
  <2> QED
    BY <2>1, <2>2, <2>3 DEF FinishedOK, Careful, Nodes
<1>14. CASE ImportsRejected \/ (phase = "imports" /\ Kill)
  BY <1>1, <1>14 DEF ImportsRejected, Kill, End, run, FinishedOK, Careful
<1>15. CASE Collect
  <2>1. /\ stack # <<>> /\ Top.doing = "collect" /\ UNCHANGED <<files, asm, pkg, sound>>
        /\ \/ phase' \in {phase, "idle"}
           \/ phase = "lib" /\ phase' = "imports"
    BY <1>15, CollectMoves DEF Fail, End, SameCalls
  <2>2. phase # "idle"
    BY <2>1, TopFacts
  <2> QED
    BY <1>1, <1>3, <1>4, <2>1, <2>2
<1>16. CASE InitCompile
  <2>1. /\ stack # <<>> /\ Top.doing = "deps"
        /\ UNCHANGED <<files, pkg, sound, phase, status>> /\ stack' # <<>>
        /\ Cached' = Cached \cup ({Top.pkg} \ {Root})
        /\ \A p \in Pkgs : asm'[p] = IF p = Top.pkg THEN "part" ELSE asm[p]
        /\ stack'[Len(stack)].doing = "files" /\ Len(stack') = Len(stack)
        /\ \A i \in DOMAIN stack : stack'[i].pkg = stack[i].pkg
    BY <1>16, InitCompileMoves DEF SameCalls
  <2>2. /\ Len(stack) \in DOMAIN stack /\ Top = stack[Len(stack)] /\ phase # "idle"
        /\ status = "running" /\ Top.pkg \in Nodes
    BY <2>1, TopFacts
  <2>3. Top' = stack'[Len(stack)]
    BY <2>1 DEF Top
  <2>4. Working' = {Top.pkg}
    BY <2>1, <2>2, <2>3 DEF Working
  <2>5. Careful' = Careful
    BY <2>1 DEF Careful
  <2>6. Careful => Unfinished = {}
    BY <1>2, <1>3, <2>1, <2>2
  <2>7. Unfinished = {} => Unfinished' \subseteq {Top.pkg}
    BY <2>1 DEF Unfinished, Cached
  <2>8. \A n : Imports(n)' = Imports(n)
    BY <2>1, SameDirectories
  <2>9. Careful => \A p \in pkg : Imports(p) \subseteq Cached
    BY DEF FinishedOK
  <2>10. Careful' => \A p \in pkg' : Imports(p)' \subseteq Cached'
    BY <2>1, <2>5, <2>8, <2>9
  <2>11. sound' => Careful
    BY <2>1 DEF Careful
  <2> QED
    BY <1>1, <2>1, <2>2, <2>4, <2>5, <2>6, <2>7, <2>10, <2>11 DEF FinishedOK
<1>17. CASE CompileEntry
  <2>1. /\ stack # <<>> /\ Top.doing = "files" /\ UNCHANGED <<files, pkg, sound>>
        /\ Cached' = Cached /\ \A p \in Pkgs : p # Top.pkg => asm'[p] = asm[p]
    BY <1>17, CompileEntryMoves
  <2>2. \/ phase' \in {"idle", "imports"} /\ (phase' = "imports" => phase = "lib") /\ stack' = <<>>
           /\ (phase' = "imports" => status' = status) /\ status' # "ok"
        \/ /\ SameCalls /\ stack'[Len(stack)].doing = "files"
    <3>1. status = "running"
      BY <2>1, TopFacts
    <3> QED
      BY <1>17, <3>1, CompileEntryMoves DEF Fail, End
  <2>3. /\ Len(stack) \in DOMAIN stack /\ Top = stack[Len(stack)] /\ phase # "idle"
        /\ status = "running" /\ Top.pkg \in Nodes
    BY <2>1, TopFacts
  <2>4. Working = {Top.pkg}
    BY <2>1 DEF Working
  <2>5. Careful => Unfinished' \subseteq {Top.pkg}
    <3>1. Careful => Unfinished \subseteq {Top.pkg}
      BY <1>2, <2>3, <2>4
    <3>2. \A p \in Pkgs : p # Top.pkg => (p \in Unfinished' <=> p \in Unfinished)
      BY <2>1 DEF Unfinished
    <3>3. Unfinished' \subseteq Pkgs
      BY DEF Unfinished, Cached
    <3> QED
      BY <3>1, <3>2, <3>3
  <2>6. \A n : Imports(n)' = Imports(n)
    BY <2>1, SameDirectories
  <2>7. Careful => \A p \in pkg : Imports(p) \subseteq Cached
    BY DEF FinishedOK
  <2>8. Careful' => Careful
    BY <2>1, <2>2 DEF Careful, SameCalls
  <2>9. Careful' => \A p \in pkg' : Imports(p)' \subseteq Cached'
    BY <2>1, <2>6, <2>7, <2>8
  <2>10. sound' => Careful /\ phase' \in {"packages", "build", "idle"}
    BY <1>1, <2>1, <2>2 DEF Careful, SameCalls
  <2>11. phase' # "idle" /\ Careful' => Working' = {Top.pkg}
    <3>1. CASE stack' = <<>>
      BY <1>1, <2>1, <2>2, <3>1 DEF Careful, SameCalls
    <3>2. CASE SameCalls /\ stack'[Len(stack)].doing = "files"
      <4>1. Top' = stack'[Len(stack)] /\ stack' # <<>> /\ stack'[Len(stack)].pkg = Top.pkg
        BY <2>3, <3>2 DEF SameCalls, Top
      <4> QED
        BY <3>2, <4>1 DEF Working
    <3> QED
      BY <2>2, <3>1, <3>2
  <2>12. status' # "ok"
    BY <2>2, <2>3 DEF SameCalls
  <2> QED
    BY <2>3, <2>5, <2>8, <2>9, <2>10, <2>11, <2>12 DEF FinishedOK
<1>18. CASE OutputPkgFile
  <2>1. /\ stack # <<>> /\ Top.doing = "files" /\ UNCHANGED <<files, sound, status>>
        /\ Cached' = Cached /\ \A p \in Pkgs : p # Top.pkg => asm'[p] = asm[p]
        /\ Top.pkg # Root => asm'[Top.pkg] = "full"
        /\ pkg' = pkg \cup ({Top.pkg} \ {Root})
        /\ Top.next > Len(files[Top.pkg])
        /\ phase' = (IF Len(stack) = 1 /\ phase = "packages" THEN "build" ELSE phase)
    BY <1>18, OutputPkgFileMoves
  <2>2. /\ phase \in {"lib", "packages"} /\ status = "running" /\ Top.pkg \in Nodes
    BY <2>1, TopFacts
  <2>3. Careful => Unfinished \subseteq {Top.pkg}
    BY <1>2, <2>1, <2>2 DEF Working
  <2>4. Careful => Unfinished' = {}
    <3>1. Top.pkg \notin Unfinished'
      BY <2>1, BuildAssumption DEF Unfinished, Cached
    <3>2. Unfinished' \subseteq Unfinished
      <4> SUFFICES ASSUME NEW p \in Unfinished' PROVE p \in Unfinished
        OBVIOUS
      <4>1. p \in Cached /\ p \in Pkgs /\ p # Top.pkg /\ (asm'[p] = "part" \/ p \notin pkg')
        BY <2>1, <3>1 DEF Unfinished, Cached
      <4> QED
        BY <2>1, <4>1 DEF Unfinished
    <3> QED
      BY <2>3, <3>1, <3>2
  <2>5. Careful' => Careful
    BY <2>1, <2>2 DEF Careful
  <2>6. Imports(Top.pkg) \subseteq Cached
    BY <2>1, CompiledImports DEF BInv, TypeOK
  <2>7. Careful => \A p \in pkg : Imports(p) \subseteq Cached
    BY DEF FinishedOK
  <2>8. \A n : Imports(n)' = Imports(n)
    BY <2>1, SameDirectories
  <2>9. Careful' => \A p \in pkg' : Imports(p)' \subseteq Cached'
    BY <2>1, <2>5, <2>6, <2>7, <2>8
  <2>10. sound' => Careful
    BY <2>1 DEF Careful
  <2> QED
    BY <1>1, <2>1, <2>2, <2>4, <2>5, <2>9, <2>10 DEF FinishedOK, Nodes
<1>19. CASE BuildLink
  <2>1. stack = <<>>
    BY <1>19 DEF BuildLink, BInv, CallsOK
  <2> QED
    BY <1>1, <1>3, <1>4, <1>19, <2>1 DEF BuildLink, End, project, cache, run
<1>20. CASE Kill
  <2>1. UNCHANGED <<files, asm, pkg, sound>> /\ phase' = "idle" /\ status' = "killed"
    BY <1>20 DEF Kill, End, project, cache, run
  <2> QED
    BY <2>1, CacheSame
<1> QED
  BY <1>5, <1>6, <1>7, <1>8, <1>9, <1>10, <1>11, <1>12, <1>13, <1>14, <1>15, <1>16,
     <1>17, <1>18, <1>19, <1>20 DEF Next

LEMMA Finish == Spec => [](BInv /\ ReadyOK /\ FinishedOK)
<1>1. BInv /\ ReadyOK /\ FinishedOK /\ [Next]_vars => (BInv /\ ReadyOK /\ FinishedOK)'
  BY NextIsBasic, ReadyStep, FinishedStep
<1> QED
  BY <1>1, InitIsBasic, InitFinished, PTL DEF Spec

(* Failed and killed runs included, a run that starts from a sound cache   *)
(* unfinishes one package at most, and none when it succeeds; what is      *)
(* finished has its imports beside it.                                     *)
THEOREM RunsUnfinishOne == Spec => []OneUnfinished
<1>1. BInv /\ FinishedOK => OneUnfinished
  <2> SUFFICES ASSUME BInv, FinishedOK, sound PROVE
        /\ Cardinality(Unfinished) <= (IF status = "ok" THEN 0 ELSE 1)
        /\ \A p \in Cached \ Unfinished : Imports(p) \subseteq Cached
    BY DEF OneUnfinished
  <2>1. status = "ok" => Cardinality(Unfinished) = 0
    BY FS_EmptySet DEF FinishedOK
  <2>2. PICK p \in Nodes : Unfinished \subseteq {p}
    BY DEF FinishedOK
  <2>3. Cardinality(Unfinished) \in Nat /\ Cardinality(Unfinished) <= 1
    <3>1. IsFiniteSet({p}) /\ Cardinality({p}) = 1
      BY FS_Singleton
    <3> QED
      BY <2>2, <3>1, FS_Subset, FS_CardinalityType
  <2>4. \A q \in Cached \ Unfinished : q \in pkg
    BY DEF Unfinished
  <2> QED
    BY <2>1, <2>3, <2>4 DEF FinishedOK, Careful
<1> QED
  BY <1>1, Finish, PTL

-----------------------------------------------------------------------------
(* Where the recursion is, when the directories are as they should be.     *)

Area == IF phase = "lib" THEN Chain(Lib) ELSE Needed \cup {Root}
TidyArea == Tidy(Area)
Below(n) == Cardinality(Chain(Imports(n)))

(* The calls follow the imports.  Each is for a package with fewer         *)
(* packages below it than the one before, as the import phase has found no *)
(* cycle: there cannot be more calls than packages.                        *)
PathOK ==
  /\ phase = "packages" => ~Cyclic /\ stack # <<>> /\ stack[1].pkg = Root
  /\ TidyArea =>
       \A i \in DOMAIN stack :
         /\ stack[i].pkg \in Area
         /\ stack[i].todo \subseteq Imports(stack[i].pkg)
         /\ phase = "packages" => Below(stack[i].pkg) + i <= Cardinality(Pkgs) + 1

(* What a package imports is compiled, will be, or is being compiled.      *)
Covered(i) ==
  \A q \in Imports(stack[i].pkg) :
    \/ q \in Cached \/ q \in stack[i].todo
    \/ i # Len(stack) /\ q = stack[i + 1].pkg

DepsOK ==
  TidyArea =>
    /\ \A i \in DOMAIN stack :
         /\ stack[i].doing = "deps" => Covered(i)
         /\ stack[i].doing = "files" => Imports(stack[i].pkg) \subseteq Cached
    /\ phase = "lib" => \A p \in Cached : p \notin Imports(p)
    /\ phase = "build" => Imports(Root) \subseteq Cached

(* BuildLib gets through when the library compiles.                        *)
CleanOK ==
  phase = "imports" /\ clean /\ broken \cap Chain(Lib) = {} /\ Tidy(Chain(Lib))
  => Unfinished = {} /\ \A p \in pkg : Imports(p) \subseteq Cached

LEMMA OneFileFacts ==
  ASSUME FilesOK, NEW n \in Nodes, OneFile(n)
  PROVE  /\ Read(n) = DOMAIN files[n] /\ UsedByLast(n) = Imports(n)
         /\ \A i \in DOMAIN files[n] : \A j \in 1 .. i - 1 : files[n][j].kind # "jkv"
<1> DEFINE L == Len(files[n])
<1>1. DOMAIN files[n] = 1 .. L /\ L \in Nat
  BY ImportsInPkgs
<1>2. L # 0
  BY EmptySeq DEF OneFile, FilesOK
<1>3. \A i \in 1 .. L : files[n][i].kind = IF i = L THEN "jkv" ELSE "text"
  BY <1>1 DEF OneFile
<1>4. Read(n) = DOMAIN files[n]
  <2>1. ASSUME NEW i \in 1 .. L, NEW j \in 1 .. i PROVE files[n][j].kind # "dir"
    <3>1. j \in 1 .. L
      BY <1>1, <2>1
    <3> QED
      BY <1>3, <3>1
  <2> QED
    BY <1>1, <2>1 DEF Read
<1>5. Imports(n) = files[n][L].imports
  <2>1. L \in 1 .. L
    BY <1>1, <1>2
  <2>2. \A i \in 1 .. L : i # L => files[n][i].imports = {}
    BY <1>1, <1>3 DEF FilesOK
  <2> QED
    BY <1>1, <2>1, <2>2 DEF Imports
<1>6. Cardinality(Read(n)) = L /\ Read(n) # {}
  <2> HIDE DEF L
  <2>1. Cardinality(1 .. L) = L
    BY <1>1, FS_Interval
  <2>2. L \in 1 .. L
    BY <1>1, <1>2
  <2> QED
    BY <1>1, <1>4, <2>1, <2>2
<1>7. UsedByLast(n) = Imports(n)
  BY <1>5, <1>6 DEF UsedByLast
<1>8. ASSUME NEW i \in DOMAIN files[n], NEW j \in 1 .. i - 1 PROVE files[n][j].kind # "jkv"
  <2>1. j \in 1 .. L /\ j # L
    BY <1>1, <1>8
  <2> QED
    BY <1>3, <2>1
<1> QED
  BY <1>4, <1>7, <1>8

LEMMA BelowFacts ==
  ASSUME FilesOK, NEW n \in Nodes
  PROVE  /\ Below(n) \in Nat /\ Below(n) <= Cardinality(Pkgs) /\ Cardinality(Pkgs) \in Nat
         /\ Imports(n) \subseteq Chain(Imports(n))
         /\ \A p \in Imports(n) : p \notin Chain(Imports(p)) => Below(p) + 1 <= Below(n)
<1>1. Imports(n) \subseteq Pkgs /\ \A p \in Pkgs : Imports(p) \subseteq Pkgs
  BY ImportsInPkgs DEF Nodes
<1>2. PICK S : S = Imports(n)
  OBVIOUS
<1>3. /\ S \subseteq Pkgs /\ S \subseteq Chain(S) /\ Chain(S) \subseteq Pkgs
      /\ \A p \in Chain(S) : Imports(p) \subseteq Chain(S)
  BY <1>1, <1>2, ChainCloses
<1>4. /\ IsFiniteSet(Chain(S)) /\ Cardinality(Chain(S)) \in Nat
      /\ Cardinality(Chain(S)) <= Cardinality(Pkgs) /\ Cardinality(Pkgs) \in Nat
  BY <1>3, BuildAssumption, FS_Subset, FS_CardinalityType
<1>5. ASSUME NEW p \in S, p \notin Chain(Imports(p))
      PROVE  Below(p) + 1 <= Cardinality(Chain(S))
  <2>1. PICK T : T = Imports(p)
    OBVIOUS
  <2>2. T \subseteq Pkgs /\ T \subseteq Chain(S) /\ p \in Chain(S) /\ p \notin Chain(T)
    BY <1>1, <1>3, <1>5, <2>1
  <2>3. Chain(T) \subseteq Chain(S)
    BY <1>3, <2>2, ChainCloses
  <2>4. Chain(T) \subseteq Chain(S) \ {p}
    BY <2>2, <2>3
  <2> DEFINE A == Chain(S)
             B == Chain(T)
  <2>5. IsFiniteSet(A) /\ p \in A /\ B \subseteq A \ {p}
    BY <1>4, <2>2, <2>4
  <2>6. Below(p) = Cardinality(B)
    BY <2>1 DEF Below
  <2> HIDE DEF A, B
  <2>7. /\ IsFiniteSet(A \ {p}) /\ Cardinality(A \ {p}) = Cardinality(A) - 1
    BY <2>5, FS_RemoveElement
  <2>8. Cardinality(B) <= Cardinality(A \ {p}) /\ Cardinality(B) \in Nat
    BY <2>5, <2>7, FS_Subset, FS_CardinalityType
  <2>9. Cardinality(A) \in Nat
    BY <2>5, FS_CardinalityType
  <2>10. Cardinality(B) + 1 <= Cardinality(A)
    BY <2>7, <2>8, <2>9
  <2> QED
    BY <2>6, <2>10 DEF A
<1>6. Below(n) = Cardinality(Chain(S))
  BY <1>2 DEF Below
<1> QED
  BY <1>2, <1>3, <1>4, <1>5, <1>6

LEMMA SameArea ==
  ASSUME files' = files
  PROVE  /\ phase' = phase => Area' = Area /\ (TidyArea' <=> TidyArea)
         /\ phase' # "lib" /\ phase # "lib" => Area' = Area /\ (TidyArea' <=> TidyArea)
         /\ \A n : Below(n)' = Below(n)
         /\ Needed' = Needed /\ (Cyclic' <=> Cyclic) /\ Chain(Lib)' = Chain(Lib)
<1>1. /\ \A n : Imports(n)' = Imports(n) /\ \A S : Chain(S)' = Chain(S)
      /\ \A n : OneFile(n)' = OneFile(n)
  BY SameDirectories
<1>2. \A n : Below(n)' = Below(n)
  BY DEF Below, Chain, Imports
<1>3. Needed' = Needed
  BY DEF Needed, Chain, Imports
<1>4. Cyclic' <=> Cyclic
  BY DEF Cyclic, Needed, Chain, Imports
<1>5. Chain(Lib)' = Chain(Lib)
  BY DEF Chain, Imports
<1>6. (phase' = phase \/ (phase' # "lib" /\ phase # "lib")) => Area' = Area
  BY <1>3, <1>5 DEF Area
<1>7. Area' = Area => (TidyArea' <=> TidyArea)
  BY <1>1 DEF TidyArea, Tidy
<1> QED
  BY <1>2, <1>3, <1>4, <1>5, <1>6, <1>7

LEMMA AreaFacts ==
  ASSUME FilesOK
  PROVE  /\ Area \subseteq Nodes
         /\ \A n \in Area : Imports(n) \subseteq Area /\ (TidyArea => OneFile(n))
         /\ phase = "lib" => Area \subseteq Pkgs
         /\ phase # "lib" => \A n \in Area : Imports(n) \subseteq Needed
  BY NeededInPkgs DEF Area, Nodes, TidyArea, Tidy

LEMMA PathStays ==
  ASSUME BInv, PathOK, files' = files, phase' = phase, stack' # <<>>, stack # <<>>,
         stack'[1].pkg = stack[1].pkg,
         TidyArea =>
           \A i \in DOMAIN stack' :
             \/ /\ i \in DOMAIN stack /\ stack'[i].pkg = stack[i].pkg
                /\ \/ stack'[i].todo \subseteq stack[i].todo
                   \/ stack'[i].todo \subseteq Imports(stack[i].pkg)
             \/ /\ stack'[i].pkg \in Area /\ stack'[i].todo = {}
                /\ phase = "packages" => Below(stack'[i].pkg) + i <= Cardinality(Pkgs) + 1
  PROVE  PathOK'
<1>1. /\ Area' = Area /\ (TidyArea' <=> TidyArea) /\ (Cyclic' <=> Cyclic)
      /\ \A n : Below(n)' = Below(n)
  BY SameArea
<1>2. \A n : Imports(n)' = Imports(n)
  BY SameDirectories
<1>3. ASSUME TidyArea, NEW i \in DOMAIN stack'
      PROVE  /\ stack'[i].pkg \in Area
             /\ stack'[i].todo \subseteq Imports(stack'[i].pkg)
             /\ phase = "packages" => Below(stack'[i].pkg) + i <= Cardinality(Pkgs) + 1
  BY <1>3 DEF PathOK
<1>4. ASSUME TidyArea', NEW i \in DOMAIN stack'
      PROVE  /\ stack'[i].pkg \in Area'
             /\ stack'[i].todo \subseteq Imports(stack[i].pkg)'
             /\ phase' = "packages" =>
                  Below(stack[i].pkg)' + i <= Cardinality(Pkgs) + 1
  <2>1. PICK n : n = stack'[i].pkg
    OBVIOUS
  <2>2. /\ n \in Area /\ stack'[i].todo \subseteq Imports(n)
        /\ phase = "packages" => Below(n) + i <= Cardinality(Pkgs) + 1
    BY <1>1, <1>3, <1>4, <2>1
  <2>3. stack'[i].todo \subseteq Imports(n)'
    BY <1>2, <2>2
  <2>4. stack'[i].todo \subseteq Imports(stack[i].pkg)'
    BY <2>1, <2>3 DEF Imports
  <2>5. Below(stack[i].pkg)' = Below(n)'
    BY <2>1 DEF Below, Chain, Imports
  <2> QED
    BY <1>1, <2>1, <2>2, <2>4, <2>5
<1> QED
  BY <1>1, <1>4 DEF PathOK

LEMMA NoCalls ==
  ASSUME stack' = <<>>, phase' # "packages"
  PROVE  DOMAIN stack' = {} /\ PathOK'
<1>1. <<>> \in Seq(Frame)
  BY EmptySeq
<1>2. DOMAIN stack' = {}
  BY <1>1, EmptySeq, LenProperties
<1> QED
  BY <1>2 DEF PathOK

LEMMA PathStep ==
  ASSUME BInv, BInv', PathOK, [Next]_vars
  PROVE  PathOK'
<1>1. CASE stack' = <<>> /\ phase' # "packages"
  BY <1>1, NoCalls
<1>2. FilesOK
  BY DEF BInv
<1>3. CASE Collect
  <2>1. stack # <<>> /\ files' = files /\ (phase' = "packages" => SameCalls)
    BY <1>3, CollectMoves DEF Fail, End
  <2>2. CASE ~SameCalls
    <3>1. stack' = <<>> /\ phase' # "packages"
      BY <1>3, <2>2, CollectMoves DEF Fail, End
    <3> QED
      BY <1>1, <3>1
  <2>3. CASE SameCalls
    <3>1. /\ Len(stack) \in DOMAIN stack /\ 1 \in DOMAIN stack /\ Top = stack[Len(stack)]
      BY <2>1, TopFacts
    <3>2. \/ Fail
          \/ stack'[Len(stack)].todo = Uncompiled
      BY <1>3, CollectMoves
    <3>3. ~Fail
      BY <2>3 DEF Fail, End, SameCalls
    <3>4. TidyArea => Uncompiled \subseteq Imports(Top.pkg)
      <4>1. used' = UsedByLast(Top.pkg)
        BY <1>3 DEF Collect
      <4>2. TidyArea => OneFile(Top.pkg) /\ Top.pkg \in Nodes
        BY <1>2, <3>1, AreaFacts DEF PathOK
      <4> QED
        BY <1>2, <4>1, <4>2, OneFileFacts DEF Uncompiled
    <3> QED
      BY <2>1, <2>3, <3>1, <3>2, <3>3, <3>4, PathStays DEF SameCalls
  <2> QED
    BY <2>2, <2>3
<1>4. ASSUME NEW p \in Pkgs, Descend(p) PROVE PathOK'
  <2>1. /\ stack # <<>> /\ Top.doing = "deps" /\ p \in Top.todo /\ files' = files
    BY <1>4, DescendMoves
  <2>2. CASE End("overflow")
    BY <1>1, <2>2 DEF End
  <2>3. CASE /\ phase' = phase /\ stack' # <<>>
             /\ DOMAIN stack' = 1 .. (Len(stack) + 1)
             /\ \A i \in DOMAIN stack :
                  stack'[i].pkg = stack[i].pkg /\ (i # Len(stack) => stack'[i] = stack[i])
             /\ stack'[Len(stack)].todo = Top.todo \ {p}
             /\ stack'[Len(stack) + 1] = Call(p)
    <3>1. /\ Len(stack) \in DOMAIN stack /\ 1 \in DOMAIN stack /\ Top = stack[Len(stack)]
          /\ Len(stack) \in Nat /\ DOMAIN stack = 1 .. Len(stack) /\ Top.pkg \in Nodes
      BY <2>1, TopFacts
    <3>2. Call(p).pkg = p /\ Call(p).todo = {}
      BY DEF Call
    <3>3. TidyArea => /\ p \in Area
                      /\ phase = "packages" =>
                           Below(p) + (Len(stack) + 1) <= Cardinality(Pkgs) + 1
      <4> SUFFICES ASSUME TidyArea
                   PROVE  /\ p \in Area
                          /\ phase = "packages" =>
                               Below(p) + (Len(stack) + 1) <= Cardinality(Pkgs) + 1
        OBVIOUS
      <4>1. /\ Top.pkg \in Area /\ p \in Imports(Top.pkg)
            /\ phase = "packages" =>
                 Below(Top.pkg) + Len(stack) <= Cardinality(Pkgs) + 1
        BY <2>1, <3>1 DEF PathOK
      <4>2. p \in Area
        BY <1>2, <4>1, AreaFacts
      <4>3. ASSUME phase = "packages"
            PROVE  Below(p) + (Len(stack) + 1) <= Cardinality(Pkgs) + 1
        <5>1. p \in Needed /\ p \notin Chain(Imports(p))
          BY <1>2, <4>1, <4>3, AreaFacts DEF PathOK, Cyclic
        <5>2. Below(p) + 1 <= Below(Top.pkg)
          BY <1>2, <3>1, <4>1, <5>1, BelowFacts
        <5>3. Below(p) \in Nat /\ Below(Top.pkg) \in Nat /\ Cardinality(Pkgs) \in Nat
          BY <1>2, <3>1, BelowFacts DEF Nodes
        <5> QED
          BY <3>1, <4>1, <4>3, <5>2, <5>3
      <4> QED
        BY <4>2, <4>3
    <3>4. \A i \in DOMAIN stack' : i \in DOMAIN stack \/ i = Len(stack) + 1
      BY <2>3, <3>1
    <3> QED
      BY <2>1, <2>3, <3>1, <3>2, <3>3, <3>4, PathStays
  <2> QED
    BY <1>4, <2>2, <2>3, DescendMoves
<1>5. CASE InitCompile
  <2>1. stack # <<>> /\ files' = files /\ SameCalls /\ 1 \in DOMAIN stack
        /\ Len(stack) \in DOMAIN stack /\ Top = stack[Len(stack)]
    BY <1>5, InitCompileMoves, TopFacts
  <2>2. stack'[Len(stack)].todo = Top.todo
    BY <1>5, <2>1, TopFacts DEF InitCompile, SetTop, Frame
  <2> QED
    BY <2>1, <2>2, PathStays DEF SameCalls
<1>6. CASE CompileEntry
  <2>1. stack # <<>> /\ files' = files /\ 1 \in DOMAIN stack
        /\ Len(stack) \in DOMAIN stack /\ Top = stack[Len(stack)]
    BY <1>6, CompileEntryMoves, TopFacts
  <2>2. CASE SameCalls
    <3>1. stack'[Len(stack)].todo = Top.todo
      BY <1>6, <2>1, <2>2, CompileEntryCases, TopFacts DEF Fail, End, SameCalls, SetTop, Frame
    <3> QED
      BY <2>1, <2>2, <3>1, PathStays DEF SameCalls
  <2>3. CASE ~SameCalls
    <3>1. stack' = <<>> /\ phase' # "packages"
      BY <1>6, <2>3, CompileEntryMoves DEF Fail, End
    <3> QED
      BY <1>1, <3>1
  <2> QED
    BY <2>2, <2>3
<1>7. CASE OutputPkgFile
  <2>1. /\ stack # <<>> /\ files' = files /\ 1 \in DOMAIN stack /\ phase \in {"lib", "packages"}
        /\ Len(stack) \in Nat /\ Len(stack) # 0
    BY <1>7, OutputPkgFileMoves, TopFacts
  <2>2. CASE Len(stack) = 1
    BY <1>1, <1>7, <2>1, <2>2, OutputPkgFileMoves
  <2>3. CASE Len(stack) # 1
    <3>1. 1 \in DOMAIN stack'
      <4>1. \A k \in Nat : k # 0 /\ k # 1 => 1 \in 1 .. (k - 1)
        OBVIOUS
      <4> QED
        BY <1>7, <2>1, <2>3, <4>1, OutputPkgFileMoves
    <3>2. /\ \A i \in DOMAIN stack' : i \in DOMAIN stack /\ stack'[i] = stack[i]
          /\ stack' # <<>> /\ phase' = phase
      BY <1>7, <2>3, OutputPkgFileMoves
    <3> QED
      BY <2>1, <3>1, <3>2, PathStays
  <2> QED
    BY <2>2, <2>3
<1>8. ASSUME NEW p \in Pkgs, BuildLib(p) PROVE PathOK'
  <2>1. phase = "lib" /\ phase' = "lib" /\ stack' = <<Call(p)>> /\ p \in Lib /\ files' = files
    BY <1>8 DEF BuildLib, project, BInv, TypeOK
  <2>2. /\ DOMAIN stack' = {1} /\ stack'[1].pkg = p /\ stack'[1].todo = {}
    BY <2>1, CallFacts DEF Nodes
  <2>3. p \in Area'
    BY <1>2, <2>1, SameArea, NeededInPkgs DEF Area
  <2> QED
    BY <2>1, <2>2, <2>3 DEF PathOK
<1>9. CASE ImportsAccepted
  <2>1. /\ phase = "imports" /\ phase' = "packages" /\ stack' = <<Call(Root)>> /\ files' = files
        /\ ~Cyclic
    BY <1>9 DEF ImportsAccepted, project
  <2>2. /\ DOMAIN stack' = {1} /\ stack'[1].pkg = Root /\ stack'[1].todo = {}
        /\ stack' # <<>>
    BY <2>1, CallFacts DEF Nodes
  <2>3. Root \in Area'
    BY <2>1, SameArea DEF Area
  <2>4. Below(Root)' + 1 <= Cardinality(Pkgs) + 1
    <3>1. Below(Root) \in Nat /\ Below(Root) <= Cardinality(Pkgs) /\ Cardinality(Pkgs) \in Nat
      BY <1>2, BelowFacts DEF Nodes
    <3>2. Below(Root)' = Below(Root)
      BY <2>1, SameArea
    <3> QED
      BY <3>1, <3>2
  <2>5. Below(stack[1].pkg)' = Below(Root)'
    BY <2>2 DEF Below, Chain, Imports
  <2>6. ~Cyclic'
    BY <2>1, SameArea
  <2> QED
    BY <2>1, <2>2, <2>3, <2>4, <2>5, <2>6 DEF PathOK
<1>10. CASE phase \notin {"lib", "packages"} /\ ~ImportsAccepted
  <2>1. stack = <<>>
    BY <1>10 DEF BInv, CallsOK
  <2>2. stack' = <<>> /\ phase' # "packages"
    BY <1>10, <2>1 DEF Next, Edit, Start, Remove, BuildLib, Descend, Removed, BuildLibDone,
       ImportsRejected, Collect, InitCompile, CompileEntry, OutputPkgFile, BuildLink, Kill,
       End, vars, cache
  <2> QED
    BY <1>1, <2>2
<1>11. CASE BuildLibDone
  BY <1>1, <1>11 DEF BuildLibDone
<1>12. CASE UNCHANGED vars
  <2>1. files' = files /\ phase' = phase /\ stack' = stack
    BY <1>12 DEF vars, project
  <2>2. CASE stack = <<>>
    BY <1>1, <2>1, <2>2 DEF PathOK
  <2>3. CASE stack # <<>>
    BY <2>1, <2>3, PathStays
  <2> QED
    BY <2>2, <2>3
<1>13. CASE Kill
  BY <1>1, <1>13 DEF Kill, End
<1> QED
  BY <1>3, <1>4, <1>5, <1>6, <1>7, <1>8, <1>9, <1>10, <1>11, <1>12, <1>13
     DEF Next, Edit, Start, Remove, Removed, ImportsRejected, BuildLink

(* A step that leaves the phase alone and cached packages in the cache.    *)
LEMMA DepsStay ==
  ASSUME BInv, DepsOK, files' = files, phase' = phase, phase # "build",
         Cached \subseteq Cached',
         TidyArea =>
           /\ phase = "lib" => \A p \in Cached' \ Cached : p \notin Imports(p)
           /\ \A i \in DOMAIN stack' :
                /\ stack'[i].doing = "deps" =>
                     \A q \in Imports(stack'[i].pkg) :
                       \/ q \in Cached' \/ q \in stack'[i].todo
                       \/ i # Len(stack') /\ q = stack'[i + 1].pkg
                /\ stack'[i].doing = "files" => Imports(stack'[i].pkg) \subseteq Cached'
  PROVE  DepsOK'
<1>1. TidyArea' <=> TidyArea
  BY SameArea
<1>2. \A n : Imports(n)' = Imports(n)
  BY SameDirectories
<1>3. ASSUME TidyArea', NEW i \in DOMAIN stack'
      PROVE  /\ stack'[i].doing = "deps" => Covered(i)'
             /\ stack'[i].doing = "files" => Imports(stack[i].pkg)' \subseteq Cached'
  <2>1. PICK n : n = stack'[i].pkg
    OBVIOUS
  <2>2. Imports(stack[i].pkg)' = Imports(n)
    BY <2>1 DEF Imports
  <2> QED
    BY <1>1, <1>3, <2>1, <2>2 DEF Covered
<1>4. TidyArea' /\ phase' = "lib" => \A p \in Cached' : p \notin Imports(p)'
  BY <1>1, <1>2 DEF DepsOK
<1> QED
  BY <1>3, <1>4 DEF DepsOK

LEMMA DepsStep ==
  ASSUME BInv, BInv', PathOK, DepsOK, [Next]_vars
  PROVE  DepsOK'
<1>1. FilesOK /\ phase \in Phases
  BY DEF BInv, TypeOK
<1>2. CASE stack' = <<>> /\ phase' \notin {"packages", "lib", "build"}
  <2>1. DOMAIN stack' = {}
    BY <1>2, NoCalls
  <2> QED
    BY <1>2, <2>1 DEF DepsOK
<1>3. CASE Collect
  <2>1. /\ stack # <<>> /\ UNCHANGED <<files, asm>> /\ phase \in {"lib", "packages"}
        /\ Len(stack) \in DOMAIN stack /\ Top = stack[Len(stack)] /\ Top.pkg \in Nodes
        /\ Len(stack) \in Nat /\ DOMAIN stack = 1 .. Len(stack)
    BY <1>3, CollectMoves, TopFacts
  <2>2. CASE Fail
    BY <1>2, <2>1, <2>2 DEF Fail, End
  <2>3. CASE ~Fail
    <3>1. /\ SameCalls /\ stack'[Len(stack)].doing = "deps"
          /\ stack'[Len(stack)].todo = Uncompiled /\ Read(Top.pkg) = DOMAIN files[Top.pkg]
      BY <1>3, <2>3, CollectMoves
    <3>2. Cached' = Cached
      BY <2>1 DEF Cached
    <3>3. TidyArea => \A q \in Imports(Top.pkg) : q \in Cached' \/ q \in Uncompiled
      <4>1. used' = UsedByLast(Top.pkg)
        BY <1>3 DEF Collect
      <4>2. TidyArea => OneFile(Top.pkg)
        BY <1>1, <2>1, AreaFacts DEF PathOK
      <4>3. Imports(Top.pkg) \subseteq known'
        BY <1>1, <1>3, <2>1, <3>1, ReadFacts DEF Collect
      <4>4. compiled' \subseteq Cached'
        BY DEF BInv, CompiledOK
      <4> QED
        BY <1>1, <2>1, <4>1, <4>2, <4>3, <4>4, OneFileFacts DEF Uncompiled
    <3>4. ASSUME TidyArea, NEW i \in DOMAIN stack'
          PROVE  /\ stack'[i].doing = "deps" =>
                      \A q \in Imports(stack'[i].pkg) :
                        \/ q \in Cached' \/ q \in stack'[i].todo
                        \/ i # Len(stack') /\ q = stack'[i + 1].pkg
                 /\ stack'[i].doing = "files" => Imports(stack'[i].pkg) \subseteq Cached'
      <4>1. i \in DOMAIN stack /\ stack'[i].pkg = stack[i].pkg
        BY <3>1 DEF SameCalls
      <4>2. CASE i = Len(stack)
        BY <2>1, <3>1, <3>3, <3>4, <4>1, <4>2
      <4>3. CASE i # Len(stack)
        <5>1. stack'[i] = stack[i] /\ Len(stack') = Len(stack)
          BY <3>1, <4>1, <4>3 DEF SameCalls
        <5>2. i + 1 \in DOMAIN stack /\ stack'[i + 1].pkg = stack[i + 1].pkg
          <6>1. i + 1 \in DOMAIN stack
            BY <2>1, <4>1, <4>3
          <6> QED
            BY <3>1, <6>1 DEF SameCalls
        <5> QED
          BY <3>2, <3>4, <4>1, <5>1, <5>2 DEF DepsOK, Covered
      <4> QED
        BY <4>2, <4>3
    <3> QED
      BY <2>1, <3>1, <3>2, <3>4, DepsStay DEF SameCalls
  <2> QED
    BY <2>2, <2>3
<1>4. ASSUME NEW p \in Pkgs, Descend(p) PROVE DepsOK'
  <2>1. /\ stack # <<>> /\ Top.doing = "deps" /\ p \in Top.todo /\ UNCHANGED <<files, asm>>
        /\ Len(stack) \in DOMAIN stack /\ Top = stack[Len(stack)] /\ Top.pkg \in Nodes
        /\ Len(stack) \in Nat /\ DOMAIN stack = 1 .. Len(stack)
        /\ phase \in {"lib", "packages"}
    BY <1>4, DescendMoves, TopFacts
  <2>2. CASE End("overflow")
    BY <1>2, <2>2 DEF End
  <2>3. CASE /\ phase' = phase /\ stack' # <<>> /\ Len(stack') = Len(stack) + 1
             /\ DOMAIN stack' = 1 .. (Len(stack) + 1)
             /\ \A i \in DOMAIN stack :
                  stack'[i].pkg = stack[i].pkg /\ (i # Len(stack) => stack'[i] = stack[i])
             /\ stack'[Len(stack)].doing = "deps"
             /\ stack'[Len(stack)].todo = Top.todo \ {p}
             /\ stack'[Len(stack) + 1] = Call(p)
    <3>1. Cached' = Cached /\ Call(p).pkg = p /\ Call(p).doing = "collect"
      BY <2>1 DEF Cached, Call
    <3>2. ASSUME TidyArea, NEW i \in DOMAIN stack'
          PROVE  /\ stack'[i].doing = "deps" =>
                      \A q \in Imports(stack'[i].pkg) :
                        \/ q \in Cached' \/ q \in stack'[i].todo
                        \/ i # Len(stack') /\ q = stack'[i + 1].pkg
                 /\ stack'[i].doing = "files" => Imports(stack'[i].pkg) \subseteq Cached'
      <4>1. CASE i = Len(stack) + 1
        BY <2>3, <3>1, <4>1
      <4>2. CASE i = Len(stack)
        <5>1. /\ stack'[i].pkg = Top.pkg /\ stack'[i].doing = "deps"
              /\ stack'[i].todo = Top.todo \ {p} /\ i # Len(stack') /\ stack'[i + 1].pkg = p
          BY <2>1, <2>3, <3>1, <4>2
        <5>2. \A q \in Imports(Top.pkg) : q \in Cached \/ q \in Top.todo
          BY <2>1, <3>2 DEF DepsOK, Covered
        <5> QED
          BY <3>1, <5>1, <5>2
      <4>3. CASE i \in DOMAIN stack /\ i # Len(stack)
        <5>1. stack'[i] = stack[i] /\ i # Len(stack')
          BY <2>1, <2>3, <4>3
        <5>2. i + 1 \in DOMAIN stack /\ stack'[i + 1].pkg = stack[i + 1].pkg
          <6>1. i + 1 \in DOMAIN stack
            BY <2>1, <4>3
          <6> QED
            BY <2>3, <6>1
        <5> QED
          BY <3>1, <3>2, <4>3, <5>1, <5>2 DEF DepsOK, Covered
      <4> QED
        BY <2>1, <2>3, <4>1, <4>2, <4>3
    <3> QED
      BY <2>1, <2>3, <3>1, <3>2, DepsStay
  <2> QED
    BY <1>4, <2>2, <2>3, DescendMoves
<1>5. CASE InitCompile
  <2>1. /\ stack # <<>> /\ Top.doing = "deps" /\ Top.todo = {} /\ files' = files
        /\ Cached' = Cached \cup ({Top.pkg} \ {Root})
        /\ SameCalls /\ stack'[Len(stack)].doing = "files"
        /\ Len(stack) \in DOMAIN stack /\ Top = stack[Len(stack)] /\ Top.pkg \in Nodes
        /\ Len(stack) \in Nat /\ DOMAIN stack = 1 .. Len(stack)
        /\ phase \in {"lib", "packages"}
    BY <1>5, InitCompileMoves, TopFacts
  <2>2. TidyArea => Imports(Top.pkg) \subseteq Cached
    BY <2>1 DEF DepsOK, Covered
  <2>3. TidyArea /\ phase = "lib" => \A p \in Cached' \ Cached : p \notin Imports(p)
    BY <2>1, <2>2
  <2>4. ASSUME TidyArea, NEW i \in DOMAIN stack'
        PROVE  /\ stack'[i].doing = "deps" =>
                    \A q \in Imports(stack'[i].pkg) :
                      \/ q \in Cached' \/ q \in stack'[i].todo
                      \/ i # Len(stack') /\ q = stack'[i + 1].pkg
               /\ stack'[i].doing = "files" => Imports(stack'[i].pkg) \subseteq Cached'
    <3>1. i \in DOMAIN stack /\ stack'[i].pkg = stack[i].pkg
      BY <2>1 DEF SameCalls
    <3>2. CASE i = Len(stack)
      BY <2>1, <2>2, <2>4, <3>1, <3>2
    <3>3. CASE i # Len(stack)
      <4>1. stack'[i] = stack[i] /\ Len(stack') = Len(stack)
        BY <2>1, <3>1, <3>3 DEF SameCalls
      <4>2. i + 1 \in DOMAIN stack /\ stack'[i + 1].pkg = stack[i + 1].pkg
        <5>1. i + 1 \in DOMAIN stack
          BY <2>1, <3>1, <3>3
        <5> QED
          BY <2>1, <5>1 DEF SameCalls
      <4> QED
        BY <2>1, <2>4, <3>1, <4>1, <4>2 DEF DepsOK, Covered
    <3> QED
      BY <3>2, <3>3
  <2> QED
    BY <2>1, <2>3, <2>4, DepsStay DEF SameCalls
<1>6. CASE CompileEntry
  <2>1. /\ stack # <<>> /\ Top.doing = "files" /\ files' = files /\ Cached' = Cached
        /\ Len(stack) \in DOMAIN stack /\ Top = stack[Len(stack)] /\ Top.pkg \in Nodes
        /\ Len(stack) \in Nat /\ DOMAIN stack = 1 .. Len(stack)
        /\ phase \in {"lib", "packages"}
    BY <1>6, CompileEntryMoves, TopFacts
  <2>2. CASE Fail \/ End("panic")
    BY <1>2, <2>1, <2>2 DEF Fail, End
  <2>3. CASE SameCalls /\ stack'[Len(stack)].doing = "files"
    <3>1. ASSUME TidyArea, NEW i \in DOMAIN stack'
          PROVE  /\ stack'[i].doing = "deps" =>
                      \A q \in Imports(stack'[i].pkg) :
                        \/ q \in Cached' \/ q \in stack'[i].todo
                        \/ i # Len(stack') /\ q = stack'[i + 1].pkg
                 /\ stack'[i].doing = "files" => Imports(stack'[i].pkg) \subseteq Cached'
      <4>1. i \in DOMAIN stack /\ stack'[i].pkg = stack[i].pkg /\ Len(stack') = Len(stack)
        BY <2>3 DEF SameCalls
      <4>2. CASE i = Len(stack)
        BY <2>1, <2>3, <3>1, <4>1, <4>2 DEF DepsOK
      <4>3. CASE i # Len(stack)
        <5>1. stack'[i] = stack[i]
          BY <2>3, <4>1, <4>3 DEF SameCalls
        <5>2. i + 1 \in DOMAIN stack /\ stack'[i + 1].pkg = stack[i + 1].pkg
          <6>1. i + 1 \in DOMAIN stack
            BY <2>1, <4>1, <4>3
          <6> QED
            BY <2>3, <6>1 DEF SameCalls
        <5> QED
          BY <2>1, <3>1, <4>1, <5>1, <5>2 DEF DepsOK, Covered
      <4> QED
        BY <4>2, <4>3
    <3> QED
      BY <2>1, <2>3, <3>1, DepsStay DEF SameCalls
  <2> QED
    BY <1>6, <2>2, <2>3, CompileEntryMoves
<1>7. CASE OutputPkgFile
  <2>1. /\ stack # <<>> /\ Top.doing = "files" /\ files' = files /\ Cached' = Cached
        /\ Len(stack') = Len(stack) - 1 /\ DOMAIN stack' = 1 .. (Len(stack) - 1)
        /\ \A i \in DOMAIN stack' :
             /\ i \in DOMAIN stack /\ i < Len(stack) /\ stack'[i] = stack[i]
             /\ stack'[i].doing = "deps"
        /\ phase' = (IF Len(stack) = 1 /\ phase = "packages" THEN "build" ELSE phase)
        /\ Len(stack) \in DOMAIN stack /\ Top = stack[Len(stack)] /\ Top.pkg \in Nodes
        /\ Len(stack) \in Nat /\ Len(stack) # 0 /\ DOMAIN stack = 1 .. Len(stack)
        /\ phase \in {"lib", "packages"} /\ Top.pkg \in Cached \cup {Root}
    BY <1>7, OutputPkgFileMoves, TopFacts DEF FrameOK
  <2>2. CASE phase' = phase
    <3>1. ASSUME TidyArea, NEW i \in DOMAIN stack', NEW q \in Imports(stack'[i].pkg)
          PROVE  \/ q \in Cached' \/ q \in stack'[i].todo
                 \/ i # Len(stack') /\ q = stack'[i + 1].pkg
      <4>1. i \in DOMAIN stack /\ stack'[i] = stack[i] /\ stack[i].doing = "deps"
        BY <2>1
      <4>2. q \in Cached \/ q \in stack[i].todo \/ (i # Len(stack) /\ q = stack[i + 1].pkg)
        BY <3>1, <4>1 DEF DepsOK, Covered
      <4>3. CASE i = Len(stack')
        <5>1. i + 1 = Len(stack)
          BY <2>1, <4>3
        <5>2. q \in Pkgs
          <6>1. stack[i] \in Frame
            BY <4>1, StackFacts DEF BInv, TypeOK
          <6>2. stack[i].pkg \in Nodes
            BY <6>1 DEF Frame
          <6> QED
            BY <1>1, <3>1, <4>1, <6>2, ImportsInPkgs
        <5> QED
          BY <2>1, <4>1, <4>2, <5>1, <5>2, BuildAssumption
      <4>4. CASE i # Len(stack')
        <5>1. i + 1 \in DOMAIN stack'
          BY <2>1, <4>4
        <5> QED
          BY <2>1, <4>1, <4>2, <4>4, <5>1
      <4> QED
        BY <4>3, <4>4
    <3> QED
      BY <2>1, <2>2, <3>1, DepsStay
  <2>3. CASE phase' # phase
    <3>1. Len(stack) = 1 /\ phase = "packages" /\ phase' = "build"
      BY <2>1, <2>3
    <3>2. DOMAIN stack' = {} /\ Top.pkg = Root
      BY <2>1, <3>1 DEF PathOK
    <3>3. TidyArea' <=> TidyArea
      BY <2>1, <3>1, SameArea
    <3>4. TidyArea => Imports(Root) \subseteq Cached
      BY <2>1, <3>2 DEF DepsOK
    <3>5. Imports(Root)' = Imports(Root)
      BY <2>1, SameDirectories
    <3> QED
      BY <2>1, <3>1, <3>2, <3>3, <3>4, <3>5 DEF DepsOK
  <2> QED
    BY <2>2, <2>3
<1>8. ASSUME NEW p \in Pkgs, BuildLib(p) PROVE DepsOK'
  <2>1. /\ phase = "lib" /\ phase' = phase /\ stack' = <<Call(p)>> /\ UNCHANGED <<files, asm>>
    BY <1>8 DEF BuildLib, project, cache
  <2>2. DOMAIN stack' = {1} /\ stack'[1].doing = "collect" /\ Cached' = Cached
    BY <2>1, CallFacts DEF Nodes, Cached
  <2> QED
    BY <2>1, <2>2, DepsStay
<1>9. CASE ImportsAccepted
  <2>1. phase' = "packages" /\ stack' = <<Call(Root)>>
    BY <1>9 DEF ImportsAccepted
  <2>2. DOMAIN stack' = {1} /\ stack'[1].doing = "collect"
    BY <2>1, CallFacts DEF Nodes
  <2> QED
    BY <2>1, <2>2 DEF DepsOK
<1>10. CASE Removed
  <2>1. phase' = "lib" /\ stack' = stack /\ stack = <<>> /\ Cached' = {}
    BY <1>10 DEF Removed, AllIsGone, cache, Cached, BInv, CallsOK
  <2>2. DOMAIN stack = {}
    BY <2>1, StackFacts DEF BInv, TypeOK
  <2> QED
    BY <2>1, <2>2 DEF DepsOK
<1>11. CASE UNCHANGED vars
  <2>1. UNCHANGED <<files, asm, stack, phase>>
    BY <1>11 DEF vars, project, cache
  <2>2. /\ TidyArea' <=> TidyArea
        /\ \A n : Imports(n)' = Imports(n)
        /\ Cached' = Cached
    BY <2>1, SameArea, SameDirectories DEF Cached
  <2>3. \A i : Covered(i)' <=> Covered(i)
    BY <2>1, <2>2 DEF Covered, Imports
  <2> QED
    BY <2>1, <2>2, <2>3 DEF DepsOK, Imports
<1>12. CASE \/ \E n \in Nodes : Edit(n)
            \/ \E c \in BOOLEAN : Start(c)
            \/ \E p \in Pkgs : Remove(p)
            \/ BuildLibDone \/ ImportsRejected \/ BuildLink \/ Kill
  <2>1. stack = <<>> \/ Kill
    BY <1>12 DEF BInv, CallsOK, Edit, Start, Remove, BuildLibDone, ImportsRejected, BuildLink
  <2>2. stack' = <<>> /\ phase' \notin {"packages", "lib", "build"}
    BY <1>12, <2>1 DEF Edit, Start, Remove, BuildLibDone, ImportsRejected, BuildLink, Kill,
       End, cache
  <2> QED
    BY <1>2, <2>2
<1> QED
  BY <1>3, <1>4, <1>5, <1>6, <1>7, <1>8, <1>9, <1>10, <1>11, <1>12 DEF Next

-----------------------------------------------------------------------------
(* What the invariants are for: behind the calls for its imports, a        *)
(* package finds them finished.                                            *)

LEMMA ImportsDone ==
  ASSUME BInv, FinishedOK, PathOK, DepsOK, TidyArea, Careful,
         stack # <<>>, Top.doing = "files"
  PROVE  /\ Imports(Top.pkg) \subseteq pkg /\ \A q \in Imports(Top.pkg) : asm[q] = "full"
         /\ Top.pkg \in Area
<1>1. /\ FilesOK /\ TypeOK /\ Len(stack) \in DOMAIN stack /\ Top = stack[Len(stack)]
      /\ Top.pkg \in Nodes /\ phase \in {"lib", "packages"}
      /\ Top.pkg \in Cached \cup {Root}
  BY TopFacts DEF FrameOK
<1>2. Top.pkg \in Area /\ Imports(Top.pkg) \subseteq Cached
  BY <1>1 DEF PathOK, DepsOK
<1>3. Top.pkg \notin Imports(Top.pkg)
  <2>1. Imports(Top.pkg) \subseteq Pkgs
    BY <1>1, ImportsInPkgs
  <2>2. CASE Top.pkg = Root
    BY <2>1, <2>2, BuildAssumption
  <2>3. CASE Top.pkg # Root /\ phase = "lib"
    BY <1>1, <2>3 DEF DepsOK
  <2>4. CASE Top.pkg # Root /\ phase = "packages"
    <3>1. Top.pkg \in Needed
      BY <1>2, <2>4 DEF Area
    <3>2. Top.pkg \notin Chain(Imports(Top.pkg))
      BY <2>4, <3>1 DEF PathOK, Cyclic
    <3> QED
      BY <1>1, <3>2, BelowFacts
  <2> QED
    BY <1>1, <2>2, <2>3, <2>4
<1>4. Unfinished \subseteq {Top.pkg}
  BY <1>1 DEF FinishedOK, Working
<1> QED
  BY <1>1, <1>2, <1>3, <1>4 DEF Unfinished, TypeOK, Cached

LEMMA CleanStep ==
  ASSUME BInv, FinishedOK, PathOK, DepsOK, CleanOK, [Next]_vars
  PROVE  CleanOK'
<1> SUFFICES ASSUME phase' = "imports", clean', broken' \cap Chain(Lib)' = {},
                    Tidy(Chain(Lib))'
             PROVE  Unfinished' = {} /\ \A p \in pkg' : Imports(p)' \subseteq Cached'
  BY DEF CleanOK
<1>1. CASE UNCHANGED <<files, broken, asm, pkg, phase, clean>>
  <2>1. /\ Chain(Lib)' = Chain(Lib) /\ Cached' = Cached /\ Unfinished' = Unfinished
        /\ \A n : Imports(n)' = Imports(n)
    BY <1>1, SameArea, SameDirectories DEF Cached, Unfinished
  <2>2. Tidy(Chain(Lib))
    BY <1>1, <2>1, SameDirectories DEF Tidy
  <2> QED
    BY <1>1, <2>1, <2>2 DEF CleanOK
<1>2. CASE phase = "lib" /\ Working = {} /\ UNCHANGED <<files, asm, pkg>>
  <2>1. Unfinished = {} /\ \A p \in pkg : Imports(p) \subseteq Cached
    BY <1>2 DEF FinishedOK, Careful
  <2>2. Unfinished' = Unfinished /\ Cached' = Cached /\ \A n : Imports(n)' = Imports(n)
    BY <1>2, SameDirectories DEF Cached, Unfinished
  <2> QED
    BY <1>2, <2>1, <2>2
<1>3. CASE BuildLibDone
  BY <1>2, <1>3 DEF BuildLibDone, Working, project, cache
<1>4. ASSUME phase = "lib", UNCHANGED <<files, broken>>
      PROVE  TidyArea /\ broken \cap Area = {}
  <2>1. Area = Chain(Lib) /\ Chain(Lib)' = Chain(Lib) /\ \A n : OneFile(n)' = OneFile(n)
    BY <1>4, SameArea, SameDirectories DEF Area
  <2> QED
    BY <1>4, <2>1 DEF TidyArea, Tidy
<1>5. CASE Collect
  <2>1. /\ stack # <<>> /\ phase \in {"lib", "packages"} /\ UNCHANGED <<files, broken>>
        /\ Top.pkg \in Nodes /\ FilesOK
        /\ Len(stack) \in DOMAIN stack /\ Top = stack[Len(stack)]
    BY <1>5, CollectMoves, TopFacts
  <2>2. phase = "lib" /\ Read(Top.pkg) # DOMAIN files[Top.pkg]
    BY <1>5, <2>1, CollectMoves DEF Fail, End, SameCalls
  <2>3. OneFile(Top.pkg)
    BY <1>4, <2>1, <2>2, AreaFacts DEF PathOK
  <2> QED
    BY <2>1, <2>2, <2>3, OneFileFacts
<1>6. CASE CompileEntry
  <2>1. /\ stack # <<>> /\ phase \in {"lib", "packages"} /\ UNCHANGED <<files, broken>>
        /\ Top.doing = "files" /\ Entry.imports \subseteq Imports(Top.pkg)
    BY <1>6, CompileEntryMoves, TopFacts
  <2>2. phase = "lib" /\ (~(Entry.imports \subseteq pkg) \/ Top.pkg \in broken)
    BY <1>6, <2>1, CompileEntryMoves DEF Fail, End, SameCalls
  <2>3. Imports(Top.pkg) \subseteq pkg /\ Top.pkg \in Area
    BY <1>4, <2>1, <2>2, ImportsDone DEF Careful
  <2> QED
    BY <1>4, <2>1, <2>2, <2>3
<1>7. CASE UNCHANGED vars
  BY <1>1, <1>7 DEF vars, project, cache, run
<1>8. ASSUME NEW c \in BOOLEAN, Start(c) PROVE FALSE
  BY <1>8 DEF Start
<1>9. ASSUME NEW p \in Pkgs, Descend(p) PROVE FALSE
  BY <1>9, DescendMoves, TopFacts DEF End
<1>10. ASSUME InitCompile \/ OutputPkgFile PROVE FALSE
  BY <1>10, InitCompileMoves, OutputPkgFileMoves, TopFacts DEF SameCalls
<1> QED
  BY <1>3, <1>5, <1>6, <1>7, <1>8, <1>9, <1>10
     DEF Next, Edit, Remove, BuildLib, Removed, ImportsAccepted, ImportsRejected, BuildLink,
         Kill, End

SInv == BInv /\ ReadyOK /\ FinishedOK /\ PathOK /\ DepsOK /\ CleanOK

LEMMA InitIsSound == Init => SInv
<1> SUFFICES ASSUME Init PROVE SInv
  OBVIOUS
<1>1. stack = <<>> /\ phase = "idle"
  BY DEF Init, InitFor
<1>2. BInv /\ ReadyOK /\ FinishedOK
  BY InitIsBasic, InitFinished
<1>3. DOMAIN stack = {}
  BY <1>1, <1>2, StackFacts DEF BInv, TypeOK
<1> QED
  BY <1>1, <1>2, <1>3 DEF SInv, PathOK, DepsOK, CleanOK

LEMMA Sound == Spec => []SInv
<1>1. SInv /\ [Next]_vars => SInv'
  BY NextIsBasic, ReadyStep, FinishedStep, PathStep, DepsStep, CleanStep DEF SInv
<1> QED
  BY <1>1, InitIsSound, PTL DEF Spec

(* From a sound cache, one-file directories are compiled against finished  *)
(* packages only.                                                          *)
THEOREM ImportsComeFirst == Spec => []SoundImportsReady
<1>1. SInv => SoundImportsReady
  <2> SUFFICES ASSUME SInv, sound, Tidy(Needed \cup {Root}), NEW i \in DOMAIN stack,
                      stack[i].doing = "files", phase = "packages",
                      NEW q \in Imports(stack[i].pkg)
               PROVE  asm[q] = "full" /\ q \in pkg
    BY DEF SoundImportsReady, ImportsReady
  <2>1. BInv /\ FinishedOK /\ PathOK /\ DepsOK /\ Careful /\ stack # <<>>
    BY DEF SInv, Careful, PathOK
  <2>2. i = Len(stack) /\ Top = stack[i]
    BY <2>1 DEF BInv, CallsOK, Top
  <2>3. TidyArea
    BY DEF TidyArea, Area
  <2> QED
    BY <2>1, <2>2, <2>3, ImportsDone
<1> QED
  BY <1>1, Sound, PTL

(* -clean makes the cache sound, whatever was left in it, when the library *)
(* compiles.                                                               *)
THEOREM CleanRecovers == Spec => []CleanIsSound
<1>1. SInv => CleanIsSound
  BY DEF SInv, CleanOK, CleanIsSound, SoundCache, Unfinished, Cached, BInv, TypeOK
<1> QED
  BY <1>1, Sound, PTL

-----------------------------------------------------------------------------
LEMMA NeededIsThere ==
  ASSUME SInv, sound, Tidy(Needed \cup {Root}), phase = "build"
  PROVE  Needed \subseteq Cached /\ Unfinished = {}
<1>1. /\ FilesOK /\ stack = <<>> /\ Careful /\ TidyArea
  BY DEF SInv, BInv, CallsOK, Careful, TidyArea, Area
<1>2. Unfinished = {} /\ \A p \in pkg : Imports(p) \subseteq Cached
  BY <1>1 DEF SInv, FinishedOK, Working
<1>3. Imports(Root) \subseteq Cached
  BY <1>1 DEF SInv, DepsOK
<1>4. \A p \in Cached \cap Pkgs : Imports(p) \subseteq Cached
  BY <1>2 DEF Unfinished
<1>5. PICK S : S = Imports(Root)
  OBVIOUS
<1>6. S \subseteq Pkgs
  BY <1>1, <1>5, ImportsInPkgs DEF Nodes
<1>7. Chain(S) \subseteq Cached
  BY <1>1, <1>3, <1>4, <1>5, <1>6, ChainCloses
<1> QED
  BY <1>2, <1>5, <1>7 DEF Needed

(* From a sound cache, a project that compiles is rejected by the import   *)
(* phase or built.  The stack has to take a call per package.              *)
THEOREM GoodProjectsLink ==
  ASSUME MaxCalls > Cardinality(Pkgs)
  PROVE  Spec => []GoodBuildsLink
<1> DEFINE Bad == {"error", "panic", "overflow"}
           Good == /\ broken = {} /\ Tidy(Needed \cup {Root})
                   /\ ~ \E p \in Pkgs, q \in Pkgs : Clash(p, q)
                   /\ \A p \in Pkgs : short[p] \notin {Root, Sys}
<1>1. Init => GoodBuildsLink
  BY DEF Init, InitFor, GoodBuildsLink
<1>2. ASSUME SInv, GoodBuildsLink, [Next]_vars PROVE GoodBuildsLink'
  <2> SUFFICES ASSUME sound', Good', status' \in Bad PROVE FALSE
    BY DEF GoodBuildsLink
  <2>1. BInv /\ FinishedOK /\ PathOK /\ DepsOK /\ FilesOK
    BY <1>2 DEF SInv, BInv
  <2>2. ASSUME UNCHANGED <<files, short, broken>> PROVE Good
    <3>1. Needed' = Needed /\ (\A n : OneFile(n)' = OneFile(n))
      BY <2>2, SameArea, SameDirectories
    <3>2. \A p, q : Clash(p, q)' <=> Clash(p, q)
      BY <2>2 DEF Clash
    <3> QED
      BY <2>2, <3>1, <3>2 DEF Tidy
  <2>3. CASE UNCHANGED <<files, short, broken, sound, status>>
    BY <1>2, <2>2, <2>3 DEF GoodBuildsLink
  <2>4. ASSUME sound, Good, phase = "packages" PROVE TidyArea /\ Careful
    BY <2>4 DEF TidyArea, Area, Careful
  <2>5. sound => phase \in {"packages", "build", "idle"}
    BY <2>1 DEF FinishedOK
  <2>6. CASE Collect
    <3>1. /\ stack # <<>> /\ UNCHANGED <<files, short, broken, sound>>
          /\ phase \in {"lib", "packages"} /\ Top.pkg \in Nodes
          /\ Len(stack) \in DOMAIN stack /\ Top = stack[Len(stack)]
      BY <2>1, <2>6, CollectMoves, TopFacts
    <3>2. CASE status' = status
      BY <2>3, <3>1, <3>2
    <3>3. CASE Read(Top.pkg) # DOMAIN files[Top.pkg]
      <4>1. TidyArea
        BY <2>2, <2>4, <2>5, <3>1
      <4>2. OneFile(Top.pkg)
        BY <2>1, <3>1, <4>1, AreaFacts DEF PathOK
      <4> QED
        BY <2>1, <3>1, <3>3, <4>2, OneFileFacts
    <3> QED
      BY <2>1, <2>6, <3>2, <3>3, CollectMoves DEF SameCalls
  <2>7. ASSUME NEW p \in Pkgs, Descend(p) PROVE FALSE
    <3>1. /\ stack # <<>> /\ UNCHANGED <<files, short, broken, sound>> /\ p \in Top.todo
          /\ phase \in {"lib", "packages"} /\ Top.pkg \in Nodes
          /\ Len(stack) \in DOMAIN stack /\ Top = stack[Len(stack)] /\ Len(stack) \in Nat
      BY <2>1, <2>7, DescendMoves, TopFacts
    <3>2. CASE status' = status
      BY <2>3, <3>1, <3>2
    <3>3. CASE Len(stack) = MaxCalls
      <4>1. TidyArea /\ phase = "packages"
        BY <2>2, <2>4, <2>5, <3>1
      <4>2. /\ p \in Imports(Top.pkg) /\ Top.pkg \in Area
            /\ Below(Top.pkg) + Len(stack) <= Cardinality(Pkgs) + 1
        BY <2>1, <3>1, <4>1 DEF PathOK
      <4>3. p \in Needed /\ p \notin Chain(Imports(p))
        BY <2>1, <4>1, <4>2, AreaFacts DEF PathOK, Cyclic
      <4>4. /\ Below(p) + 1 <= Below(Top.pkg) /\ Below(p) \in Nat /\ Below(Top.pkg) \in Nat
            /\ Cardinality(Pkgs) \in Nat
        BY <2>1, <3>1, <4>2, <4>3, BelowFacts DEF Nodes
      <4>5. MaxCalls \in Nat
        BY BuildAssumption
      <4> QED
        BY <3>1, <3>3, <4>2, <4>4, <4>5
    <3> QED
      BY <2>1, <2>7, <3>2, <3>3, DescendMoves
  <2>8. CASE CompileEntry
    <3>1. /\ stack # <<>> /\ UNCHANGED <<files, short, broken, sound>>
          /\ phase \in {"lib", "packages"} /\ Top.pkg \in Nodes /\ Top.doing = "files"
          /\ Entry.imports \subseteq Imports(Top.pkg)
          /\ Top.next \in DOMAIN files[Top.pkg]
      BY <2>1, <2>8, CompileEntryMoves, TopFacts
    <3>2. CASE status' = status
      BY <2>3, <3>1, <3>2
    <3>3. CASE \/ ~(Entry.imports \subseteq pkg) \/ Top.pkg \in broken \/ EarlierFile
      <4>1. TidyArea /\ Careful /\ broken = {}
        BY <2>2, <2>4, <2>5, <3>1
      <4>2. Imports(Top.pkg) \subseteq pkg /\ Top.pkg \in Area
        BY <2>1, <3>1, <4>1, ImportsDone
      <4>3. OneFile(Top.pkg)
        BY <2>1, <4>1, <4>2, AreaFacts
      <4>4. ~EarlierFile
        BY <2>1, <3>1, <4>3, OneFileFacts DEF EarlierFile
      <4> QED
        BY <3>1, <3>3, <4>1, <4>2, <4>4
    <3> QED
      BY <2>1, <2>8, <3>2, <3>3, CompileEntryMoves DEF SameCalls
  <2>9. CASE BuildLink
    <3>1. /\ phase = "build" /\ UNCHANGED <<files, short, broken, asm, pkg, sound>>
          /\ \/ status' = "ok"
             \/ MayNotLink
      BY <2>9 DEF BuildLink, End, project, cache, run
    <3>2. Good /\ sound
      BY <2>2, <3>1
    <3>3. Needed \subseteq Cached /\ Unfinished = {}
      BY <1>2, <3>1, <3>2, NeededIsThere
    <3>4. Cached \subseteq Pkgs
      BY DEF Cached
    <3> QED
      BY <3>1, <3>2, <3>3, <3>4 DEF MayNotLink, HidesSys, HiddenByMain, Unfinished
  <2>10. ASSUME NEW n \in Nodes, Edit(n) PROVE FALSE
    BY <2>10 DEF Edit
  <2>11. ASSUME NEW c \in BOOLEAN, Start(c) PROVE FALSE
    BY <2>11 DEF Start
  <2>12. CASE ImportsAccepted
    BY <2>1, <2>12 DEF ImportsAccepted, BInv, TypeOK
  <2>13. CASE ImportsRejected \/ Kill
    BY <2>13 DEF ImportsRejected, Kill, End
  <2>14. CASE InitCompile \/ OutputPkgFile
    BY <2>1, <2>3, <2>14, InitCompileMoves, OutputPkgFileMoves DEF SameCalls
  <2>15. CASE \/ \E p \in Pkgs : Remove(p) \/ BuildLib(p)
              \/ Removed \/ BuildLibDone \/ UNCHANGED vars
    BY <2>3, <2>15 DEF Remove, BuildLib, Removed, BuildLibDone, vars, project, run
  <2> QED
    BY <1>2, <2>6, <2>7, <2>8, <2>9, <2>10, <2>11, <2>12, <2>13, <2>14, <2>15 DEF Next
<1> QED
  BY <1>1, <1>2, Sound, PTL DEF Spec

=============================================================================
