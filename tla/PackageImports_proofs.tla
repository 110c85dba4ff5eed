------------------------- MODULE PackageImports_proofs -------------------------
(***************************************************************************)
(* The level test of AddPackage is complete, for any number of packages:   *)
(* in an accepted project every import leads to a strictly deeper level,   *)
(* so that the levels order the packages for compilation.  From this, an   *)
(* accepted project has recorded exactly the packages it needs and has no  *)
(* import cycle.  And the test is right about the projects whose packages  *)
(* are each at one depth: none of these is rejected as circular.           *)
(*                                                                         *)
(* The invariant says where an edge that has not been tested yet is still  *)
(* to be found: its package waits for a visit in the call that recorded    *)
(* it, or is being read by the call one level deeper.  Chains of imports   *)
(* are reached by recursion on numbers, of which Inductions.WidenCloses    *)
(* says that it gives the least closed set.                                *)
(***************************************************************************)
EXTENDS PackageImports, Inductions, SequenceTheorems

Waiting(u) ==
  /\ u \in Pkgs /\ level[u] <= Len(stack)
  /\ stack[level[u]].reading \/ u \in stack[level[u]].todo

Reading(u) ==
  /\ Level(u) + 1 <= Len(stack)
  /\ LET call == stack[Level(u) + 1]
     IN  /\ call.pkg = u /\ call.reading
         /\ \A v \in imports[u] \ call.unread : level[v] > Level(u)

Tested(u) == \A v \in imports[u] : level[v] > Level(u)

IInv ==
  /\ TypeOK
  /\ outcome \in {"running", "ok"} =>
       \A u \in Collected : Waiting(u) \/ Reading(u) \/ Tested(u)
  /\ outcome = "ok" => stack = <<>>

-----------------------------------------------------------------------------
(* The newest call changed in place, and a call added or removed.          *)
LEMMA ReplaceTop ==
  ASSUME NEW S, NEW s \in Seq(S), s # <<>>, NEW e \in S
  PROVE  /\ [s EXCEPT ![Len(s)] = e] \in Seq(S)
         /\ Len([s EXCEPT ![Len(s)] = e]) = Len(s)
         /\ \A i \in 1 .. Len(s) :
              [s EXCEPT ![Len(s)] = e][i] = IF i = Len(s) THEN e ELSE s[i]
<1>1. Len(s) \in 1 .. Len(s)
  BY EmptySeq, LenProperties
<1> QED
  BY <1>1, ExceptSeq, LenProperties

LEMMA TopInFrame ==
  ASSUME TypeOK, stack # <<>>
  PROVE  /\ Depth \in Nat \ {0}
         /\ Top \in Frame
         /\ \A i \in 1 .. Depth : stack[i] \in Frame
  BY EmptySeq, LenProperties, ElementOfSeq DEF TypeOK, Depth, Top

LEMMA CallInFrame == ASSUME TypeOK, NEW p \in Nodes PROVE Call(p) \in Frame
  BY DEF TypeOK, Call, Frame

(* Type correctness of one step.                                           *)
LEMMA TypeOKStep == TypeOK /\ [Next]_vars => TypeOK'
<1> SUFFICES ASSUME TypeOK, [Next]_vars PROVE TypeOK'
  OBVIOUS
<1>1. ASSUME NEW q \in Pkgs, AddPackage(q) PROVE TypeOK'
  <2>1. stack # <<>> /\ Top \in Frame /\ Depth \in Nat
    BY <1>1, TopInFrame DEF AddPackage, TypeOK
  <2>2. [Top EXCEPT !.unread = @ \ {q}] \in Frame
    BY <2>1 DEF Frame
  <2>3. stack' = [stack EXCEPT ![Len(stack)] = [Top EXCEPT !.unread = @ \ {q}]]
    BY <1>1 DEF AddPackage, Top, Depth
  <2>4. stack' \in Seq(Frame) /\ stack' # <<>>
    BY <2>1, <2>2, <2>3, ReplaceTop, EmptySeq, LenProperties DEF TypeOK
  <2>5. level' \in [Pkgs -> Nat]
    BY <1>1, <2>1 DEF AddPackage, TypeOK
  <2>6. outcome' \in Outcomes
    BY <1>1 DEF AddPackage, TypeOK, Outcomes
  <2> QED
    BY <1>1, <2>4, <2>5, <2>6 DEF AddPackage, TypeOK, project
<1>2. ASSUME CopyNewPackages PROVE TypeOK'
  <2> DEFINE e == [Top EXCEPT !.reading = FALSE,
                              !.todo = PackagesBelow]
  <2>1. stack # <<>> /\ Top \in Frame
    BY <1>2, TopInFrame DEF CopyNewPackages, TypeOK
  <2>2. e \in Frame
    BY <2>1 DEF Frame, PackagesBelow
  <2>3. stack' = [stack EXCEPT ![Len(stack)] = e]
    BY <1>2 DEF CopyNewPackages, Top, Depth
  <2>4. stack' \in Seq(Frame) /\ stack' # <<>>
    BY <2>1, <2>2, <2>3, ReplaceTop, EmptySeq, LenProperties DEF TypeOK
  <2> QED
    BY <1>2, <2>4 DEF CopyNewPackages, TypeOK, project
<1>3. ASSUME NEW p \in Pkgs, Visit(p) PROVE TypeOK'
  <2> DEFINE e == [Top EXCEPT !.todo = @ \ {p}]
  <2> DEFINE s == [stack EXCEPT ![Len(stack)] = e]
  <2>1. stack # <<>> /\ Top \in Frame
    BY <1>3, TopInFrame DEF Visit, TypeOK
  <2>2. e \in Frame
    BY <2>1 DEF Frame
  <2>3. s \in Seq(Frame)
    BY <2>1, <2>2, ReplaceTop DEF TypeOK
  <2>4. Call(p) \in Frame
    BY CallInFrame DEF Nodes
  <2>5. stack' = Append(s, Call(p))
    BY <1>3 DEF Visit, Top, Depth
  <2>6. stack' \in Seq(Frame) /\ stack' # <<>>
    BY <2>3, <2>4, <2>5, AppendProperties
  <2> QED
    BY <1>3, <2>6 DEF Visit, TypeOK, project
<1>4. ASSUME Return PROVE TypeOK'
  <2>1. stack # <<>> /\ Depth \in Nat \ {0} /\ Depth = Len(stack)
    BY <1>4, TopInFrame DEF Return, TypeOK, Depth
  <2>2. stack' \in Seq(Frame) /\ Len(stack') = Depth - 1
    BY <1>4, <2>1, SubSeqProperties DEF Return, TypeOK
  <2>3. Depth # 1 => stack' # <<>>
    BY <2>1, <2>2, EmptySeq
  <2> QED
    BY <1>4, <2>2, <2>3 DEF Return, TypeOK, project, Outcomes, Outermost
<1>5. CASE UNCHANGED vars
  BY <1>5 DEF TypeOK, vars
<1> QED
  BY <1>1, <1>2, <1>3, <1>4, <1>5 DEF Next

LEMMA TypeOKInit == Init => TypeOK
<1> SUFFICES ASSUME NEW graph \in [Nodes -> SUBSET Pkgs], NEW found \in SUBSET Pkgs,
                    InitFor(graph, found)
             PROVE  TypeOK
  BY DEF Init
<1>1. Call(Root) \in Frame
  BY DEF InitFor, Call, Frame, Nodes
<1> QED
  BY <1>1 DEF InitFor, TypeOK, Outcomes

-----------------------------------------------------------------------------
LEMMA IInvInit == Init => IInv
<1> SUFFICES ASSUME Init PROVE IInv
  OBVIOUS
<1>1. TypeOK
  BY TypeOKInit
<1>2. Collected = {Root}
  BY PackageAssumption DEF Init, InitFor, Collected, Added, Nodes
<1>3. Reading(Root)
  BY DEF Init, InitFor, Reading, Level, Call, Nodes
<1> QED
  BY <1>1, <1>2, <1>3 DEF IInv, Init, InitFor

(* A step that leaves the recorded levels and the imports as they are      *)
(* keeps every tested package tested.                                      *)
LEMMA LevelsKept ==
  ASSUME UNCHANGED <<imports, level>>
  PROVE  /\ Collected' = Collected
         /\ \A u \in Nodes : Level(u)' = Level(u)
         /\ \A u \in Nodes : Tested(u) => Tested(u)'
  BY DEF Collected, Added, Level, Tested

LEMMA AddPackageStep ==
  ASSUME IInv, TypeOK', NEW q \in Pkgs, AddPackage(q)
  PROVE  IInv'
<1> DEFINE e == [Top EXCEPT !.unread = @ \ {q}]
<1>1. /\ TypeOK /\ stack # <<>> /\ Top \in Frame /\ Depth \in Nat \ {0}
      /\ Depth = Len(stack) /\ Top.reading /\ outcome = "running"
  BY TopInFrame DEF IInv, AddPackage, TypeOK, Depth
<1>2. e \in Frame
  BY <1>1 DEF Frame
<1>3. stack' = [stack EXCEPT ![Len(stack)] = e]
  BY DEF AddPackage, Top, Depth
<1>4. e.pkg = Top.pkg /\ e.reading /\ e.unread = Top.unread \ {q} /\ e.todo = Top.todo
  BY <1>1 DEF Frame
<1> HIDE DEF e
<1>5. /\ Len(stack') = Len(stack)
      /\ \A i \in 1 .. Depth : stack'[i] = IF i = Depth THEN e ELSE stack[i]
  BY <1>1, <1>2, <1>3, ReplaceTop DEF TypeOK
<1>6. outcome' # "ok"
  BY <1>1 DEF AddPackage
<1>7. SUFFICES ASSUME outcome' = "running", NEW u \in Collected'
               PROVE  (Waiting(u) \/ Reading(u) \/ Tested(u))'
  BY <1>6 DEF IInv
<1>8. imports' = imports
  BY DEF AddPackage, project
<1>9. /\ level'[q] >= Depth
      /\ \A p \in Pkgs : level[p] # 0 => level'[p] = level[p]
      /\ \A p \in Pkgs \ {q} : level'[p] = level[p]
      /\ \A p \in Pkgs : level[p] \in Nat /\ level'[p] \in Nat
  BY <1>1, <1>7 DEF AddPackage, Higher, Added, TypeOK
<1>10. CASE u \in Collected
  <2>1. Level(u)' = Level(u) /\ Level(u) \in Nat /\ (u # Root => u \in Pkgs)
    BY <1>9, <1>10, PackageAssumption DEF Collected, Added, Level, Nodes
  <2>2. u \in Nodes
    BY <1>10 DEF Collected
  <2>3. \A v \in imports[u] : level[v] > Level(u) => level'[v] > Level(u)'
    BY <1>1, <1>9, <2>1, <2>2 DEF TypeOK
  <2>4. CASE Tested(u)
    BY <1>8, <2>3, <2>4 DEF Tested
  <2>5. CASE Waiting(u)
    <3>1. level'[u] = level[u] /\ level[u] \in 1 .. Depth
      BY <1>1, <1>9, <1>10, <2>5, PackageAssumption
         DEF Waiting, Collected, Added, TypeOK
    <3>2. stack'[level[u]].reading \/ u \in stack'[level[u]].todo
      BY <1>1, <1>4, <1>5, <2>5, <3>1 DEF Waiting, Top
    <3> QED
      BY <1>1, <1>5, <2>5, <3>1, <3>2 DEF Waiting
  <2>6. CASE Reading(u)
    <3>1. Level(u) + 1 \in 1 .. Depth
      BY <1>1, <2>1, <2>6 DEF Reading
    <3>2. CASE Level(u) + 1 # Depth
      BY <1>1, <1>5, <1>8, <2>1, <2>3, <2>6, <3>1, <3>2 DEF Reading
    <3>3. CASE Level(u) + 1 = Depth
      <4>1. \A v \in imports[u] \ e.unread : level'[v] > Level(u)'
        BY <1>1, <1>4, <1>9, <2>1, <2>3, <2>6, <3>3 DEF Reading, Top
      <4> QED
        BY <1>1, <1>4, <1>5, <1>8, <2>1, <2>6, <3>1, <3>3, <4>1 DEF Reading, Top
    <3> QED
      BY <3>2, <3>3
  <2> QED
    BY <1>1, <1>10, <2>4, <2>5, <2>6 DEF IInv
<1>11. CASE u \notin Collected
  <2>1. u = q /\ level'[u] = Depth
    BY <1>1, <1>7, <1>9, <1>11 DEF AddPackage, Collected, Added, Nodes, TypeOK
  <2>2. Len(stack') = Depth /\ stack'[Depth].reading
    BY <1>1, <1>4, <1>5
  <2>3. Waiting(u)'
    BY <1>1, <2>1, <2>2 DEF Waiting
  <2> QED
    BY <2>3
<1> QED
  BY <1>10, <1>11

LEMMA CopyNewPackagesStep ==
  ASSUME IInv, TypeOK', CopyNewPackages
  PROVE  IInv'
<1> DEFINE e == [Top EXCEPT !.reading = FALSE,
                            !.todo = PackagesBelow]
<1>1. /\ TypeOK /\ stack # <<>> /\ Top \in Frame /\ Depth \in Nat \ {0}
      /\ Depth = Len(stack) /\ Top.reading /\ Top.unread = {} /\ outcome = "running"
  BY TopInFrame DEF IInv, CopyNewPackages, TypeOK, Depth
<1>2. e \in Frame
  BY <1>1 DEF Frame, PackagesBelow
<1>3. stack' = [stack EXCEPT ![Len(stack)] = e]
  BY DEF CopyNewPackages, Top, Depth
<1>4. e.todo = {p \in Pkgs : level[p] > Depth - 1}
  BY <1>1 DEF Frame, PackagesBelow
<1> HIDE DEF e
<1>5. /\ Len(stack') = Len(stack)
      /\ \A i \in 1 .. Depth : stack'[i] = IF i = Depth THEN e ELSE stack[i]
  BY <1>1, <1>2, <1>3, ReplaceTop DEF TypeOK
<1>6. outcome' = "running" /\ UNCHANGED <<imports, level>>
  BY <1>1 DEF CopyNewPackages, project
<1>7. SUFFICES ASSUME NEW u \in Collected
               PROVE  Waiting(u)' \/ Reading(u)' \/ Tested(u)'
  BY <1>6, LevelsKept DEF IInv
<1>8. u \in Nodes /\ Level(u)' = Level(u)
  BY <1>6, LevelsKept DEF Collected
<1>9. Level(u) \in Nat /\ (u \in Pkgs => Level(u) = level[u] /\ level[u] \in Nat \ {0})
  BY <1>1, PackageAssumption DEF Collected, Added, Level, Nodes, TypeOK
<1>10. CASE Tested(u)
  BY <1>6, <1>8, <1>10, LevelsKept
<1>11. CASE Waiting(u)
  <2>1. level'[u] = level[u] /\ level[u] \in 1 .. Depth
    BY <1>1, <1>6, <1>9, <1>11 DEF Waiting
  <2>2. level[u] = Depth => u \in e.todo
    BY <1>1, <1>4, <1>11 DEF Waiting
  <2>3. stack'[level[u]].reading \/ u \in stack'[level[u]].todo
    BY <1>1, <1>5, <1>11, <2>1, <2>2 DEF Waiting
  <2> QED
    BY <1>1, <1>5, <1>11, <2>1, <2>3 DEF Waiting
<1>12. CASE Reading(u)
  <2>1. Level(u) + 1 \in 1 .. Depth
    BY <1>1, <1>9, <1>12 DEF Reading
  <2>2. CASE Level(u) + 1 = Depth
    <3>1. Tested(u)
      BY <1>1, <1>12, <2>2 DEF Reading, Tested, Top
    <3> QED
      BY <1>6, <1>8, <3>1, LevelsKept
  <2>3. CASE Level(u) + 1 # Depth
    <3>1. stack'[Level(u) + 1] = stack[Level(u) + 1]
      BY <1>5, <2>1, <2>3
    <3> QED
      BY <1>1, <1>5, <1>6, <1>8, <1>12, <3>1 DEF Reading
  <2> QED
    BY <2>2, <2>3
<1> QED
  BY <1>1, <1>10, <1>11, <1>12 DEF IInv

LEMMA VisitStep ==
  ASSUME IInv, TypeOK', NEW p \in Pkgs, Visit(p)
  PROVE  IInv'
<1> DEFINE e == [Top EXCEPT !.todo = @ \ {p}]
<1> DEFINE s == [stack EXCEPT ![Len(stack)] = e]
<1>1. /\ TypeOK /\ stack # <<>> /\ Top \in Frame /\ Depth \in Nat \ {0}
      /\ Depth = Len(stack) /\ ~Top.reading /\ outcome = "running"
  BY TopInFrame DEF IInv, Visit, TypeOK, Depth
<1>2. e \in Frame /\ Call(p) \in Frame
  BY <1>1, CallInFrame DEF Frame, Nodes
<1>3. stack' = Append(s, Call(p))
  BY DEF Visit, Top, Depth
<1>4. /\ e.reading = Top.reading /\ e.todo = Top.todo \ {p}
      /\ Call(p).pkg = p /\ Call(p).reading /\ Call(p).unread = imports[p]
  BY <1>1 DEF Frame, Call
<1> HIDE DEF e
<1>5. /\ s \in Seq(Frame) /\ Len(s) = Depth
      /\ \A i \in 1 .. Depth : s[i] = IF i = Depth THEN e ELSE stack[i]
  BY <1>1, <1>2, ReplaceTop DEF TypeOK
<1>6. /\ Len(stack') = Depth + 1 /\ stack'[Depth + 1] = Call(p)
      /\ \A i \in 1 .. Depth : stack'[i] = IF i = Depth THEN e ELSE stack[i]
  BY <1>1, <1>2, <1>3, <1>5, AppendProperties
<1>7. outcome' = "running" /\ UNCHANGED <<imports, level>>
  BY <1>1 DEF Visit, project
<1>8. SUFFICES ASSUME NEW u \in Collected
               PROVE  Waiting(u)' \/ Reading(u)' \/ Tested(u)'
  BY <1>7, LevelsKept DEF IInv
<1>9. u \in Nodes /\ Level(u)' = Level(u)
  BY <1>7, LevelsKept DEF Collected
<1>10. Level(u) \in Nat /\ (u \in Pkgs => Level(u) = level[u] /\ level[u] \in Nat \ {0})
  BY <1>1, PackageAssumption DEF Collected, Added, Level, Nodes, TypeOK
<1>11. CASE Tested(u)
  BY <1>7, <1>9, <1>11, LevelsKept
<1>12. CASE Waiting(u)
  <2>1. level'[u] = level[u] /\ level[u] \in 1 .. Depth /\ u \in Pkgs
    BY <1>1, <1>7, <1>10, <1>12 DEF Waiting
  <2>2. CASE u = p /\ level[u] = Depth
    <3>1. stack'[Level(u) + 1] = Call(u)
      BY <1>6, <1>10, <2>1, <2>2
    <3>2. Reading(u)'
      BY <1>1, <1>6, <1>4, <1>7, <1>9, <1>10, <2>1, <2>2, <3>1 DEF Reading
    <3> QED
      BY <3>2
  <2>3. CASE ~(u = p /\ level[u] = Depth)
    <3>1. stack'[level[u]].reading \/ u \in stack'[level[u]].todo
      BY <1>1, <1>6, <1>4, <1>12, <2>1, <2>3 DEF Waiting, Top
    <3> QED
      BY <1>1, <1>6, <2>1, <3>1 DEF Waiting
  <2> QED
    BY <2>2, <2>3
<1>13. CASE Reading(u)
  <2>1. Level(u) + 1 \in 1 .. Depth /\ Level(u) + 1 # Depth
    BY <1>1, <1>10, <1>13 DEF Reading, Top
  <2>2. stack'[Level(u) + 1] = stack[Level(u) + 1]
    BY <1>6, <2>1
  <2> QED
    BY <1>1, <1>6, <1>7, <1>9, <1>13, <2>1, <2>2 DEF Reading
<1> QED
  BY <1>1, <1>11, <1>12, <1>13 DEF IInv

LEMMA ReturnStep ==
  ASSUME IInv, TypeOK', Return
  PROVE  IInv'
<1>1. /\ TypeOK /\ stack # <<>> /\ Depth \in Nat \ {0} /\ Depth = Len(stack)
      /\ ~Top.reading /\ Top.todo = {} /\ outcome = "running"
  BY TopInFrame DEF IInv, Return, TypeOK, Depth
<1>2. /\ Len(stack') = Depth - 1
      /\ \A i \in 1 .. Depth - 1 : stack'[i] = stack[i]
  BY <1>1, SubSeqProperties DEF Return, TypeOK
<1>3. outcome' = "ok" => stack' = <<>>
  BY <1>1, <1>2, EmptySeq DEF Return, Outermost, TypeOK
<1>4. UNCHANGED <<imports, level>>
  BY DEF Return, project
<1>5. SUFFICES ASSUME NEW u \in Collected
               PROVE  Waiting(u)' \/ Reading(u)' \/ Tested(u)'
  BY <1>3, <1>4, LevelsKept DEF IInv
<1>6. u \in Nodes /\ Level(u)' = Level(u)
  BY <1>4, LevelsKept DEF Collected
<1>7. Level(u) \in Nat /\ (u \in Pkgs => Level(u) = level[u] /\ level[u] \in Nat \ {0})
  BY <1>1, PackageAssumption DEF Collected, Added, Level, Nodes, TypeOK
<1>8. CASE Tested(u)
  BY <1>4, <1>6, <1>8, LevelsKept
<1>9. CASE Waiting(u)
  <2>1. level[u] \in 1 .. Depth - 1
    BY <1>1, <1>7, <1>9 DEF Waiting, Top
  <2> QED
    BY <1>1, <1>2, <1>4, <1>9, <2>1 DEF Waiting
<1>10. CASE Reading(u)
  <2>1. Level(u) + 1 \in 1 .. Depth - 1
    BY <1>1, <1>7, <1>10 DEF Reading, Top
  <2> QED
    BY <1>1, <1>2, <1>4, <1>6, <1>10, <2>1 DEF Reading
<1> QED
  BY <1>1, <1>8, <1>9, <1>10 DEF IInv

LEMMA IInvStep == IInv /\ [Next]_vars => IInv'
<1> SUFFICES ASSUME IInv, [Next]_vars PROVE IInv'
  OBVIOUS
<1>1. TypeOK'
  BY TypeOKStep DEF IInv
<1>2. CASE UNCHANGED vars
  BY <1>2 DEF IInv, TypeOK, vars, Collected, Added, Waiting, Reading, Tested, Level
<1> QED
  BY <1>1, <1>2, AddPackageStep, CopyNewPackagesStep, VisitStep, ReturnStep DEF Next

-----------------------------------------------------------------------------
(* The map and the call stack keep their shapes, whatever the imports of   *)
(* the project are and whichever order the map is walked in.               *)
THEOREM TypeCorrect == Spec => []TypeOK
<1>1. TypeOK /\ [Next]_vars => TypeOK'
  BY TypeOKStep
<1> QED
  BY <1>1, TypeOKInit, PTL DEF Spec

(* When collection succeeds, every import of every recorded package is at  *)
(* a strictly deeper level: no edge of the import graph escapes the test.  *)
LEMMA IInvImpliesLevelsIncrease == IInv => LevelsIncrease
<1> SUFFICES ASSUME IInv, outcome = "ok", NEW u \in Collected
             PROVE  Tested(u)
  BY DEF LevelsIncrease, Tested
<1>1. stack = <<>> /\ Len(stack) = 0
  BY EmptySeq DEF IInv
<1>2. Level(u) \in Nat /\ (u \in Pkgs => level[u] \in Nat \ {0})
  BY PackageAssumption DEF IInv, TypeOK, Collected, Added, Level, Nodes
<1> QED
  BY <1>1, <1>2, PackageAssumption DEF IInv, Waiting, Reading, Collected, Added

THEOREM AcceptedLevelsIncrease == Spec => []LevelsIncrease
<1>1. Init => IInv
  BY IInvInit
<1>2. IInv /\ [Next]_vars => IInv'
  BY IInvStep
<1>3. IInv => LevelsIncrease
  BY IInvImpliesLevelsIncrease
<1> QED
  BY <1>1, <1>2, <1>3, PTL DEF Spec

-----------------------------------------------------------------------------
(* The chains of imports: what is reached by them is the least set that    *)
(* holds where they start and, with a package, what it imports.            *)
LEMMA ReachedCloses ==
  ASSUME imports \in [Nodes -> SUBSET Pkgs]
  PROVE  /\ Root \in Needed /\ Needed \subseteq Nodes
         /\ \A u \in Needed : imports[u] \subseteq Needed
         /\ \A X : Root \in X /\ (\A u \in X : imports[u] \subseteq X) => Needed \subseteq X
<1> DEFINE s == {Root}
           N == Cardinality(Pkgs)
           Eq(R) == R = [n \in Nat |-> IF n = 0 THEN s ELSE Step(R[n - 1])]
<1>1. \A A : Step(A) = Widen(imports, A)
  BY DEF Step, Widen
<1>2. \A R : Eq(R) <=> WidensTo(R, imports, s)
  BY <1>1 DEF WidensTo
<1>3. s \subseteq Nodes /\ \A u \in Nodes : imports[u] \subseteq Nodes
  BY DEF Nodes
<1>4. IsFiniteSet(Nodes) /\ N \in Nat /\ Cardinality(Nodes) = N + 1 /\ Cardinality(s) = 1
  BY PackageAssumption, FS_CardinalityType, FS_AddElement, FS_Singleton DEF Nodes
<1>5. Cardinality(Nodes) <= N + Cardinality(s)
  BY <1>4
<1> HIDE DEF s, N
<1>6. \E R : WidensTo(R, imports, s)
  BY <1>3, WidenExists
<1>7. Eq(Reached)
  <2>1. \E R : Eq(R)
    BY <1>2, <1>6
  <2>2. Reached = CHOOSE R : Eq(R)
    BY DEF Reached, s
  <2> HIDE DEF Eq
  <2> QED
    BY <2>1, <2>2
<1>8. WidensTo(Reached, imports, s)
  BY <1>2, <1>7
<1>9. /\ s \subseteq Reached[N] /\ Reached[N] \subseteq Nodes
      /\ \A u \in Reached[N] : imports[u] \subseteq Reached[N]
      /\ \A X : s \subseteq X /\ (\A u \in X : imports[u] \subseteq X) => Reached[N] \subseteq X
  BY ONLY <1>3, <1>4, <1>5, <1>8, WidenCloses
<1> QED
  BY <1>9 DEF Needed, N, s

LEMMA FromCloses ==
  ASSUME imports \in [Nodes -> SUBSET Pkgs], NEW p \in Nodes
  PROVE  /\ imports[p] \subseteq From(p)
         /\ \A X : imports[p] \subseteq X /\ (\A u \in X : imports[u] \subseteq X)
                   => From(p) \subseteq X
<1> DEFINE s == imports[p]
           N == Cardinality(Pkgs)
           Eq(R) == R = [n \in Nat |-> IF n = 0 THEN s ELSE Step(R[n - 1])]
           F == CHOOSE R : Eq(R)
<1>1. \A A : Step(A) = Widen(imports, A)
  BY DEF Step, Widen
<1>2. \A R : Eq(R) <=> WidensTo(R, imports, s)
  BY <1>1 DEF WidensTo
<1>3. s \subseteq Pkgs /\ \A u \in Pkgs : imports[u] \subseteq Pkgs
  BY DEF Nodes
<1>4. IsFiniteSet(Pkgs) /\ N \in Nat /\ Cardinality(s) \in Nat
  BY <1>3, PackageAssumption, FS_CardinalityType, FS_Subset
<1>5. Cardinality(Pkgs) <= N + Cardinality(s)
  BY <1>4
<1>6. From(p) = F[N]
  BY DEF From
<1> HIDE DEF s, N
<1>7. \E R : WidensTo(R, imports, s)
  BY <1>3, WidenExists
<1>8. Eq(F)
  <2>1. \E R : Eq(R)
    BY <1>2, <1>7
  <2> HIDE DEF Eq
  <2> QED
    BY <2>1
<1> HIDE DEF F
<1>9. WidensTo(F, imports, s)
  BY <1>2, <1>8
<1> HIDE DEF Eq
<1>10. /\ s \subseteq F[N] /\ F[N] \subseteq Pkgs
       /\ \A u \in F[N] : imports[u] \subseteq F[N]
       /\ \A X : s \subseteq X /\ (\A u \in X : imports[u] \subseteq X) => F[N] \subseteq X
  BY <1>3, <1>4, <1>5, <1>9, WidenCloses
<1> QED
  BY <1>6, <1>10 DEF s

-----------------------------------------------------------------------------
(* What a step does to the calls.                                          *)
LEMMA AddPackageCalls ==
  ASSUME TypeOK, NEW q \in Pkgs, AddPackage(q)
  PROVE  /\ Depth \in Nat \ {0} /\ Depth = Len(stack) /\ Len(stack') = Depth
         /\ \A i \in 1 .. Depth : /\ stack'[i].pkg = stack[i].pkg
                                  /\ stack'[i].unread \subseteq stack[i].unread
                                  /\ stack'[i].todo = stack[i].todo
<1> DEFINE e == [Top EXCEPT !.unread = @ \ {q}]
<1>1. stack # <<>> /\ Top \in Frame /\ Depth \in Nat \ {0} /\ Depth = Len(stack)
  BY TopInFrame DEF AddPackage, TypeOK, Depth
<1>2. e \in Frame /\ stack' = [stack EXCEPT ![Len(stack)] = e]
  BY <1>1 DEF AddPackage, Top, Depth, Frame
<1>3. e.pkg = Top.pkg /\ e.unread \subseteq Top.unread /\ e.todo = Top.todo
  BY <1>1 DEF Frame
<1> HIDE DEF e
<1>4. /\ Len(stack') = Len(stack)
      /\ \A i \in 1 .. Len(stack) : stack'[i] = IF i = Len(stack) THEN e ELSE stack[i]
  BY <1>1, <1>2, ReplaceTop DEF TypeOK
<1> QED
  BY <1>1, <1>3, <1>4 DEF Top

LEMMA CopyCalls ==
  ASSUME TypeOK, CopyNewPackages
  PROVE  /\ Depth \in Nat \ {0} /\ Depth = Len(stack) /\ Len(stack') = Depth
         /\ \A i \in 1 .. Depth :
              /\ stack'[i].pkg = stack[i].pkg
              /\ stack'[i].unread = stack[i].unread
              /\ stack'[i].todo = IF i = Depth THEN PackagesBelow ELSE stack[i].todo
<1> DEFINE e == [Top EXCEPT !.reading = FALSE, !.todo = PackagesBelow]
<1>1. stack # <<>> /\ Top \in Frame /\ Depth \in Nat \ {0} /\ Depth = Len(stack)
  BY TopInFrame DEF CopyNewPackages, TypeOK, Depth
<1>2. e \in Frame /\ stack' = [stack EXCEPT ![Len(stack)] = e]
  BY <1>1 DEF CopyNewPackages, Top, Depth, Frame, PackagesBelow
<1>3. e.pkg = Top.pkg /\ e.unread = Top.unread /\ e.todo = PackagesBelow
  BY <1>1 DEF Frame
<1> HIDE DEF e
<1>4. /\ Len(stack') = Len(stack)
      /\ \A i \in 1 .. Len(stack) : stack'[i] = IF i = Len(stack) THEN e ELSE stack[i]
  BY <1>1, <1>2, ReplaceTop DEF TypeOK
<1> QED
  BY <1>1, <1>3, <1>4 DEF Top

LEMMA VisitCalls ==
  ASSUME TypeOK, NEW p \in Pkgs, Visit(p)
  PROVE  /\ Depth \in Nat \ {0} /\ Depth = Len(stack) /\ Len(stack') = Depth + 1
         /\ p \in stack[Depth].todo /\ stack'[Depth + 1] = Call(p)
         /\ \A i \in 1 .. Depth : /\ stack'[i].pkg = stack[i].pkg
                                  /\ stack'[i].unread = stack[i].unread
                                  /\ stack'[i].todo \subseteq stack[i].todo
<1> DEFINE e == [Top EXCEPT !.todo = @ \ {p}]
           s == [stack EXCEPT ![Len(stack)] = e]
<1>1. stack # <<>> /\ Top \in Frame /\ Depth \in Nat \ {0} /\ Depth = Len(stack)
  BY TopInFrame DEF Visit, TypeOK, Depth
<1>2. e \in Frame /\ Call(p) \in Frame /\ stack' = Append(s, Call(p))
  BY <1>1, CallInFrame DEF Visit, Top, Depth, Frame, Nodes
<1>3. e.pkg = Top.pkg /\ e.unread = Top.unread /\ e.todo \subseteq Top.todo
  BY <1>1 DEF Frame
<1> HIDE DEF e
<1>4. /\ s \in Seq(Frame) /\ Len(s) = Len(stack)
      /\ \A i \in 1 .. Len(stack) : s[i] = IF i = Len(stack) THEN e ELSE stack[i]
  BY <1>1, <1>2, ReplaceTop DEF TypeOK
<1> HIDE DEF s
<1>5. /\ Len(stack') = Depth + 1 /\ stack'[Depth + 1] = Call(p)
      /\ \A i \in 1 .. Depth : stack'[i] = s[i]
  BY <1>1, <1>2, <1>4, AppendProperties
<1>6. p \in stack[Depth].todo
  BY DEF Visit, Top
<1> QED
  BY <1>1, <1>3, <1>4, <1>5, <1>6 DEF Top

LEMMA ReturnCalls ==
  ASSUME TypeOK, Return
  PROVE  /\ Depth \in Nat \ {0} /\ Depth = Len(stack) /\ Len(stack') = Depth - 1
         /\ \A i \in 1 .. Depth - 1 : stack'[i] = stack[i]
<1>1. stack # <<>> /\ Depth \in Nat \ {0} /\ Depth = Len(stack)
  BY TopInFrame DEF Return, TypeOK, Depth
<1> QED
  BY <1>1, SubSeqProperties DEF Return, TypeOK

-----------------------------------------------------------------------------
(* Only needed packages are recorded: what a call reads are imports of a   *)
(* recorded package, what it visits is recorded.                           *)
NInv ==
  /\ Collected \subseteq Needed
  /\ \A i \in 1 .. Len(stack) : /\ stack[i].pkg \in Collected
                                /\ stack[i].unread \subseteq imports[stack[i].pkg]
                                /\ stack[i].todo \subseteq Collected

LEMMA NInvInit == Init => NInv
<1> SUFFICES ASSUME Init PROVE NInv
  OBVIOUS
<1>1. TypeOK
  BY TypeOKInit
<1>2. Collected = {Root}
  BY PackageAssumption DEF Init, InitFor, Collected, Added, Nodes
<1>3. Root \in Needed
  BY <1>1, ReachedCloses DEF TypeOK
<1> QED
  BY <1>2, <1>3 DEF NInv, Init, InitFor, Call

LEMMA NInvStep == TypeOK /\ NInv /\ [Next]_vars => NInv'
<1> SUFFICES ASSUME TypeOK, NInv, [Next]_vars PROVE NInv'
  OBVIOUS
<1>1. imports' = imports
  BY DEF Next, AddPackage, CopyNewPackages, Visit, Return, project, vars
<1>2. Needed' = Needed
  BY <1>1 DEF Needed, Reached, Step
<1>3. CASE UNCHANGED vars
  BY <1>2, <1>3 DEF NInv, vars, Collected, Added
<1>4. ASSUME NEW q \in Pkgs, AddPackage(q) PROVE NInv'
  <2>1. Depth \in Nat \ {0} /\ Depth = Len(stack) /\ q \in stack[Depth].unread
    BY <1>4, AddPackageCalls DEF AddPackage, Top
  <2>2. stack[Depth].pkg \in Needed /\ q \in imports[stack[Depth].pkg]
    BY <2>1 DEF NInv
  <2>3. q \in Needed
    BY <2>2, ReachedCloses DEF TypeOK
  <2>4. Collected \subseteq Collected' /\ Collected' \subseteq Collected \cup {q}
    BY <1>4, <2>1, PackageAssumption DEF AddPackage, Collected, Added, TypeOK, Nodes
  <2> QED
    BY <1>1, <1>2, <1>4, <2>3, <2>4, AddPackageCalls DEF NInv
<1>5. ASSUME CopyNewPackages PROVE NInv'
  <2>1. Collected' = Collected
    BY <1>5 DEF CopyNewPackages, Collected, Added
  <2>2. Depth \in Nat \ {0}
    BY <1>5, CopyCalls
  <2>3. PackagesBelow \subseteq Collected
    BY <2>2 DEF PackagesBelow, Collected, Added, Nodes, TypeOK
  <2> QED
    BY <1>1, <1>2, <1>5, <2>1, <2>3, CopyCalls DEF NInv
<1>6. ASSUME NEW p \in Pkgs, Visit(p) PROVE NInv'
  <2>1. Collected' = Collected
    BY <1>6 DEF Visit, Collected, Added
  <2>2. /\ Depth \in Nat \ {0} /\ Len(stack') = Depth + 1 /\ Depth = Len(stack)
        /\ p \in stack[Depth].todo
    BY <1>6, VisitCalls
  <2>3. p \in Collected
    BY <2>2 DEF NInv
  <2>4. ASSUME NEW i \in 1 .. Depth + 1
        PROVE  /\ stack'[i].pkg \in Collected
               /\ stack'[i].unread \subseteq imports[stack'[i].pkg]
               /\ stack'[i].todo \subseteq Collected
    <3>1. CASE i = Depth + 1
      <4>1. Call(p).pkg = p /\ Call(p).unread = imports[p] /\ Call(p).todo = {}
        BY DEF Call
      <4>2. stack'[i] = Call(p)
        BY <1>6, <3>1, VisitCalls
      <4> QED
        BY <2>3, <4>1, <4>2
    <3>2. CASE i # Depth + 1
      <4>1. i \in 1 .. Depth
        BY <2>2, <3>2
      <4> QED
        BY <1>6, <2>2, <4>1, VisitCalls DEF NInv
    <3> QED
      BY <3>1, <3>2
  <2> QED
    BY <1>1, <1>2, <2>1, <2>2, <2>4 DEF NInv
<1>7. ASSUME Return PROVE NInv'
  <2>1. Collected' = Collected
    BY <1>7 DEF Return, Collected, Added
  <2> QED
    BY <1>1, <1>2, <1>7, <2>1, ReturnCalls DEF NInv
<1> QED
  BY <1>3, <1>4, <1>5, <1>6, <1>7 DEF Next

(* An accepted project has recorded every package that a chain of imports  *)
(* leads to, since no edge is left untested, and no other.                 *)
LEMMA AcceptedIsCollected ==
  ASSUME IInv, NInv, outcome = "ok"
  PROVE  Collected = Needed
<1>1. \A u \in Collected : imports[u] \subseteq Collected
  <2> SUFFICES ASSUME NEW u \in Collected, NEW v \in imports[u] PROVE v \in Collected
    OBVIOUS
  <2>1. level[v] > Level(u)
    BY IInvImpliesLevelsIncrease DEF LevelsIncrease
  <2>2. v \in Pkgs /\ level[v] \in Nat /\ Level(u) \in Nat
    BY DEF IInv, TypeOK, Collected, Level, Nodes
  <2> QED
    BY <2>1, <2>2 DEF Collected, Added, Nodes
<1>2. Root \in Collected
  BY DEF Collected, Nodes
<1>3. Needed \subseteq Collected
  BY <1>1, <1>2, ReachedCloses DEF IInv, TypeOK
<1> QED
  BY <1>3 DEF NInv

THEOREM AcceptedCollectsNeeded == Spec => []CollectsNeeded
<1>1. Init => IInv /\ NInv
  BY IInvInit, NInvInit
<1>2. IInv /\ NInv /\ [Next]_vars => (IInv /\ NInv)'
  BY IInvStep, NInvStep DEF IInv
<1>3. IInv /\ NInv => CollectsNeeded
  BY AcceptedIsCollected DEF CollectsNeeded
<1> QED
  BY <1>1, <1>2, <1>3, PTL DEF Spec

(* An accepted project has no import cycle: whatever a chain of imports    *)
(* leads to from p lies strictly deeper than p.                            *)
THEOREM AcceptedHasNoCycle == Spec => []AcceptedIsAcyclic
<1>1. ASSUME IInv, NInv PROVE AcceptedIsAcyclic
  <2> SUFFICES ASSUME outcome = "ok", NEW p \in Needed \ {Root}, p \in From(p)
               PROVE  FALSE
    BY DEF AcceptedIsAcyclic, Cyclic
  <2> DEFINE X == {u \in Collected : Level(u) > Level(p)}
  <2>1. p \in Collected /\ p \in Nodes /\ Level(p) \in Nat
    BY <1>1, AcceptedIsCollected DEF IInv, TypeOK, Collected, Level, Nodes
  <2>2. ASSUME NEW u \in Collected, NEW v \in imports[u]
        PROVE  v \in Collected /\ Level(v) > Level(u)
    <3>1. level[v] > Level(u)
      BY <1>1, <2>2, IInvImpliesLevelsIncrease DEF LevelsIncrease
    <3>2. v \in Pkgs /\ v # Root /\ level[v] \in Nat /\ Level(u) \in Nat
      BY <1>1, <2>2, PackageAssumption DEF IInv, TypeOK, Collected, Level, Nodes
    <3> QED
      BY <3>1, <3>2 DEF Collected, Added, Nodes, Level
  <2>3. imports[p] \subseteq X
    BY <2>1, <2>2
  <2>4. ASSUME NEW u \in X PROVE imports[u] \subseteq X
    <3> SUFFICES ASSUME NEW v \in imports[u] PROVE v \in X
      OBVIOUS
    <3>1. v \in Collected /\ Level(v) > Level(u) /\ Level(u) > Level(p)
      BY <2>2, <2>4
    <3>2. Level(v) \in Nat /\ Level(u) \in Nat
      BY <1>1, <2>4, <3>1 DEF IInv, TypeOK, Collected, Level, Nodes
    <3> QED
      BY <2>1, <3>1, <3>2
  <2>5. p \notin X
    BY <2>1
  <2> HIDE DEF X
  <2>6. From(p) \subseteq X
    BY <1>1, <2>1, <2>3, <2>4, FromCloses DEF IInv, TypeOK
  <2> QED
    BY <2>5, <2>6
<1>2. Init => IInv /\ NInv
  BY IInvInit, NInvInit
<1>3. IInv /\ NInv /\ [Next]_vars => (IInv /\ NInv)'
  BY IInvStep, NInvStep DEF IInv
<1>4. IInv /\ NInv => AcceptedIsAcyclic
  BY <1>1
<1> QED
  BY <1>2, <1>3, <1>4, PTL DEF Spec

-----------------------------------------------------------------------------
(* Graded projects: the level a package is recorded at is its depth, and a *)
(* package is visited at its depth or, with all its imports recorded       *)
(* already, above it.                                                      *)
DepthIn(d, u) == IF u = Root THEN 0 ELSE d[u]

Grades(d) ==
  \A u \in Needed : \A v \in imports[u] : d[v] = 1 + DepthIn(d, u)

GInv(d) ==
  /\ outcome # "circular"
  /\ \A q \in Pkgs : Added(q) => level[q] = d[q]
  /\ \A i \in 1 .. Len(stack) :
       /\ i <= DepthIn(d, stack[i].pkg) + 1
       /\ i < DepthIn(d, stack[i].pkg) + 1 => \A v \in imports[stack[i].pkg] : Added(v)
       /\ \A p \in stack[i].todo : level[p] >= i

Gradings == [Pkgs -> 1 .. Cardinality(Pkgs)]

LEMMA GradingsAreDepths ==
  \A d \in Gradings : /\ \A u \in Nodes : DepthIn(d, u) \in Nat
                      /\ \A q \in Pkgs : d[q] \in Nat \ {0} /\ DepthIn(d, q) = d[q]
  BY PackageAssumption, FS_CardinalityType DEF Gradings, DepthIn, Nodes

LEMMA GInvInit ==
  ASSUME Init, NEW d \in Gradings
  PROVE  GInv(d)
<1>1. /\ outcome = "running" /\ stack = <<Call(Root)>>
      /\ \A q \in Pkgs : level[q] = 0
  BY DEF Init, InitFor
<1>2. Len(stack) = 1 /\ stack[1].pkg = Root /\ stack[1].todo = {}
  BY <1>1 DEF Call
<1>3. DepthIn(d, Root) = 0
  BY DEF DepthIn
<1> QED
  BY <1>1, <1>2, <1>3 DEF GInv, Added

(* What is recorded stays recorded, at its level.                          *)
LEMMA LevelsStay ==
  ASSUME TypeOK, [Next]_vars
  PROVE  \A q \in Pkgs : /\ level'[q] \in Nat /\ level[q] \in Nat
                         /\ Added(q) => level'[q] = level[q]
                         /\ level'[q] >= level[q]
<1>1. \A q \in Pkgs : level[q] \in Nat
  BY DEF TypeOK
<1>2. CASE UNCHANGED level
  BY <1>1, <1>2
<1>3. ASSUME NEW q \in Pkgs, AddPackage(q), ~UNCHANGED level
      PROVE  ~Added(q) /\ level' = [level EXCEPT ![q] = Depth] /\ Depth \in Nat
  BY <1>3, AddPackageCalls DEF AddPackage
<1>4. ASSUME NEW q \in Pkgs, AddPackage(q), ~UNCHANGED level,
             NEW r \in Pkgs
      PROVE  /\ level'[r] \in Nat /\ level'[r] >= level[r]
             /\ Added(r) => level'[r] = level[r]
  <2>1. level'[r] = IF r = q THEN Depth ELSE level[r]
    BY <1>3, <1>4 DEF TypeOK
  <2>2. level[q] = 0
    BY <1>1, <1>3, <1>4 DEF Added
  <2> QED
    BY <1>1, <1>3, <1>4, <2>1, <2>2
<1> QED
  BY <1>1, <1>2, <1>4 DEF Next, CopyNewPackages, Visit, Return, vars

LEMMA GInvStep ==
  ASSUME IInv, NInv, TypeOK', [Next]_vars, NEW d \in Gradings, Grades(d), GInv(d)
  PROVE  GInv(d)'
<1>1. TypeOK /\ imports' = imports
  BY DEF IInv, Next, AddPackage, CopyNewPackages, Visit, Return, project, vars
<1>2. \A i \in 1 .. Len(stack) : /\ stack[i] \in Frame
                                 /\ stack[i].pkg \in Collected /\ stack[i].pkg \in Nodes
  BY <1>1, ElementOfSeq DEF NInv, Collected, TypeOK
<1>3. \A r \in Pkgs : /\ level'[r] \in Nat /\ level[r] \in Nat
                      /\ level[r] > 0 => level'[r] = level[r]
                      /\ level'[r] >= level[r]
  BY <1>1, LevelsStay DEF Added
<1>4. CASE UNCHANGED vars
  BY <1>4 DEF GInv, vars, Added
<1>5. ASSUME NEW q \in Pkgs, AddPackage(q) PROVE GInv(d)'
  <2> DEFINE u == stack[Depth].pkg
             D == DepthIn(d, u)
  <2>1. Depth \in Nat \ {0} /\ Depth = Len(stack) /\ q \in stack[Depth].unread
    BY <1>1, <1>5, AddPackageCalls DEF AddPackage, Top
  <2>2. u \in Needed /\ u \in Nodes /\ q \in imports[u]
    BY <1>2, <2>1 DEF NInv
  <2>3. /\ d[q] = 1 + D /\ D \in Nat /\ Depth <= D + 1
        /\ Depth < D + 1 => Added(q)
    BY <2>1, <2>2, GradingsAreDepths DEF Grades, GInv
  <2> HIDE DEF D, u
  <2>4. level[q] \in Nat /\ (Added(q) => level[q] = d[q])
    BY <1>3 DEF GInv
  <2>5. outcome' # "circular"
    BY <1>5, <2>1, <2>3, <2>4 DEF AddPackage, Higher, GInv
  <2>6. \A r \in Pkgs : level'[r] > 0 => level'[r] = d[r]
    <3> SUFFICES ASSUME NEW r \in Pkgs, level'[r] > 0 PROVE level'[r] = d[r]
      OBVIOUS
    <3>1. CASE Added(r)
      BY <1>3, <3>1 DEF GInv, Added
    <3>2. CASE ~Added(r)
      <4>1. level[r] = 0
        BY <1>3, <3>2 DEF Added
      <4>2. r = q /\ level'[r] = Depth
        BY <1>1, <1>5, <4>1 DEF AddPackage, TypeOK
      <4> QED
        BY <2>1, <2>3, <3>2, <4>2
    <3> QED
      BY <3>1, <3>2
  <2>7. /\ Len(stack') = Len(stack)
        /\ \A i \in 1 .. Len(stack) : stack'[i].pkg = stack[i].pkg /\ stack'[i].todo = stack[i].todo
    BY <1>1, <1>5, <2>1, AddPackageCalls
  <2>8. ASSUME NEW i \in 1 .. Len(stack)
        PROVE  /\ i <= DepthIn(d, stack[i].pkg) + 1
               /\ i < DepthIn(d, stack[i].pkg) + 1 =>
                    \A v \in imports[stack[i].pkg] : level'[v] > 0
               /\ \A p \in stack[i].todo : level'[p] >= i
    <3>1. stack[i].todo \subseteq Pkgs /\ imports[stack[i].pkg] \subseteq Pkgs
      BY <1>1, <1>2 DEF Frame, TypeOK
    <3>2. /\ i <= DepthIn(d, stack[i].pkg) + 1
          /\ i < DepthIn(d, stack[i].pkg) + 1 =>
               \A v \in imports[stack[i].pkg] : level[v] > 0
          /\ \A p \in stack[i].todo : level[p] >= i
      BY DEF GInv, Added
    <3> QED
      BY <1>3, <3>1, <3>2
  <2> QED
    BY <1>1, <2>5, <2>6, <2>7, <2>8 DEF GInv, Added
<1>6. ASSUME CopyNewPackages PROVE GInv(d)'
  <2>1. /\ Depth \in Nat \ {0} /\ Depth = Len(stack) /\ Len(stack') = Len(stack)
        /\ \A i \in 1 .. Len(stack) :
             /\ stack'[i].pkg = stack[i].pkg
             /\ stack'[i].todo = IF i = Depth THEN PackagesBelow ELSE stack[i].todo
    BY <1>1, <1>6, CopyCalls
  <2>2. \A p \in PackagesBelow : level[p] >= Depth
    BY <1>3, <2>1 DEF PackagesBelow
  <2>3. level' = level /\ outcome' = outcome
    BY <1>6 DEF CopyNewPackages
  <2> QED
    BY <1>1, <2>1, <2>2, <2>3 DEF GInv, Added
<1>7. ASSUME NEW p \in Pkgs, Visit(p) PROVE GInv(d)'
  <2>1. /\ Depth \in Nat \ {0} /\ Depth = Len(stack) /\ Len(stack') = Depth + 1
        /\ p \in stack[Depth].todo /\ stack'[Depth + 1] = Call(p)
        /\ \A i \in 1 .. Depth : /\ stack'[i].pkg = stack[i].pkg
                                 /\ stack'[i].todo \subseteq stack[i].todo
    BY <1>1, <1>7, VisitCalls
  <2>2. Call(p).pkg = p /\ Call(p).todo = {}
    BY DEF Call
  <2>3. p \in Collected /\ level[p] >= Depth /\ p # Root
    BY <2>1, PackageAssumption DEF NInv, GInv
  <2>4. Level(p) = level[p] /\ level[p] = d[p] /\ DepthIn(d, p) = level[p]
    BY <2>3, GradingsAreDepths DEF Level, Collected, GInv
  <2>5. ASSUME Depth < level[p], NEW v \in imports[p] PROVE level[v] > 0
    <3>1. outcome = "running"
      BY <1>7 DEF Visit
    <3>2. Tested(p)
      BY <1>3, <2>1, <2>3, <2>4, <2>5, <3>1 DEF IInv, Waiting, Reading
    <3>3. v \in Pkgs
      BY <1>1, <2>5 DEF TypeOK, Nodes
    <3> QED
      BY <1>3, <2>4, <2>5, <3>2, <3>3 DEF Tested
  <2>6. level' = level /\ outcome' = outcome
    BY <1>7 DEF Visit
  <2>7. /\ Depth + 1 <= DepthIn(d, p) + 1
        /\ Depth + 1 < DepthIn(d, p) + 1 => \A v \in imports[p] : level[v] > 0
    BY <1>3, <2>1, <2>3, <2>4, <2>5
  <2>8. ASSUME NEW i \in 1 .. Depth + 1
        PROVE  /\ i <= DepthIn(d, stack'[i].pkg) + 1
               /\ i < DepthIn(d, stack'[i].pkg) + 1 =>
                    \A v \in imports[stack'[i].pkg] : level[v] > 0
               /\ \A r \in stack'[i].todo : level[r] >= i
    <3>1. CASE i = Depth + 1
      BY <2>1, <2>2, <2>7, <3>1
    <3>2. CASE i # Depth + 1
      <4>1. i \in 1 .. Depth
        BY <2>1, <3>2
      <4> QED
        BY <2>1, <4>1 DEF GInv, Added
    <3> QED
      BY <3>1, <3>2
  <2> QED
    BY <1>1, <2>1, <2>6, <2>8 DEF GInv, Added
<1>8. ASSUME Return PROVE GInv(d)'
  <2>1. /\ Depth \in Nat \ {0} /\ Depth = Len(stack) /\ Len(stack') = Depth - 1
        /\ \A i \in 1 .. Depth - 1 : stack'[i] = stack[i]
    BY <1>1, <1>8, ReturnCalls
  <2>2. level' = level /\ outcome' # "circular"
    BY <1>8 DEF Return
  <2> QED
    BY <1>1, <2>1, <2>2 DEF GInv, Added
<1> QED
  BY <1>4, <1>5, <1>6, <1>7, <1>8 DEF Next

(* A project in which all chains of imports that lead to a package are     *)
(* equally long is never rejected as circular, in whatever order the map   *)
(* is walked.                                                              *)
THEOREM GradedIsNeverCircular == Spec => []GradedIsAccepted
<1> DEFINE G == \A d \in Gradings : Grades(d) => GInv(d)
<1>1. Init => IInv /\ NInv /\ G
  BY IInvInit, NInvInit, GInvInit
<1>2. IInv /\ NInv /\ G /\ [Next]_vars => (IInv /\ NInv /\ G)'
  <2> SUFFICES ASSUME IInv, NInv, G, [Next]_vars PROVE (IInv /\ NInv /\ G)'
    OBVIOUS
  <2>1. IInv' /\ NInv' /\ TypeOK'
    BY IInvStep, NInvStep DEF IInv
  <2>2. imports' = imports
    BY DEF Next, AddPackage, CopyNewPackages, Visit, Return, project, vars
  <2>3. Needed' = Needed
    BY <2>2 DEF Needed, Reached, Step
  <2>4. ASSUME NEW d \in Gradings PROVE Grades(d)' => Grades(d)
    BY <2>2, <2>3 DEF Grades
  <2>5. ASSUME NEW d \in Gradings, Grades(d)' PROVE GInv(d)'
    BY <2>1, <2>4, <2>5, GInvStep
  <2> QED
    BY <2>1, <2>5
<1>3. G => GradedIsAccepted
  <2> SUFFICES ASSUME G, Graded PROVE outcome # "circular"
    BY DEF GradedIsAccepted
  <2>1. PICK d \in Gradings : Grades(d)
    BY DEF Graded, Gradings, Grades, DepthIn
  <2> QED
    BY <2>1 DEF GInv
<1> QED
  BY <1>1, <1>2, <1>3, PTL DEF Spec

=============================================================================
