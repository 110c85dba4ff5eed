---------------------------- MODULE PackageImports ----------------------------
(***************************************************************************)
(* How the compiler finds the packages of a project and what it takes for  *)
(* an import cycle (compile.go): CollectPackageImports reads the imports   *)
(* of one package, records the new ones one level deeper in the global map *)
(* Packages, then calls itself for the packages recorded below its level.  *)
(* AddPackage reports a cycle when an import is already recorded at a      *)
(* level above the importer's.  The map is walked in Go's random order.    *)
(***************************************************************************)
EXTENDS Integers, Sequences, FiniteSets

CONSTANTS
  Pkgs,    (* the names that can be imported                               *)
  Root     (* "main", the directory being compiled, which is not a package *)

ASSUME PackageAssumption == Root \notin Pkgs /\ IsFiniteSet(Pkgs)

Nodes == Pkgs \cup {Root}

VARIABLES
  imports,  (* the import statements in the .jkv files of each directory   *)
  present,  (* the packages with a directory in lib or imports             *)
  level,    (* PackageInfo.level of each package, 0 if not in Packages     *)
  stack,    (* the calls of CollectPackageImports, the outermost first     *)
  outcome   (* "running", "ok" or the error                                *)

vars == <<imports, present, level, stack, outcome>>
project == <<imports, present>>

Outcomes == {"running", "ok", "circular", "missing"}

(* A call: its package, whether it still reads files, the imports it has   *)
(* yet to read, and the packages it has yet to visit.                      *)
Frame == [pkg : Nodes, reading : BOOLEAN, unread : SUBSET Pkgs, todo : SUBSET Pkgs]

Call(p) == [pkg |-> p, reading |-> TRUE, unread |-> imports[p], todo |-> {}]

(* The parameter "level" of the newest call is the number of calls below   *)
(* it, so that the files it reads are parsed with State.Level = Depth.     *)
Depth == Len(stack)
Top == stack[Depth]

Added(p) == level[p] > 0

-----------------------------------------------------------------------------

(* The test for a cycle: q was recorded at a higher level than the files   *)
(* being read (mutants: off by one either way, and no test).               *)
FarHigher(q) == level[q] < Depth - 1
NotDeeper(q) == level[q] <= Depth
Untested(q) == FALSE
Higher(q) == level[q] < Depth

(* ParseImport of one import statement: AddPackage.                        *)
AddPackage(q) ==
  /\ outcome = "running" /\ Top.reading /\ q \in Top.unread
  /\ IF Added(q)
     THEN /\ outcome' = IF Higher(q) THEN "circular" ELSE outcome
          /\ level' = level
     ELSE /\ outcome' = IF q \in present THEN outcome ELSE "missing"
          /\ level' = IF q \in present THEN [level EXCEPT ![q] = Depth] ELSE level
  /\ stack' = [stack EXCEPT ![Depth].unread = @ \ {q}]
  /\ UNCHANGED project

(* All files of the directory are read: the packages recorded so far below *)
(* this level are copied to newPackages (mutant: one level too deep).      *)
PackagesFarBelow == {p \in Pkgs : level[p] > Depth}
PackagesBelow == {p \in Pkgs : level[p] > Depth - 1}

CopyNewPackages ==
  /\ outcome = "running" /\ Top.reading /\ Top.unread = {}
  /\ stack' = [stack EXCEPT ![Depth].reading = FALSE,
                            ![Depth].todo = PackagesBelow]
  /\ UNCHANGED <<project, level, outcome>>

(* The recursive call for one of them (mutant: it is never crossed off).   *)
VisitAgain(p) ==
  /\ outcome = "running" /\ ~Top.reading /\ p \in Top.todo
  /\ stack' = Append(stack, Call(p))
  /\ UNCHANGED <<project, level, outcome>>

Visit(p) ==
  /\ outcome = "running" /\ ~Top.reading /\ p \in Top.todo
  /\ stack' = Append([stack EXCEPT ![Depth].todo = @ \ {p}], Call(p))
  /\ UNCHANGED <<project, level, outcome>>

(* The call returns; CompileDir has its answer when the outermost does     *)
(* (mutant: the calls are counted from zero).                              *)
OutermostIsZero == Depth = 0
Outermost == Depth = 1

Return ==
  /\ outcome = "running" /\ ~Top.reading /\ Top.todo = {}
  /\ stack' = SubSeq(stack, 1, Depth - 1)
  /\ outcome' = IF Outermost THEN "ok" ELSE "running"
  /\ UNCHANGED <<project, level>>

-----------------------------------------------------------------------------

InitFor(graph, found) ==
  /\ imports = graph /\ present = found
  /\ level = [p \in Pkgs |-> 0]
  /\ stack = <<Call(Root)>>
  /\ outcome = "running"

Init ==
  \E graph \in [Nodes -> SUBSET Pkgs], found \in SUBSET Pkgs : InitFor(graph, found)

Next ==
  \/ \E q \in Pkgs : AddPackage(q) \/ Visit(q)
  \/ CopyNewPackages
  \/ Return

(* The compiler is one thread that does nothing else.                      *)
Spec == Init /\ [][Next]_vars /\ WF_vars(Next)

-----------------------------------------------------------------------------

(* Type invariant: the map and the call stack have the shapes of the code. *)
TypeOK ==
  /\ imports \in [Nodes -> SUBSET Pkgs] /\ present \subseteq Pkgs
  /\ level \in [Pkgs -> Nat]
  /\ stack \in Seq(Frame)
  /\ outcome \in Outcomes
  /\ outcome = "running" => stack # <<>>

Level(u) == IF u = Root THEN 0 ELSE level[u]
Collected == {u \in Nodes : u = Root \/ Added(u)}

(* When the imports are accepted, every import of every recorded package   *)
(* is recorded itself, at a strictly deeper level: AddPackage's test on    *)
(* the levels misses no edge, in whatever order packages are visited and   *)
(* whichever call records them first.                                      *)
LevelsIncrease ==
  outcome = "ok" => \A u \in Collected : \A v \in imports[u] : level[v] > Level(u)

(* The packages the project needs: those reached by a chain of imports.    *)
Step(S) == S \cup UNION {imports[u] : u \in S}
Reached[n \in Nat] == IF n = 0 THEN {Root} ELSE Step(Reached[n - 1])
Needed == Reached[Cardinality(Pkgs)]

(* An accepted project has recorded exactly the packages it needs.         *)
CollectsNeeded == outcome = "ok" => Collected = Needed

(* Every package on a chain of imports that leads from a package to itself *)
From(p) == LET R[n \in Nat] == IF n = 0 THEN imports[p] ELSE Step(R[n - 1])
           IN  R[Cardinality(Pkgs)]
Cyclic == \E p \in Needed \ {Root} : p \in From(p)

(* A project with an import cycle is never accepted.                       *)
AcceptedIsAcyclic == outcome = "ok" => ~Cyclic

(* The other way round, for the projects in which all chains of imports    *)
(* that lead to a package are equally long: these are never rejected as    *)
(* circular, whatever the order of visits.                                 *)
Graded ==
  \E depth \in [Pkgs -> 1 .. Cardinality(Pkgs)] :
    \A u \in Needed : \A v \in imports[u] :
      depth[v] = 1 + (IF u = Root THEN 0 ELSE depth[u])

GradedIsAccepted == Graded => outcome # "circular"

(* The error text is "circular package import": a project reported so has  *)
(* an import cycle.                                                        *)
CircularIsCyclic == outcome = "circular" => Cyclic

(* The recursion ends, for cyclic projects too.                            *)
Terminates == <>(outcome # "running")

=============================================================================
