----------------------------- MODULE PackageBuild -----------------------------
(***************************************************************************)
(* The builds of a project (compile.go, main.go): what ProcessPackage      *)
(* compiles, in which order, and what it leaves in the cache for the next  *)
(* run of the compiler.  A package counts as compiled when its directory   *)
(* is found in the cache, and the directory is made before the first line  *)
(* is compiled: a run that fails or is killed leaves it behind.  Between   *)
(* runs the programmer breaks and mends sources.                           *)
(*                                                                         *)
(* PackageImports shows what the import phase does; here it is one step.   *)
(***************************************************************************)
EXTENDS Integers, Sequences, FiniteSets

CONSTANTS
  Pkgs,      (* the packages, by mangled name                              *)
  Root,      (* "main"                                                     *)
  Lib,       (* the packages in the library, which -clean builds           *)
  Graphs,    (* the import graphs of the projects                          *)
  Layouts,   (* the kinds of the entries of each directory, in their order *)
  Sys,       (* "sys", the name of the run-time library's object           *)
  Shorts,    (* the functions ShortName may be on the packages             *)
  Kills,     (* whether the compiler may be killed                         *)
  MaxRuns,   (* bound: runs of the compiler                                *)
  MaxCalls   (* the calls of ProcessPackage that overflow the stack        *)

Kinds == {"jkv", "text", "dir"}
Nodes == Pkgs \cup {Root}

ASSUME BuildAssumption ==
  /\ Root \notin Pkgs /\ IsFiniteSet(Pkgs) /\ Lib \subseteq Pkgs
  /\ Graphs \subseteq [Nodes -> SUBSET Pkgs]
  /\ Layouts \subseteq [Nodes -> Seq(Kinds)]
  /\ Kills \in BOOLEAN
  /\ MaxRuns \in Nat /\ MaxCalls \in Nat \ {0}

VARIABLES
  files,    (* the entries of each source directory, with their imports    *)
  short,    (* the name of each package's .asm and .obj file               *)
  broken,   (* the directories whose first file does not compile           *)
  asm,      (* the cache: no directory, one without a finished .asm, full  *)
  pkg,      (* the packages with an import.pkg in the cache                *)
  known,    (* the keys of Packages                                        *)
  compiled, (* those with isCompiled                                       *)
  used,     (* those with currentlyUsed                                    *)
  stack,    (* the calls of ProcessPackage                                 *)
  lib,      (* the packages BuildLib has yet to process                    *)
  phase,    (* what main is doing                                          *)
  status,   (* how the last run ended                                      *)
  clean,    (* the run was given -clean                                    *)
  sound,    (* history: the cache was sound when CompileDir was called     *)
  runs

project == <<files, short, broken>>
cache == <<asm, pkg>>
packages == <<known, compiled, used>>
run == <<clean, sound, runs>>
vars == <<project, cache, packages, stack, lib, phase, status, run>>

Phases == {"idle", "removing", "lib", "imports", "packages", "build"}
Statuses ==
  {"none", "running", "ok", "rejected", "error", "panic", "overflow", "killed"}

File == [kind : Kinds, imports : SUBSET Pkgs]

(* A call of ProcessPackage: the imported packages it has yet to compile   *)
(* and the entry of the directory it is at.                                *)
Frame ==
  [pkg : Nodes, doing : {"collect", "deps", "files"}, todo : SUBSET Pkgs, next : Nat]
Call(n) == [pkg |-> n, doing |-> "collect", todo |-> {}, next |-> 1]

Top == stack[Len(stack)]
SetTop(frame) == [stack EXCEPT ![Len(stack)] = frame]
Pop == SubSeq(stack, 1, Len(stack) - 1)

Imports(n) == UNION {files[n][i].imports : i \in DOMAIN files[n]}
Cached == {p \in Pkgs : asm[p] # "none"}

(* The packages on a chain of imports that starts in S.                    *)
Chain(S) ==
  LET R[n \in Nat] == IF n = 0 THEN S ELSE R[n - 1] \cup UNION {Imports(p) : p \in R[n - 1]}
  IN  R[Cardinality(Pkgs)]
Needed == Chain(Imports(Root))
Cyclic == \E p \in Needed : p \in Chain(Imports(p))

(* All chains of imports that lead to a package are equally long.          *)
Graded ==
  \E depth \in [Nodes -> 0 .. Cardinality(Pkgs)] :
    /\ depth[Root] = 0
    /\ \A n \in Needed \cup {Root} : \A q \in Imports(n) : depth[q] = depth[n] + 1

-----------------------------------------------------------------------------
(* How a run ends.                                                         *)

End(s) ==
  /\ phase' = "idle" /\ status' = s /\ stack' = <<>> /\ lib' = {}

(* ProcessPackage returns an error, and so do its callers.  main puts the  *)
(* result of os.Stat where it had the error of BuildLib and goes on.       *)
Fail ==
  IF phase = "lib"
  THEN /\ phase' = "imports" /\ stack' = <<>> /\ lib' = {}
       /\ UNCHANGED status
  ELSE End("error")

Kill ==
  /\ Kills /\ phase # "idle"
  /\ End("killed")
  /\ UNCHANGED <<project, cache, packages, run>>

-----------------------------------------------------------------------------
(* main before CompileDir.                                                 *)

(* The sources are edited between runs.                                    *)
Edit(n) ==
  /\ phase = "idle"
  /\ broken' = IF n \in broken THEN {} ELSE {n}
  /\ status' = "none"
  /\ UNCHANGED <<files, short, cache, packages, stack, lib, phase, run>>

Start(c) ==
  /\ phase = "idle" /\ runs < MaxRuns
  /\ known' = {} /\ compiled' = {} /\ used' = {}
  /\ phase' = IF c THEN "removing" ELSE "imports"
  /\ lib' = IF c THEN Lib ELSE {}
  /\ status' = "running"
  /\ clean' = c /\ sound' = FALSE /\ runs' = runs + 1
  /\ UNCHANGED <<project, cache, stack>>

(* RemoveAll deletes one file after the other, then the directory.         *)
Remove(p) ==
  /\ phase = "removing" /\ p \in Cached
  /\ \/ /\ asm[p] = "full"
        /\ asm' = [asm EXCEPT ![p] = "part"]
        /\ pkg' \in {pkg, pkg \ {p}}
     \/ /\ asm' = [asm EXCEPT ![p] = "none"]
        /\ pkg' = pkg \ {p}
  /\ UNCHANGED <<project, packages, stack, lib, phase, status, run>>

(* Nothing is left (mutant: of the library).                               *)
LibIsGone == Lib \cap Cached = {}
AllIsGone == Cached = {}

Removed ==
  /\ phase = "removing" /\ AllIsGone
  /\ phase' = "lib"
  /\ UNCHANGED <<project, cache, packages, stack, lib, status, run>>

(* BuildLib: one directory of the library after the other, in the order of *)
(* their names, which the model leaves open.                               *)
BuildLib(p) ==
  /\ phase = "lib" /\ stack = <<>> /\ p \in lib
  /\ stack' = <<Call(p)>> /\ lib' = lib \ {p}
  /\ UNCHANGED <<project, cache, packages, phase, status, run>>

BuildLibDone ==
  /\ phase = "lib" /\ stack = <<>> /\ lib = {}
  /\ phase' = "imports"
  /\ UNCHANGED <<project, cache, packages, stack, lib, status, run>>

-----------------------------------------------------------------------------
(* CompileDir: the import phase.  AddPackage computes isCompiled once, when *)
(* it first meets the package.  A package BuildLib has met has level 0,    *)
(* which makes every import of it circular.  (Mutants: the directory is    *)
(* looked for among the sources; all of the cache is taken.)               *)

IsInSources(new) == compiled \cup new
IsInCache(new) == Cached
IsCompiled(new) == compiled \cup (new \cap Cached)

ImportsAccepted ==
  /\ phase = "imports"
  /\ ~Cyclic /\ Needed \cap known = {}
  /\ sound' = (\A p \in Cached : /\ asm[p] = "full" /\ p \in pkg
                                /\ Imports(p) \subseteq Cached)
  /\ known' = known \cup Needed /\ used' = used \cup Needed
  /\ compiled' = IsCompiled(Needed)
  /\ stack' = <<Call(Root)>> /\ phase' = "packages"
  /\ UNCHANGED <<project, cache, lib, status, clean, runs>>

ImportsRejected ==
  /\ phase = "imports"
  /\ Needed \cap known # {} \/ ~Graded
  /\ End("rejected")
  /\ UNCHANGED <<project, cache, packages, run>>

-----------------------------------------------------------------------------
(* ProcessPackage.                                                         *)

(* The imports of every entry are collected, text files included; a        *)
(* directory is an error.  Before each entry currentlyUsed is cleared      *)
(* (mutants: only before the first; never).                                *)
Read(n) ==
  {i \in DOMAIN files[n] : \A j \in 1 .. i : files[n][j].kind # "dir"}

UsedByAll(n) == IF Read(n) = {} THEN used ELSE Imports(n)
UsedByAnyone(n) == used \cup Imports(n)
UsedByLast(n) == IF Read(n) = {} THEN used ELSE files[n][Cardinality(Read(n))].imports

(* The packages to compile (mutant: compiled or not).                      *)
UsedPackages == {p \in known' : p \in used'}
Uncompiled == {p \in known' : p \notin compiled' /\ p \in used'}

Collect ==
  /\ stack # <<>> /\ Top.doing = "collect"
  /\ LET new == (UNION {files[Top.pkg][i].imports : i \in Read(Top.pkg)}) \ known
     IN  known' = known \cup new /\ compiled' = IsCompiled(new)
  /\ used' = UsedByLast(Top.pkg)
  /\ IF Read(Top.pkg) # DOMAIN files[Top.pkg]
     THEN Fail
     ELSE /\ stack' = SetTop([Top EXCEPT !.doing = "deps", !.todo = Uncompiled])
          /\ UNCHANGED <<lib, phase, status>>
  /\ UNCHANGED <<project, cache, run>>

(* The recursive call for one of them; there is no test whether the        *)
(* package is being compiled already.                                      *)
Descend(p) ==
  /\ stack # <<>> /\ Top.doing = "deps" /\ p \in Top.todo
  /\ IF Len(stack) = MaxCalls
     THEN End("overflow")
     ELSE /\ stack' = Append(SetTop([Top EXCEPT !.todo = @ \ {p}]), Call(p))
          /\ UNCHANGED <<lib, phase, status>>
  /\ UNCHANGED <<project, cache, packages, run>>

(* MkdirAll and InitCompile: the .asm file is created and its prologue     *)
(* written; main's goes to the build directory                             *)
(* (mutant: some imports are not compiled).                        *)
DepsStarted == TRUE
DepsDone == Top.todo = {}

InitCompile ==
  /\ stack # <<>> /\ Top.doing = "deps" /\ DepsDone
  /\ asm' = IF Top.pkg = Root THEN asm ELSE [asm EXCEPT ![Top.pkg] = "part"]
  /\ used' = {}
  /\ stack' = SetTop([Top EXCEPT !.doing = "files"])
  /\ UNCHANGED <<project, pkg, known, compiled, lib, phase, status, run>>

Entry == files[Top.pkg][Top.next]
EarlierFile == \E i \in 1 .. Top.next - 1 : files[Top.pkg][i].kind = "jkv"

(* One entry: import.pkg of each import is read, the file compiled, the    *)
(* .asm file closed.  For a second file it is not opened again, and the    *)
(* first Write panics.  (Mutant: the epilogue is not written.)  What an    *)
(* import.pkg says is not modelled, each is taken to be readable: one that *)
(* is not would leave code.NoCode raised behind a failing BuildLib.        *)
NoEpilogue(n) == asm
Finished(n) == IF n = Root THEN asm ELSE [asm EXCEPT ![n] = "full"]

CompileEntry ==
  /\ stack # <<>> /\ Top.doing = "files" /\ Top.next <= Len(files[Top.pkg])
  /\ IF Entry.kind # "jkv"
     THEN /\ stack' = SetTop([Top EXCEPT !.next = @ + 1])
          /\ UNCHANGED <<asm, used, lib, phase, status>>
     ELSE IF ~(Entry.imports \subseteq pkg)
     THEN Fail /\ UNCHANGED <<asm, used>>
     ELSE IF EarlierFile
     THEN End("panic") /\ UNCHANGED <<asm, used>>
     ELSE IF Top.pkg \in broken
     THEN Fail /\ UNCHANGED <<asm, used>>
     ELSE /\ asm' = Finished(Top.pkg)
          /\ used' = Entry.imports
          /\ stack' = SetTop([Top EXCEPT !.next = @ + 1])
          /\ UNCHANGED <<lib, phase, status>>
  /\ UNCHANGED <<project, pkg, known, compiled, run>>

(* OutputPkgFile and AssembleFiles; the call returns.                      *)
OutputPkgFile ==
  /\ stack # <<>> /\ Top.doing = "files" /\ Top.next > Len(files[Top.pkg])
  /\ asm' = Finished(Top.pkg)
  /\ pkg' = pkg \cup ({Top.pkg} \ {Root})
  /\ stack' = Pop
  /\ phase' = IF Len(stack) = 1 /\ phase = "packages" THEN "build" ELSE phase
  /\ UNCHANGED <<project, packages, lib, status, run>>

(***************************************************************************)
(* Build and Link: every directory of the cache is assembled into the      *)
(* build directory, one object per short name, the later over the earlier: *)
(* over the sys.obj that main copied there, and under main.obj.  Then all  *)
(* objects are linked.  An unfinished .asm may not assemble.               *)
(***************************************************************************)
Clash(p, q) == p # q /\ short[p] = short[q]
HidesSys == \E p \in Cached : short[p] = Sys
HiddenByMain == \E p \in Needed : short[p] = Root

MayLink ==
  /\ \A p \in Needed : asm[p] = "full"
  /\ ~ \E p \in Needed, q \in Needed : Clash(p, q)
  /\ ~HidesSys /\ ~HiddenByMain
MayNotLink ==
  \/ \E p \in Cached : asm[p] = "part"
  \/ ~(Needed \subseteq Cached)
  \/ \E p \in Needed, q \in Cached : Clash(p, q)
  \/ HidesSys \/ HiddenByMain

BuildLink ==
  /\ phase = "build"
  /\ \/ MayLink /\ End("ok")
     \/ MayNotLink /\ End("error")
  /\ UNCHANGED <<project, cache, packages, run>>

-----------------------------------------------------------------------------

(* A directory's first .jkv file holds its imports.                        *)
Directory(layout, imports) ==
  [i \in DOMAIN layout |->
     [kind |-> layout[i],
      imports |-> IF layout[i] = "jkv" /\ \A j \in 1 .. i - 1 : layout[j] # "jkv"
                  THEN imports ELSE {}]]

InitFor(graph, layout, names) ==
  /\ files = [n \in Nodes |-> Directory(layout[n], graph[n])]
  /\ short = names /\ broken = {}
  /\ asm = [p \in Pkgs |-> "none"] /\ pkg = {}
  /\ known = {} /\ compiled = {} /\ used = {}
  /\ stack = <<>> /\ lib = {} /\ phase = "idle" /\ status = "none"
  /\ clean = FALSE /\ sound = FALSE /\ runs = 0

Init ==
  \E graph \in Graphs, layout \in Layouts, names \in Shorts :
    InitFor(graph, layout, names)

Next ==
  \/ \E n \in Nodes : Edit(n)
  \/ \E c \in BOOLEAN : Start(c)
  \/ \E p \in Pkgs : Remove(p) \/ BuildLib(p) \/ Descend(p)
  \/ Removed \/ BuildLibDone
  \/ ImportsAccepted \/ ImportsRejected
  \/ Collect \/ InitCompile \/ CompileEntry \/ OutputPkgFile
  \/ BuildLink
  \/ Kill

Spec == Init /\ [][Next]_vars

-----------------------------------------------------------------------------
(* Type invariant.                                                         *)
TypeOK ==
  /\ files \in [Nodes -> Seq(File)] /\ short \in Shorts /\ broken \subseteq Nodes
  /\ asm \in [Pkgs -> {"none", "part", "full"}] /\ pkg \subseteq Cached
  /\ known \subseteq Pkgs /\ compiled \subseteq known /\ used \subseteq known
  /\ stack \in Seq(Frame) /\ Len(stack) <= MaxCalls
  /\ lib \subseteq Lib
  /\ phase \in Phases /\ status \in Statuses
  /\ phase # "idle" <=> status = "running"
  /\ clean \in BOOLEAN /\ sound \in BOOLEAN /\ runs \in 0 .. MaxRuns

(* A cache a build can rely on: what is there is finished, and so is what  *)
(* it imports.                                                             *)
SoundCache ==
  \A p \in Cached : asm[p] = "full" /\ p \in pkg /\ Imports(p) \subseteq Cached

(* A directory with one source file as its last entry, and no directories: *)
(* the imports of the last entry are the ones ProcessPackage compiles.     *)
OneFile(n) ==
  /\ files[n] # <<>>
  /\ \A i \in DOMAIN files[n] :
       files[n][i].kind = IF i = Len(files[n]) THEN "jkv" ELSE "text"

Tidy(S) == \A n \in S : OneFile(n)

(* Behind the calls for its imports, a package is compiled against         *)
(* finished packages only: none is absent, and none is being compiled by a *)
(* call further up or has been left half compiled by a recompilation.      *)
ImportsReady ==
  \A i \in DOMAIN stack :
    stack[i].doing = "files" /\ phase = "packages" =>
      \A q \in Imports(stack[i].pkg) : asm[q] = "full" /\ q \in pkg

SoundImportsReady == sound /\ Tidy(Needed \cup {Root}) => ImportsReady

(* ProcessPackage, which does not test whether a package is being compiled *)
(* already, runs out of stack on import cycles and on directories without  *)
(* entries only: all else is compiled by a recursion that ends, for the    *)
(* library as well, in every order and with every cache.                   *)
OverflowIsCyclic ==
  status = "overflow" =>
    \/ \E p \in Pkgs : p \in Chain(Imports(p))
    \/ \E n \in Nodes : files[n] = <<>>

(* From a sound cache, a project of compilable one-file directories with   *)
(* distinct short names, none of them main or sys, is either rejected by   *)
(* the import phase or built:                                              *)
(* every package it needs is compiled in time, the recursion does not run  *)
(* into itself, and all objects are there for the linker.                  *)
GoodBuildsLink ==
  /\ sound /\ broken = {} /\ Tidy(Needed \cup {Root})
  /\ ~ \E p \in Pkgs, q \in Pkgs : Clash(p, q)
  /\ \A p \in Pkgs : short[p] \notin {Root, Sys}
  => status \notin {"error", "panic", "overflow"}

(* A run that starts from a sound cache unfinishes at most one package,    *)
(* however it ends: the one it was compiling when it failed or was killed, *)
(* perhaps for the second time; what is finished has its imports beside    *)
(* it.  A run that ends well leaves nothing unfinished.                    *)
Unfinished == {p \in Cached : asm[p] = "part" \/ p \notin pkg}

OneUnfinished ==
  sound =>
    /\ Cardinality(Unfinished) <= (IF status = "ok" THEN 0 ELSE 1)
    /\ \A p \in Cached \ Unfinished : Imports(p) \subseteq Cached

(* -clean recovers from whatever failed and killed runs have left, if the  *)
(* packages of the library and what they import compile.                   *)
CleanIsSound ==
  /\ phase = "imports" /\ clean
  /\ broken \cap Chain(Lib) = {} /\ Tidy(Chain(Lib))
  => SoundCache

(* A package that was in the cache when it was first imported stays as it  *)
(* is until the cache is removed, whoever imports it and however the run   *)
(* ends.                                                                   *)
CachedUntouched ==
  [][\A p \in compiled : asm'[p] = asm[p] /\ (p \in pkg' <=> p \in pkg)]_vars

=============================================================================
