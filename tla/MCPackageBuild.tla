---------------------------- MODULE MCPackageBuild ----------------------------
(* Projects over three packages: every acyclic import graph whose packages *)
(* are sorted by name, two cycles; main or b may hold other things than    *)
(* one source file; b and c may have the same short name, c that of main   *)
(* or of the run-time library.                                             *)
EXTENDS PackageBuild, TLC

CONSTANTS a, b, c

Graph(m, x, y, z) == Root :> m @@ a :> x @@ b :> y @@ c :> z
Acyclic == {Graph(m, x, y, {}) : m \in SUBSET Pkgs \ {{}}, x \in SUBSET {b, c}, y \in SUBSET {c}}
MCGraphs == Acyclic \cup {Graph({a}, {b}, {a}, {}), Graph({b}, {}, {b}, {})}

OneSource == [n \in Nodes |-> <<"jkv">>]
Untidy == {<<>>, <<"jkv", "text">>, <<"jkv", "jkv">>, <<"jkv", "dir">>}
MCLayouts == {OneSource} \cup {[OneSource EXCEPT ![n] = u] : n \in {Root, b}, u \in Untidy}
TidyLayouts == {OneSource}

Distinct == [p \in Pkgs |-> p]
DistinctShorts == {Distinct}
MCShorts == {Distinct} \cup {[Distinct EXCEPT ![c] = n] : n \in {b, Root, Sys}}

=============================================================================
