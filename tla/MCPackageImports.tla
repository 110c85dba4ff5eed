--------------------------- MODULE MCPackageImports ---------------------------
(* All projects over a few packages.                                       *)
EXTENDS PackageImports
=============================================================================
