------------------------- MODULE MCStringOwnership -------------------------
(* The literals and characters with their sizes: "long" outgrows the spare *)
(* bytes of a concatenation, a character does not.                         *)
EXTENDS StringOwnership, TLC

MCSize == [c \in Lits \cup Chars |-> IF c = "long" THEN 40 ELSE 1]
\* Bound: a program that changes the caller's string has no local variable.
ChangeOrLocal == (\A b \in mains : mem.cell[b] = ArgCell) \/ declared \subseteq Params

Symmetry == Permutations(Blocks) \cup Permutations(Locals)
=============================================================================
