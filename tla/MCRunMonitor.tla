---------------------------- MODULE MCRunMonitor ----------------------------
(* Three programs: one that fills pipe and reader, one that writes nothing, *)
(* one that writes more than they hold.                                    *)
EXTENDS RunMonitor

MCLines == [i \in 1..N |-> CASE i = 1 -> 3 [] i = 2 -> 0 [] i = 3 -> 5]
=============================================================================
