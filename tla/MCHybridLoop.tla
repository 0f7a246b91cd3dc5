---------------------------- MODULE MCHybridLoop ----------------------------
(* Small instances of HybridLoop.                                          *)
EXTENDS HybridLoop

One == [t \in Tasks |-> 1]
Two == [t \in Tasks |-> 2]

(* The first task may ask twice, the others once.                          *)
FirstTwo == [t \in Tasks |-> IF t = 1 THEN 2 ELSE 1]
=============================================================================
