---------------------------- MODULE MCCommandPlan ----------------------------
(* A concrete phase and two deferred ones in a chain.                      *)
EXTENDS CommandPlan

Chain == [p \in {1, 2, 3} |-> IF p = 1 THEN {} ELSE {p - 1}]
Pair == [p \in {1, 2} |-> IF p = 1 THEN {} ELSE {1}]
=============================================================================
