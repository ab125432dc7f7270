------------------------------ MODULE MCCausalFT ------------------------------
EXTENDS CausalFT, TLC

(* The state without last_mitigation and the length of detected_faults: no *)
(* guard, no other variable and no property depends on them.               *)
View == <<nodes, executed, shared, position, stream, records, spell>>

Symmetry == Permutations(Node)
===============================================================================
