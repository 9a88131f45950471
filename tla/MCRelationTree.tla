--------------------------- MODULE MCRelationTree ---------------------------
(* Small instance of RelationTree for TLC. *)
EXTENDS RelationTree, TLC

CONSTANTS e1, e2, e3, s1, s2

MCSchemaOf == [e \in {e1, e2, e3} |-> IF e = e3 THEN s2 ELSE s1]
MCRows == [from : {e1}, to : {e2, e3}] \union [from : {e2}, to : {e3}]
Symmetry == Permutations(RelIds)
=============================================================================
