--------------------------- MODULE MCYaffsObjects ---------------------------
(* Ids, names and contents are interchangeable: nothing orders them and    *)
(* nothing chooses among them.                                             *)
EXTENDS YaffsObjects, TLC

Alike == Permutations(Ids) \cup Permutations(Names) \cup Permutations(Vals)
=============================================================================
