--------------------------- MODULE MCAdminSession ---------------------------
(* AdminSession for TLC: ids and threads are interchangeable.              *)
EXTENDS AdminSession, TLC

Symmetry == Permutations(Ids) \cup Permutations(Threads)
=============================================================================
