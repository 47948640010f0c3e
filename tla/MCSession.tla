----------------------------- MODULE MCSession ------------------------------
(* Session for TLC: one bucket, so that codes meet in it, and threads that  *)
(* are alike.                                                               *)
EXTENDS Session, TLC

Symmetry == Permutations(Threads)
=============================================================================
