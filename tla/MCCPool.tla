------------------------------ MODULE MCCPool -------------------------------
(* CPool alone for TLC: the cfg names a few threads and all callers.         *)
EXTENDS CPool
=============================================================================
