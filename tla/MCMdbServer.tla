---------------------------- MODULE MCMdbServer -----------------------------
(* MdbServer for TLC: two clients, two threads and one view on one slot.     *)
EXTENDS MdbServer, TLC

MCWriters == Clients \cup Views

\* The members of these sets are only compared.
Symmetry == Permutations(Workers) \cup Permutations(Clients) \cup Permutations(Keys)
=============================================================================
