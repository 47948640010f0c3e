------------------------------- MODULE MCLog --------------------------------
(* Log alone for TLC, with a buffer of one slot and nobody but the code to   *)
(* wake a thread that waits.                                                 *)
EXTENDS Log
=============================================================================
