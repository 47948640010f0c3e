------------------------------- MODULE MCIocp -------------------------------
(* Iocp for TLC: few handles and addresses, so that they are reused.         *)
EXTENDS Iocp
=============================================================================
