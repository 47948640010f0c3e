------------------------------ MODULE MCEpoll -------------------------------
(* Epoll for TLC: a few clients, more of them than descriptors.              *)
EXTENDS Epoll
=============================================================================
