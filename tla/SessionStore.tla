---------------------------- MODULE SessionStore ----------------------------
(***************************************************************************)
(* What the session module promises to views: a map from session code and  *)
(* name to a value and the time it was stored.  SessionCreate, SessionAdd  *)
(* and UpdateSessionData put one entry and leave all others as they are;   *)
(* entries are never removed, they expire.                                 *)
(***************************************************************************)
EXTENDS Naturals

CONSTANTS Codes, Keys, Values, None

VARIABLES
  store,    \* store[<<code, key>>]: what getSession finds, or None
  now

vars == <<store, now>>

Init ==
  /\ store = [e \in Codes \X Keys |-> None]
  /\ now = 0

Put(e) ==
  /\ store'[e] \in [data : Values, time_store : 0 .. now]
  /\ \A f \in DOMAIN store \ {e} : store'[f] = store[f]
  /\ UNCHANGED now

Tick ==
  /\ now' = now + 1
  /\ UNCHANGED store

Next == Tick \/ \E e \in Codes \X Keys : Put(e)

Spec == Init /\ [][Next]_vars
=============================================================================
