-------------------------------- MODULE Mdb ---------------------------------
(***************************************************************************)
(* The shared cache: mdb_insert and mdb_find, which the web server         *)
(* (Src/mdb/mdb_operate.c) and the cache server (Src/mdb/mdbserver.c)      *)
(* each contain, on one file mapping and one named mutex.                  *)
(*                                                                         *)
(* The mutex covers the two writes of an insert, and the comparison of a   *)
(* find but not the copying of the value.  Keys meet in the slot of their  *)
(* hash; one slot is modelled, since slots share nothing but the mutex.    *)
(***************************************************************************)
EXTENDS Integers, FiniteSets

CONSTANTS
  Views,        \* threads of the web server that run the views of mdb.c
  Workers,      \* threads of the cache server
  Keys,         \* keys of this slot
  Writers,      \* whoever values come from; a value is known by its writer
  Empty,        \* the empty string
  Torn          \* part of one value and part of another

Threads == Views \cup Workers

ASSUME MdbAssumption ==
  /\ IsFiniteSet(Threads)
  /\ Views \cap Workers = {}
  /\ {Empty, Torn} \cap (Keys \cup Writers \cup Threads) = {}

VARIABLES
  entry,        \* the slot: key and value
  mutex,        \* the thread that holds mdb_mutex, or Empty
  sp,           \* sp[t]: how far t's call has come
  arg,          \* arg[t]: its key, for an insert also the value
  res,          \* res[t]: what a find returns
  overlap,      \* history: threads whose copy an insert ran into
  inserted,     \* history: pairs of key and value inserted
  abandoned     \* history: a process died in the middle of an insert

mdbVars == <<entry, mutex, sp, arg, res, overlap, inserted, abandoned>>

NoArg == [key |-> Empty, value |-> Empty]

MdbInit ==
  /\ entry = NoArg
  /\ mutex = Empty
  /\ sp = [t \in Threads |-> "idle"]
  /\ arg = [t \in Threads |-> NoArg]
  /\ res = [t \in Threads |-> Empty]
  /\ overlap = {}
  /\ inserted = {}
  /\ abandoned = FALSE

\* Mutant: an insert does not wait for the mutex.
MutexFree_Always == TRUE

MutexFree == mutex = Empty

\* mdb_insert: the key is written under the mutex, and the value byte by byte;
\* threads that copy the value at this time may read parts of both.  When the
\* file cannot be mapped nothing is inserted, which the caller is not told.
mdb_insert(t, k, v) ==
  /\ sp[t] = "idle"
  /\ arg' = [arg EXCEPT ![t] = [key |-> k, value |-> v]]
  /\ \/ /\ MutexFree
        /\ mutex' = t
        /\ entry' = [key |-> k, value |-> Torn]
        /\ sp' = [sp EXCEPT ![t] = "write"]
        /\ overlap' = overlap \cup {u \in Threads : sp[u] = "copy"}
     \/ /\ sp' = [sp EXCEPT ![t] = "done"]
        /\ UNCHANGED <<mutex, entry, overlap>>
  /\ UNCHANGED <<res, inserted, abandoned>>

\* The value is complete and the mutex released.
WriteEnd(t) ==
  /\ sp[t] = "write"
  /\ entry' = [entry EXCEPT !.value = arg[t].value]
  /\ mutex' = Empty
  /\ inserted' = inserted \cup {arg[t]}
  /\ sp' = [sp EXCEPT ![t] = "done"]
  /\ UNCHANGED <<arg, res, overlap, abandoned>>

SameKey(k) == entry.key = k

\* mdb_find: the comparison under the mutex; without a match, or when the file
\* cannot be mapped, the empty string is returned.
mdb_find(t, k) ==
  /\ sp[t] = "idle"
  /\ arg' = [arg EXCEPT ![t] = [key |-> k, value |-> Empty]]
  /\ overlap' = overlap \ {t}
  /\ \/ MutexFree /\ SameKey(k) /\ sp' = [sp EXCEPT ![t] = "copy"] /\ UNCHANGED res
     \/ /\ MutexFree /\ ~SameKey(k)
        /\ sp' = [sp EXCEPT ![t] = "done"]
        /\ res' = [res EXCEPT ![t] = Empty]
     \/ /\ sp' = [sp EXCEPT ![t] = "done"]
        /\ res' = [res EXCEPT ![t] = Empty]
  /\ UNCHANGED <<entry, mutex, inserted, abandoned>>

\* The copy of the value, without the mutex.
Copy(t) ==
  /\ sp[t] = "copy"
  /\ \/ res' = [res EXCEPT ![t] = entry.value]
     \/ t \in overlap /\ res' = [res EXCEPT ![t] = Torn]
  /\ sp' = [sp EXCEPT ![t] = "done"]
  /\ UNCHANGED <<entry, mutex, arg, overlap, inserted, abandoned>>

\* The caller has used the result.
StoreDone(t) ==
  /\ sp[t] = "done"
  /\ sp' = [sp EXCEPT ![t] = "idle"]
  /\ arg' = [arg EXCEPT ![t] = NoArg]
  /\ res' = [res EXCEPT ![t] = Empty]
  /\ overlap' = overlap \ {t}
  /\ UNCHANGED <<entry, mutex, inserted, abandoned>>

\* The process of the threads in T dies.  Windows gives a mutex that one of
\* them holds to whoever waits for it next; the result of the wait, which
\* tells so, is not looked at.
Die(T) ==
  /\ mutex' = IF mutex \in T THEN Empty ELSE mutex
  /\ abandoned' = (abandoned \/ mutex \in T)
  /\ UNCHANGED <<entry, sp, arg, res, overlap, inserted>>

\* The views mdbinsert and mdbfind.
ViewStep(t) ==
  \/ \E k \in Keys : mdb_insert(t, k, t) \/ mdb_find(t, k)
  \/ WriteEnd(t)
  \/ Copy(t)
  \/ StoreDone(t)

-----------------------------------------------------------------------------
MdbTypeOK ==
  /\ entry \in [key : Keys \cup {Empty}, value : Writers \cup {Empty, Torn}]
  /\ mutex \in Threads \cup {Empty}
  /\ sp \in [Threads -> {"idle", "write", "copy", "done"}]
  /\ arg \in [Threads -> [key : Keys \cup {Empty}, value : Writers \cup {Empty}]]
  /\ res \in [Threads -> Writers \cup {Empty, Torn}]
  /\ overlap \in SUBSET Threads
  /\ inserted \in SUBSET [key : Keys, value : Writers]
  /\ abandoned \in BOOLEAN

\* What mdb_find returns for a key was inserted under this very key, although
\* other keys use the slot, two processes write it and the value is copied
\* without the mutex; unless an insert ran into the copy, or the slot was left
\* half written by a process that died.
FoundPair ==
  \A t \in Threads :
    sp[t] = "done" /\ res[t] # Empty =>
      \/ [key |-> arg[t].key, value |-> res[t]] \in inserted
      \/ t \in overlap
      \/ abandoned
=============================================================================
