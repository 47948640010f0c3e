------------------------------ MODULE MCPools -------------------------------
(***************************************************************************)
(* The two pools of the server, for TLC: the MySQL connections and the     *)
(* memory blocks.  They share nothing, so a behaviour is one of the one or *)
(* one of the other; job says which, and the other pool stays as it        *)
(* begins.  total_size is no multiple of block_size in the cfg.            *)
(***************************************************************************)
EXTENDS CPool, MPool

VARIABLE job

PoolsInit == Init /\ MPoolInit /\ job \in {"mysql", "memory"}

Mysql(A)  == job = "mysql" /\ A /\ UNCHANGED <<mpoolvars, job>>
Memory(A) == job = "memory" /\ A /\ UNCHANGED <<vars, job>>

\* The fairness of CPool where its threads run; clients of the blocks do what they like.
PoolsSpec ==
  /\ PoolsInit /\ [][Mysql(Next) \/ Memory(MPoolNext)]_<<vars, mpoolvars, job>>
  /\ WF_vars(Mysql(mysql_pool_init))
  /\ \A t \in Threads :
       /\ WF_vars(Mysql(AfterWait(t)))
       /\ WF_vars(Mysql(ReturnWithoutConn(t) \/ ReturnConn(t) \/ ExeSqlQueryError(t)))
=============================================================================
