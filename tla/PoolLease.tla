------------------------------ MODULE PoolLease ------------------------------
(***************************************************************************)
(* What a user of SshConnectionPool is promised, without the locks, the    *)
(* liveness pings, the health check or the statistics: at most Capacity    *)
(* data connections are open, a transfer works on an open connection that  *)
(* no other transfer works on, and a connection is closed only while no    *)
(* transfer works on it.                                                   *)
(***************************************************************************)
EXTENDS Integers, FiniteSets

CONSTANTS Callers,   \* the transfer tasks
          Conns,     \* the identities a data connection can have
          Capacity,  \* PoolConfig::max_data_connections
          NoConn     \* "this caller holds no connection"

VARIABLES open,      \* the data connections that exist
          lent       \* the connection each caller works on, or NoConn

vars == <<open, lent>>

Lent == {lent[c] : c \in Callers} \ {NoConn}

Init == /\ open = {}
        /\ lent = [c \in Callers |-> NoConn]

Dial(k) == /\ k \notin open
           /\ Cardinality(open) < Capacity
           /\ open' = open \cup {k}
           /\ UNCHANGED lent

Close(ks) == /\ ks \cap Lent = {}
             /\ open' = open \ ks
             /\ UNCHANGED lent

Grant(c, k) == /\ lent[c] = NoConn
               /\ k \in open \ Lent
               /\ lent' = [lent EXCEPT ![c] = k]
               /\ UNCHANGED open

Return(c) == /\ lent[c] # NoConn
             /\ lent' = [lent EXCEPT ![c] = NoConn]
             /\ UNCHANGED open

Next == \/ \E k \in Conns : Dial(k)
        \/ \E ks \in SUBSET Conns : Close(ks)
        \/ \E c \in Callers, k \in Conns : Grant(c, k)
        \/ \E c \in Callers : Return(c)

Spec == Init /\ [][Next]_vars
==============================================================================
