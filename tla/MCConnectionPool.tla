--------------------------- MODULE MCConnectionPool ---------------------------
(* Instances of ConnectionPool for TLC. *)
EXTENDS ConnectionPool, TLC

\* Callers and connections are interchangeable; used by the safety runs only.
Symmetry == Permutations(Callers) \cup Permutations(Conns)
==============================================================================
