------------------------- MODULE MCDbConnectionPool -------------------------
(* DbConnectionPool with a few threads and connections. *)
EXTENDS DbConnectionPool

CONSTANTS t1, t2, t3, c1, c2, c3
=============================================================================
