-------------------------- MODULE MCSessionManager --------------------------
(* SessionManager with a few threads, ids and objects. *)
EXTENDS SessionManager

CONSTANTS t1, t2, i1, i2, o1, o2, u1
=============================================================================
