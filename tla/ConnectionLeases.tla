--------------------------- MODULE ConnectionLeases ---------------------------
(***************************************************************************)
(* What DbConnectionPool promises the code that runs statements.  A thread *)
(* is admitted while there is room, is given a connection nobody else has, *)
(* and keeps that one until it returns it.  Closing admits nobody any more *)
(* and takes nothing away: who was admitted before may still get a lease.  *)
(*                                                                         *)
(* There is no queue of idle connections here, no reservation and no       *)
(* waiting.  DbConnectionPool implements this specification (its property  *)
(* ImplementsLeases).                                                      *)
(***************************************************************************)
EXTENDS Naturals, FiniteSets

CONSTANTS Threads, Connections, PoolSizes

VARIABLES limit,  \* how many threads may be admitted
          closed,
          users,  \* the threads that are admitted
          lease   \* the connection each thread may use

leaseState == <<limit, closed, users, lease>>

NoLease == "none"

LeaseInit ==
    /\ limit = 0
    /\ closed = FALSE
    /\ users = {}
    /\ lease = [t \in Threads |-> NoLease]

\* init, once.
Open(size) ==
    /\ ~closed /\ limit = 0
    /\ limit' = size
    /\ UNCHANGED <<closed, users, lease>>

Admit(t) ==
    /\ ~closed /\ t \notin users /\ Cardinality(users) < limit
    /\ users' = users \cup {t}
    /\ UNCHANGED <<limit, closed, lease>>

\* getConnection returns.
Grant(t, c) ==
    /\ t \in users /\ lease[t] = NoLease
    /\ \A u \in Threads : lease[u] # c
    /\ lease' = [lease EXCEPT ![t] = c]
    /\ UNCHANGED <<limit, closed, users>>

\* getConnection throws: no connection answers.
GiveUp(t) ==
    /\ t \in users /\ lease[t] = NoLease
    /\ users' = users \ {t}
    /\ UNCHANGED <<limit, closed, lease>>

\* The lease goes out of scope.
Return(t) ==
    /\ lease[t] # NoLease
    /\ users' = users \ {t}
    /\ lease' = [lease EXCEPT ![t] = NoLease]
    /\ UNCHANGED <<limit, closed>>

\* The pool is destroyed.
Close ==
    /\ closed' = TRUE
    /\ UNCHANGED <<limit, users, lease>>

LeaseNext ==
    \/ \E size \in PoolSizes \ {0} : Open(size)
    \/ \E t \in Threads : Admit(t) \/ GiveUp(t) \/ Return(t)
    \/ \E t \in Threads, c \in Connections : Grant(t, c)
    \/ Close

LeaseSpec == LeaseInit /\ [][LeaseNext]_leaseState
=============================================================================
