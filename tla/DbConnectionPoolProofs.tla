------------------------ MODULE DbConnectionPoolProofs ------------------------
(***************************************************************************)
(* Proofs about DbConnectionPool, for every set of threads and every pool  *)
(* size.                                                                   *)
(***************************************************************************)
EXTENDS DbConnectionPool, FiniteSetTheorems, SequenceTheorems, TLAPS

-----------------------------------------------------------------------------
(* The inductive invariant *)

\* A thread past the creation owns a connection: what the deleter pushes into the
\* idle queue is one.
Owned ==
    \A t \in Threads : pc[t] \in Holding \ {"create", "failed"} => conn[t] \in Connections

\* Nothing is allocated before init, and the destructor stops the pool first.
Order == (~initialized => target = 0) /\ (owner # "alive" => stopping)

Counted == TypeOK /\ AllocatedExact /\ Owned /\ Order

\* A thread moves from one place to another: how the number of holders changes.
LEMMA HoldersMove ==
    ASSUME TypeOK, NEW t \in Threads, NEW place \in Places, Goto(t, place)
    PROVE  /\ pc' \in [Threads -> Places]
           /\ pc'[t] = place
           /\ \A u \in Threads \ {t} : pc'[u] = pc[u]
           /\ Cardinality(Holders) \in Nat
           /\ (pc[t] \in Holding <=> place \in Holding)
                  => Cardinality(Holders') = Cardinality(Holders)
           /\ pc[t] \notin Holding /\ place \in Holding
                  => Cardinality(Holders') = Cardinality(Holders) + 1
           /\ pc[t] \in Holding /\ place \notin Holding
                  => Cardinality(Holders') = Cardinality(Holders) - 1
<1>1. /\ pc' \in [Threads -> Places] /\ pc'[t] = place
      /\ \A u \in Threads \ {t} : pc'[u] = pc[u]
  BY DEF Goto, TypeOK
<1>2. Holders \subseteq Threads /\ IsFiniteSet(Holders) /\ Cardinality(Holders) \in Nat
  BY ThreadsAssumption, FS_Subset, FS_CardinalityType DEF Holders
<1>3. ASSUME pc[t] \in Holding <=> place \in Holding
      PROVE  Holders' = Holders
  BY <1>1, <1>3 DEF Holders
<1>4. ASSUME pc[t] \notin Holding, place \in Holding
      PROVE  Cardinality(Holders') = Cardinality(Holders) + 1
  <2>1. Holders' = Holders \cup {t} /\ t \notin Holders
    BY <1>1, <1>4 DEF Holders
  <2> QED BY <1>2, <2>1, FS_AddElement
<1>5. ASSUME pc[t] \in Holding, place \notin Holding
      PROVE  Cardinality(Holders') = Cardinality(Holders) - 1
  <2>1. Holders' = Holders \ {t} /\ t \in Holders
    BY <1>1, <1>5 DEF Holders
  <2> QED BY <1>2, <2>1, FS_RemoveElement
<1> QED BY <1>1, <1>2, <1>3, <1>4, <1>5

\* The idle queue and its head and tail.
LEMMA IdleParts ==
    ASSUME TypeOK
    PROVE  /\ Len(idle) \in Nat
           /\ idle # <<>> => /\ Head(idle) \in Connections /\ Head(idle) = idle[1]
                             /\ Tail(idle) \in Seq(Connections)
                             /\ Len(Tail(idle)) = Len(idle) - 1
BY DEF TypeOK

\* The part of getConnection that follows the wait.
LEMMA TakeCounted ==
    ASSUME Counted, NEW t \in Threads, pc[t] \in {"out", "waiting", "woken"},
           Ready, Take(t), UNCHANGED <<initialized, stopping, target, owner, serverVars>>
    PROVE  Counted'
<1> USE DEF Counted
<1>1. pc[t] \notin Holding
  BY DEF Holding
<1>2. CASE stopping /\ Goto(t, "out") /\ UNCHANGED <<conn, idle, allocated>>
  <2>1. /\ pc' \in [Threads -> Places] /\ pc'[t] = "out"
        /\ \A u \in Threads \ {t} : pc'[u] = pc[u]
        /\ Cardinality(Holders') = Cardinality(Holders)
    BY <1>1, <1>2, HoldersMove DEF Places, Holding
  <2>2. TypeOK'
    BY <1>2, <2>1 DEF TypeOK, serverVars
  <2>3. AllocatedExact'
    BY <1>2, <2>1 DEF AllocatedExact
  <2>4. Owned' /\ Order'
    BY <1>2, <2>1 DEF Owned, Order, Holding
  <2> QED BY <2>2, <2>3, <2>4
<1>3. CASE /\ ~stopping /\ idle # <<>> /\ Goto(t, "ping")
           /\ conn' = [conn EXCEPT ![t] = Head(idle)]
           /\ idle' = Tail(idle) /\ UNCHANGED allocated
  <2>1. /\ pc' \in [Threads -> Places] /\ pc'[t] = "ping"
        /\ \A u \in Threads \ {t} : pc'[u] = pc[u]
        /\ Cardinality(Holders) \in Nat
        /\ Cardinality(Holders') = Cardinality(Holders) + 1
    BY <1>1, <1>3, HoldersMove DEF Places, Holding
  <2>2. TypeOK'
    BY <1>3, <2>1, IdleParts DEF TypeOK, serverVars
  <2>3. AllocatedExact'
    <3>1. Len(idle') = Len(idle) - 1 /\ Len(idle) \in Nat
      BY <1>3, IdleParts
    <3> QED BY <1>3, <2>1, <3>1 DEF AllocatedExact
  <2>4. Owned' /\ Order'
    BY <1>3, <2>1, IdleParts DEF Owned, Order, TypeOK
  <2> QED BY <2>2, <2>3, <2>4
<1>4. CASE /\ ~stopping /\ idle = <<>> /\ Goto(t, "create")
           /\ allocated' = allocated + 1 /\ UNCHANGED <<conn, idle>>
  <2>1. /\ pc' \in [Threads -> Places] /\ pc'[t] = "create"
        /\ \A u \in Threads \ {t} : pc'[u] = pc[u]
        /\ Cardinality(Holders) \in Nat
        /\ Cardinality(Holders') = Cardinality(Holders) + 1
    BY <1>1, <1>4, HoldersMove DEF Places, Holding
  <2>2. TypeOK'
    BY <1>4, <2>1 DEF TypeOK, serverVars
  <2>3. allocated < target
    BY <1>4 DEF Ready
  <2>4. AllocatedExact'
    BY <1>4, <2>1, <2>3, IdleParts DEF AllocatedExact, TypeOK
  <2>5. Owned' /\ Order'
    BY <1>4, <2>1 DEF Owned, Order
  <2> QED BY <2>2, <2>4, <2>5
<1> QED BY <1>2, <1>3, <1>4 DEF Take, Refused

\* A thread moves and neither takes nor gives up a place.
LEMMA MoveCounted ==
    ASSUME Counted, NEW t \in Threads, NEW place \in Places, Goto(t, place),
           pc[t] \in Holding <=> place \in Holding,
           UNCHANGED <<stateVars, owner>>,
           conn' \in [Threads -> Connections \cup {NoConnection}],
           \A u \in Threads \ {t} : conn'[u] = conn[u],
           place \in Holding \ {"create", "failed"} => conn'[t] \in Connections,
           serverUp' \in BOOLEAN, broken' \in SUBSET Connections, faults' \in 0..MaxFaults
    PROVE  Counted'
<1> USE DEF Counted
<1>1. /\ pc' \in [Threads -> Places] /\ pc'[t] = place
      /\ \A u \in Threads \ {t} : pc'[u] = pc[u]
      /\ Cardinality(Holders') = Cardinality(Holders)
  BY HoldersMove
<1>2. TypeOK'
  BY <1>1 DEF TypeOK, stateVars
<1>3. AllocatedExact'
  BY <1>1 DEF AllocatedExact, stateVars
<1>4. Owned' /\ Order'
  BY <1>1 DEF Owned, Order, stateVars
<1> QED BY <1>2, <1>3, <1>4

\* The health check of getConnection moves between places of the pool only.
LEMMA CheckingCounted ==
    ASSUME Counted, NEW t \in Threads,
           \/ Create(t) \/ Ping(t) \/ Reconnect(t) \/ PingAgain(t) \/ Replace(t) \/ PingNew(t)
    PROVE  Counted'
<1> USE DEF Counted
<1>1. TypeOK /\ Owned
  OBVIOUS
<1>2. ASSUME NEW place \in {"create", "replace"}, NEW next \in {"ping", "ping new"},
             At(t, place),
             \/ \E c \in Connections :
                  /\ Creates(c) /\ conn' = [conn EXCEPT ![t] = c]
                  /\ broken' = broken \ {c} /\ Goto(t, next)
             \/ ~serverUp /\ Goto(t, "failed") /\ UNCHANGED <<conn, broken>>,
             UNCHANGED <<stateVars, owner, serverUp, faults>>
      PROVE  Counted'
  <2>1. pc[t] = place
    BY <1>2 DEF At
  <2>2. ASSUME NEW c \in Connections, conn' = [conn EXCEPT ![t] = c],
               broken' = broken \ {c}, Goto(t, next)
        PROVE  Counted'
    <3>1. /\ conn' \in [Threads -> Connections \cup {NoConnection}] /\ conn'[t] \in Connections
          /\ \A u \in Threads \ {t} : conn'[u] = conn[u]
          /\ broken' \in SUBSET Connections
      BY <2>2 DEF TypeOK
    <3>2. next \in Places /\ (pc[t] \in Holding <=> next \in Holding)
      BY <2>1 DEF Places, Holding
    <3> QED BY <1>2, <2>2, <3>1, <3>2, MoveCounted DEF TypeOK
  <2>3. ASSUME Goto(t, "failed"), UNCHANGED <<conn, broken>>
        PROVE  Counted'
    <3>1. "failed" \in Places /\ (pc[t] \in Holding <=> "failed" \in Holding)
      BY <2>1 DEF Places, Holding
    <3> QED BY <1>2, <2>3, <3>1, MoveCounted DEF TypeOK
  <2> QED BY <1>2, <2>2, <2>3
<1>3. ASSUME NEW place \in {"ping", "ping again", "ping new"},
             NEW other \in {"reconnect", "replace", "failed"}, PingThen(t, place, other)
      PROVE  Counted'
  <2>1. pc[t] = place /\ conn[t] \in Connections
    BY <1>3 DEF PingThen, At, Owned, Holding
  <2>2. PICK next \in {"leased", other} : Goto(t, next)
    BY <1>3 DEF PingThen
  <2>3. next \in Places /\ (pc[t] \in Holding <=> next \in Holding)
    BY <2>1 DEF Places, Holding
  <2>4. UNCHANGED <<stateVars, owner>> /\ UNCHANGED <<conn, serverUp, broken, faults>>
    BY <1>3 DEF PingThen, serverVars
  <2> QED BY <2>1, <2>2, <2>3, <2>4, MoveCounted DEF TypeOK
<1>4. ASSUME Reconnect(t)
      PROVE  Counted'
  <2>1. pc[t] = "reconnect" /\ conn[t] \in Connections
    BY <1>4 DEF Reconnect, At, Owned, Holding
  <2>2. PICK next \in {"ping again", "replace"} : Goto(t, next)
    BY <1>4 DEF Reconnect
  <2>3. next \in Places /\ (pc[t] \in Holding <=> next \in Holding)
    BY <2>1 DEF Places, Holding
  <2>4. broken' \in SUBSET Connections
    BY <1>4 DEF Reconnect, TypeOK
  <2>5. UNCHANGED <<stateVars, owner>> /\ UNCHANGED <<conn, serverUp, faults>>
    BY <1>4 DEF Reconnect
  <2> QED BY <2>1, <2>2, <2>3, <2>4, <2>5, MoveCounted DEF TypeOK
<1>5. CASE Create(t)
  BY <1>2, <1>5 DEF Create
<1>6. CASE Replace(t)
  BY <1>2, <1>6 DEF Replace
<1> QED BY <1>3, <1>4, <1>5, <1>6 DEF Ping, PingAgain, PingNew
\* Entering, waiting and leaving without a lease.
LEMMA WaitingCounted ==
    ASSUME Counted, NEW t \in Threads,
           Call(t) \/ Resume(t) \/ ResumeUnnotified(t) \/ TimeOut(t)
    PROVE  Counted'
<1> USE DEF Counted
<1>1. ASSUME NEW place \in {"waiting", "out"}, pc[t] \in {"out", "waiting", "woken"},
             Goto(t, place), UNCHANGED <<stateVars, owner, conn, serverVars>>
      PROVE  Counted'
  <2>1. place \in Places /\ (pc[t] \in Holding <=> place \in Holding)
    BY <1>1 DEF Places, Holding
  <2>2. place \notin Holding
    BY DEF Holding
  <2> QED BY <1>1, <2>1, <2>2, MoveCounted DEF TypeOK, serverVars
<1>2. ASSUME Call(t)
      PROVE  Counted'
  <2>1. pc[t] = "out"
    BY <1>2 DEF Call, At, TypeOK
  <2>2. UNCHANGED <<initialized, stopping, target, owner, serverVars>>
    BY <1>2 DEF Call
  <2>3. CASE UNCHANGED <<pc, conn, idle, allocated>>
    <3>1. Goto(t, "out")
      BY <2>1, <2>3 DEF Goto, TypeOK
    <3> QED BY <1>1, <2>1, <2>2, <2>3, <3>1 DEF stateVars
  <2>4. CASE Ready /\ Take(t)
    BY <2>1, <2>2, <2>4, TakeCounted
  <2>5. CASE Goto(t, "waiting") /\ UNCHANGED <<conn, idle, allocated>>
    BY <1>1, <2>1, <2>2, <2>5 DEF stateVars
  <2> QED BY <1>2, <2>3, <2>4, <2>5 DEF Call
<1>3. ASSUME Resume(t) \/ ResumeUnnotified(t)
      PROVE  Counted'
  <2>1. pc[t] \in {"waiting", "woken"}
    BY <1>3 DEF Resume, ResumeUnnotified, At, TypeOK
  <2>2. UNCHANGED <<initialized, stopping, target, owner, serverVars>>
    BY <1>3 DEF Resume, ResumeUnnotified
  <2>3. CASE Ready /\ Take(t)
    BY <2>1, <2>2, <2>3, TakeCounted
  <2>4. CASE Goto(t, "waiting") /\ UNCHANGED <<conn, idle, allocated>>
    BY <1>1, <2>1, <2>2, <2>4 DEF stateVars
  <2> QED BY <1>3, <2>3, <2>4 DEF Resume, ResumeUnnotified
<1>4. ASSUME TimeOut(t)
      PROVE  Counted'
  BY <1>1, <1>4 DEF TimeOut, At, TypeOK
<1> QED BY <1>2, <1>3, <1>4

\* A place is given up exactly when its thread stops holding it.
LEMMA ReturningCounted ==
    ASSUME Counted, NEW t \in Threads, Fail(t) \/ Release(t) \/ Notify(t)
    PROVE  Counted'
<1> USE DEF Counted
<1>1. ASSUME pc[t] \in {"failed", "leased"}, Goto(t, "notify"),
             UNCHANGED <<initialized, target, stopping, owner, serverVars>>,
             conn' \in [Threads -> Connections \cup {NoConnection}],
             \A u \in Threads \ {t} : conn'[u] = conn[u],
             \/ allocated' = allocated - 1 /\ UNCHANGED idle
             \/ /\ UNCHANGED allocated
                /\ idle' \in Seq(Connections) /\ Len(idle') = Len(idle) + 1
      PROVE  Counted'
  <2>1. /\ pc' \in [Threads -> Places] /\ pc'[t] = "notify"
        /\ \A u \in Threads \ {t} : pc'[u] = pc[u]
        /\ Cardinality(Holders) \in Nat
        /\ Cardinality(Holders') = Cardinality(Holders) - 1
    BY <1>1, HoldersMove DEF Places, Holding
  <2>2. t \in Holders /\ IsFiniteSet(Holders)
    BY <1>1, ThreadsAssumption, FS_Subset DEF Holders, Holding
  <2>3. Cardinality(Holders) # 0
    BY <2>2, FS_EmptySet
  <2>4. Len(idle) \in Nat /\ target \in Nat /\ allocated \in Nat
    BY DEF TypeOK
  <2>5. allocated' \in Nat /\ allocated' <= target
    BY <1>1, <2>1, <2>3, <2>4 DEF AllocatedExact
  <2>6. TypeOK'
    BY <1>1, <2>1, <2>5 DEF TypeOK, serverVars
  <2>7. AllocatedExact'
    BY <1>1, <2>1, <2>4, <2>5 DEF AllocatedExact
  <2>8. Owned' /\ Order'
    BY <1>1, <2>1 DEF Owned, Order, Holding
  <2> QED BY <2>6, <2>7, <2>8
<1>2. ASSUME Fail(t)
      PROVE  Counted'
  BY <1>1, <1>2 DEF Fail, At, GiveUp, TypeOK
<1>3. ASSUME Release(t)
      PROVE  Counted'
  <2>1. pc[t] = "leased" /\ conn[t] \in Connections
    BY <1>3 DEF Release, At, Owned, Holding
  <2>2. Append(idle, conn[t]) \in Seq(Connections) /\ Len(Append(idle, conn[t])) = Len(idle) + 1
    BY <2>1 DEF TypeOK
  <2>3. /\ conn' \in [Threads -> Connections \cup {NoConnection}]
        /\ \A u \in Threads \ {t} : conn'[u] = conn[u]
    BY <1>3 DEF Release, Released, TypeOK
  <2> QED BY <1>1, <1>3, <2>1, <2>2, <2>3 DEF Release, ReturnConnection
<1>4. ASSUME Notify(t)
      PROVE  Counted'
  <2>1. /\ UNCHANGED <<stateVars, owner, serverVars>>
        /\ conn' \in [Threads -> Connections \cup {NoConnection}]
        /\ \A u \in Threads \ {t} : conn'[u] = conn[u]
    BY <1>4 DEF Notify, TypeOK
  <2>2. /\ pc' \in [Threads -> Places] /\ Holders' = Holders
        /\ \A u \in Threads : pc'[u] \in Holding => pc'[u] = pc[u] /\ u # t
    <3>1. pc[t] = "notify"
      BY <1>4 DEF Notify, At
    <3>2. CASE Goto(t, "out")
      BY <3>1, <3>2 DEF Goto, Holders, Holding, Places, TypeOK
    <3>3. ASSUME NEW w \in Sleepers, pc' = [pc EXCEPT ![t] = "out", ![w] = "woken"]
          PROVE  <2>2
      BY <3>1, <3>3 DEF Sleepers, Holders, Holding, Places, TypeOK
    <3> QED BY <1>4, <3>2, <3>3 DEF Notify, WakesOne
  <2>3. TypeOK'
    BY <2>1, <2>2 DEF TypeOK, stateVars, serverVars
  <2>4. AllocatedExact'
    BY <2>1, <2>2 DEF AllocatedExact, stateVars
  <2>5. Owned' /\ Order'
    BY <2>1, <2>2 DEF Owned, Order, stateVars
  <2> QED BY <2>3, <2>4, <2>5
<1> QED BY <1>2, <1>3, <1>4

\* init, the destructor and MySQL.
LEMMA OwningCounted ==
    ASSUME Counted, Owning \/ Serving
    PROVE  Counted'
<1> USE DEF Counted
<1>1. IsFiniteSet(Holders) /\ Cardinality(Holders) \in Nat /\ Len(idle) \in Nat
  BY ThreadsAssumption, FS_Subset, FS_CardinalityType DEF Holders, TypeOK
<1>2. ASSUME NEW size \in PoolSizes, InitPool(size)
      PROVE  Counted'
  <2>1. PICK ready \in [1..size -> Connections \ Live] :
            idle' = ready /\ broken' = broken \ {ready[i] : i \in 1..size}
    BY <1>2 DEF InitPool
  <2>2. size \in Nat
    BY PoolSizesAssumption
  <2>3. idle' \in Seq(Connections) /\ Len(idle') = size
    BY <2>1, <2>2
  <2>4. /\ target' = size /\ allocated' = size /\ initialized' = TRUE
        /\ UNCHANGED <<stopping, threadVars, owner, serverUp, faults>>
    BY <1>2 DEF InitPool
  <2>5. TypeOK'
    BY <2>1, <2>2, <2>3, <2>4 DEF TypeOK, threadVars
  <2>6. Cardinality(Holders) = 0
    BY <1>1, <1>2 DEF InitPool, Order, AllocatedExact, TypeOK
  <2>7. Holders' = Holders
    BY <2>4 DEF Holders, threadVars
  <2>8. AllocatedExact'
    BY <2>2, <2>3, <2>4, <2>6, <2>7 DEF AllocatedExact
  <2>9. Owned' /\ Order'
    BY <2>4 DEF Owned, Order, threadVars
  <2> QED BY <2>5, <2>8, <2>9
<1>3. ASSUME Stop
      PROVE  Counted'
  <2>1. /\ allocated' = allocated - Len(idle) /\ idle' = <<>> /\ owner' = "notify"
        /\ stopping' = TRUE /\ UNCHANGED <<initialized, target, threadVars, serverVars>>
    BY <1>3 DEF Stop, Retire
  <2>2. Len(idle') = 0 /\ idle' \in Seq(Connections)
    BY <2>1, EmptySeq
  <2>3. Holders' = Holders
    BY <2>1 DEF Holders, threadVars
  <2>4. allocated' = Cardinality(Holders) /\ allocated' \in Nat /\ allocated' <= target
    BY <1>1, <2>1 DEF AllocatedExact, TypeOK
  <2>5. TypeOK'
    BY <2>1, <2>2, <2>4 DEF TypeOK, threadVars, serverVars
  <2>6. AllocatedExact'
    BY <1>1, <2>1, <2>2, <2>3, <2>4 DEF AllocatedExact
  <2>7. Owned' /\ Order'
    BY <2>1 DEF Owned, Order, threadVars
  <2> QED BY <2>5, <2>6, <2>7
<1>4. ASSUME StopNotify
      PROVE  Counted'
  <2>1. /\ UNCHANGED <<stateVars, conn, serverVars>> /\ owner' = "gone"
        /\ pc' = [t \in Threads |-> IF At(t, "waiting") THEN "woken" ELSE pc[t]]
    BY <1>4 DEF StopNotify, WokenByStop
  <2>2. /\ pc' \in [Threads -> Places] /\ Holders' = Holders
        /\ \A u \in Threads : pc'[u] \in Holding => pc'[u] = pc[u]
    BY <2>1 DEF At, Holders, Holding, Places, TypeOK
  <2>3. TypeOK'
    BY <2>1, <2>2 DEF TypeOK, stateVars, serverVars
  <2>4. AllocatedExact'
    BY <2>1, <2>2 DEF AllocatedExact, stateVars
  <2>5. Owned'
    BY <2>1, <2>2 DEF Owned
  <2>6. Order'
    BY <1>4, <2>1 DEF Order, stateVars, StopNotify
  <2> QED BY <2>3, <2>4, <2>5, <2>6
<1>5. ASSUME Serving
      PROVE  Counted'
  <2>1. UNCHANGED <<stateVars, threadVars, owner>>
    BY <1>5 DEF Serving, ConnectionBreaks, ServerStops, ServerRecovers
  <2>2. serverUp' \in BOOLEAN
    BY <1>5 DEF Serving, ConnectionBreaks, ServerStops, ServerRecovers, TypeOK
  <2>3. broken' \in SUBSET Connections
    BY <1>5 DEF Serving, ConnectionBreaks, ServerStops, ServerRecovers, TypeOK
  <2>4. faults' \in 0..MaxFaults
    <3>1. Fault \/ faults' = faults
      BY <1>5 DEF Serving, ConnectionBreaks, ServerStops, ServerRecovers
    <3> QED BY <3>1, LimitsAssumption DEF Fault, TypeOK
  <2>5. TypeOK'
    BY <2>1, <2>2, <2>3, <2>4, Zenon DEF TypeOK, stateVars, threadVars
  <2>6. AllocatedExact' /\ Owned' /\ Order'
    BY <2>1 DEF AllocatedExact, Owned, Order, Holders, stateVars, threadVars
  <2> QED BY <2>5, <2>6
<1> QED BY <1>2, <1>3, <1>4, <1>5 DEF Owning

\* Stuttering, and all actions together.
LEMMA CountedStep ==
    ASSUME Counted, [Next]_vars
    PROVE  Counted'
<1>1. CASE UNCHANGED vars
  BY <1>1 DEF vars, stateVars, threadVars, serverVars, Counted, TypeOK, AllocatedExact,
              Holders, Owned, Order
<1>2. CASE \E t \in Threads : Running(t)
  BY <1>2, WaitingCounted, CheckingCounted, ReturningCounted DEF Running, Acquiring, Returning
<1>3. CASE Owning \/ Serving
  BY <1>3, OwningCounted
<1> QED BY <1>1, <1>2, <1>3 DEF Next

\* Before init nothing is allocated and nobody holds anything.
LEMMA CountedInit ==
    ASSUME Init
    PROVE  Counted
<1>1. TypeOK
  <2>1. idle \in Seq(Connections) /\ faults \in 0..MaxFaults
    BY LimitsAssumption, EmptySeq DEF Init
  <2> QED BY <2>1 DEF Init, TypeOK, Places
<1>2. Holders = {}
  BY DEF Init, Holders, Holding
<1>3. AllocatedExact
  BY <1>2, FS_EmptySet DEF Init, AllocatedExact
<1>4. Owned /\ Order
  BY DEF Init, Owned, Order, Holding
<1> QED BY <1>1, <1>3, <1>4 DEF Counted

-----------------------------------------------------------------------------
(* Wake-ups *)

\* Nobody is in the pool before init.
Quiet == ~initialized => \A t \in Threads : pc[t] = "out"

Awake == Quiet /\ NoLostWakeUp /\ StoppedKeepsNothing /\ NobodySleepsAfterStop

\* What can be taken is what nobody holds; a thread goes to sleep only when that is
\* nothing.
LEMMA AvailableIsFree ==
    ASSUME Counted
    PROVE  /\ Cardinality(Holders) \in Nat /\ target \in Nat
           /\ Available = target - Cardinality(Holders)
           /\ ~Ready => Available = 0 /\ ~stopping
<1>1. Cardinality(Holders) \in Nat
  BY ThreadsAssumption, FS_Subset, FS_CardinalityType DEF Holders
<1>2. Len(idle) \in Nat /\ target \in Nat /\ allocated \in Nat
  BY DEF Counted, TypeOK
<1>3. Available = target - Cardinality(Holders)
  BY <1>1, <1>2 DEF Counted, AllocatedExact, Available
<1>4. ~Ready => Available = 0 /\ ~stopping
  BY <1>1, <1>2 DEF Counted, AllocatedExact, Available, Ready
<1> QED BY <1>1, <1>2, <1>3, <1>4

\* The same after a step.
LEMMA AvailableAfter ==
    ASSUME Counted'
    PROVE  Available' = target' - Cardinality(Holders')
<1>1. Cardinality(Holders') \in Nat
  BY ThreadsAssumption, FS_Subset, FS_CardinalityType DEF Holders
<1>2. Len(idle') \in Nat /\ target' \in Nat /\ allocated' \in Nat
  BY DEF Counted, TypeOK
<1> QED BY <1>1, <1>2 DEF Counted, AllocatedExact, Available

\* A thread moves: how the number of wake-ups changes.
LEMMA WakersMove ==
    ASSUME TypeOK, NEW t \in Threads, NEW place \in Places, Goto(t, place)
    PROVE  /\ Cardinality(Wakers) \in Nat /\ Cardinality(Wakers') \in Nat
           /\ Cardinality(Wakers') >= Cardinality(Wakers) - 1
           /\ (pc[t] \in {"woken", "notify"} <=> place \in {"woken", "notify"})
                  => Cardinality(Wakers') = Cardinality(Wakers)
           /\ pc[t] \notin {"woken", "notify"} /\ place \in {"woken", "notify"}
                  => Cardinality(Wakers') = Cardinality(Wakers) + 1
           /\ place # "waiting" => Sleepers' \subseteq Sleepers
<1> DEFINE up == {"woken", "notify"}
<1>1. /\ pc' \in [Threads -> Places] /\ pc'[t] = place
      /\ \A u \in Threads \ {t} : pc'[u] = pc[u]
  BY DEF Goto, TypeOK
<1>2. IsFiniteSet(Wakers) /\ Cardinality(Wakers) \in Nat
  BY ThreadsAssumption, FS_Subset, FS_CardinalityType DEF Wakers
<1>3. CASE pc[t] \in up <=> place \in up
  <2>1. Wakers' = Wakers
    BY <1>1, <1>3 DEF Wakers
  <2> QED BY <1>1, <1>2, <1>3, <2>1 DEF Sleepers
<1>4. CASE pc[t] \notin up /\ place \in up
  <2>1. Wakers' = Wakers \cup {t} /\ t \notin Wakers
    BY <1>1, <1>4 DEF Wakers
  <2>2. Cardinality(Wakers') = Cardinality(Wakers) + 1
    BY <1>2, <2>1, FS_AddElement
  <2> QED BY <1>1, <1>2, <1>4, <2>2 DEF Sleepers
<1>5. CASE pc[t] \in up /\ place \notin up
  <2>1. Wakers' = Wakers \ {t} /\ t \in Wakers /\ IsFiniteSet(Wakers')
    BY <1>1, <1>2, <1>5, FS_Subset DEF Wakers
  <2>2. Cardinality(Wakers') = Cardinality(Wakers) - 1 /\ Cardinality(Wakers') \in Nat
    BY <1>2, <2>1, FS_RemoveElement, FS_CardinalityType
  <2> QED BY <1>1, <1>2, <1>5, <2>2 DEF Sleepers
<1> QED BY <1>3, <1>4, <1>5

\* A thread that takes something uses up at most one wake-up and one thing to take.
LEMMA TakeAwake ==
    ASSUME Counted, Counted', Awake, NEW t \in Threads,
           pc[t] \in {"out", "waiting", "woken"}, initialized,
           Take(t), UNCHANGED <<initialized, stopping, target, owner>>
    PROVE  Awake'
<1> USE DEF Awake
<1>1. TypeOK
  BY DEF Counted
<1>2. PICK place \in {"out", "ping", "create"} :
          Goto(t, place) /\ (place = "out" <=> stopping) /\ (stopping => UNCHANGED idle)
  BY DEF Take, Refused
<1>3. place \in Places
  BY DEF Places, Holding
<1>4. Sleepers' \subseteq Sleepers /\ Cardinality(Wakers) \in Nat
      /\ Cardinality(Wakers') \in Nat /\ Cardinality(Wakers') >= Cardinality(Wakers) - 1
  BY <1>1, <1>2, <1>3, WakersMove
<1>5. ASSUME ~stopping
      PROVE  Available' = Available - 1 /\ Available \in Int
  <2>1. pc[t] \notin Holding /\ place \in Holding
    BY <1>2, <1>5 DEF Holding
  <2>2. Cardinality(Holders') = Cardinality(Holders) + 1
    BY <1>1, <1>2, <1>3, <2>1, HoldersMove
  <2>3. Available' = target - Cardinality(Holders')
    BY AvailableAfter
  <2> QED BY <2>2, <2>3, AvailableIsFree
<1>6. NoLostWakeUp'
  BY <1>4, <1>5 DEF NoLostWakeUp
<1>7. StoppedKeepsNothing'
  BY <1>2 DEF StoppedKeepsNothing
<1>8. NobodySleepsAfterStop' /\ Quiet'
  BY <1>4 DEF NobodySleepsAfterStop, Quiet
<1> QED BY <1>6, <1>7, <1>8

\* A thread that finds nothing goes to sleep or leaves.
LEMMA WaitAwake ==
    ASSUME Counted, Counted', Awake, NEW t \in Threads, NEW place \in {"waiting", "out"},
           initialized, ~Ready, Goto(t, place), UNCHANGED <<stateVars, owner>>
    PROVE  Awake'
<1> USE DEF Awake
<1>1. TypeOK /\ Order
  BY DEF Counted
<1>2. Cardinality(Wakers') \in Nat
  BY <1>1, WakersMove DEF Places
<1>3. Available = 0 /\ ~stopping /\ Available' = Available
  BY AvailableIsFree DEF Available, stateVars
<1>4. NoLostWakeUp'
  BY <1>2, <1>3 DEF NoLostWakeUp
<1>5. owner' # "gone"
  BY <1>1, <1>3 DEF Order
<1> QED BY <1>3, <1>4, <1>5
       DEF StoppedKeepsNothing, NobodySleepsAfterStop, Quiet, stateVars

\* Entering and waiting.
LEMMA WaitingAwake ==
    ASSUME Counted, Counted', Awake, NEW t \in Threads,
           Call(t) \/ Resume(t) \/ ResumeUnnotified(t) \/ TimeOut(t)
    PROVE  Awake'
<1>1. ASSUME pc[t] # "out"
      PROVE  initialized
  BY <1>1 DEF Awake, Quiet
<1>2. CASE Call(t)
  <2>1. CASE UNCHANGED <<pc, conn, idle, allocated>>
    BY <1>2, <2>1 DEF Call, Awake, Quiet, NoLostWakeUp, StoppedKeepsNothing,
                      NobodySleepsAfterStop, Sleepers, Wakers, Available
  <2>2. CASE initialized /\ Ready /\ Take(t)
    BY <1>2, <2>2, TakeAwake DEF Call, At
  <2>3. CASE initialized /\ ~Ready /\ Goto(t, "waiting") /\ UNCHANGED <<conn, idle, allocated>>
    BY <1>2, <2>3, WaitAwake DEF Call, stateVars
  <2> QED BY <1>2, <2>1, <2>2, <2>3 DEF Call
<1>3. CASE Resume(t) \/ ResumeUnnotified(t)
  <2>1. pc[t] \in {"waiting", "woken"} /\ initialized
    BY <1>1, <1>3 DEF Resume, ResumeUnnotified, At
  <2>2. UNCHANGED <<initialized, stopping, target, owner>>
    BY <1>3 DEF Resume, ResumeUnnotified
  <2>3. CASE Take(t)
    BY <2>1, <2>2, <2>3, TakeAwake
  <2>4. CASE ~Ready /\ Goto(t, "waiting") /\ UNCHANGED <<conn, idle, allocated>>
    BY <2>1, <2>2, <2>4, WaitAwake DEF stateVars
  <2> QED BY <1>3, <2>3, <2>4 DEF Resume, ResumeUnnotified
<1>4. CASE TimeOut(t)
  BY <1>1, <1>4, WaitAwake DEF TimeOut, At
<1> QED BY <1>2, <1>3, <1>4

\* The health check neither sleeps nor wakes nor takes.
LEMMA CheckingAwake ==
    ASSUME Counted, Counted', Awake, NEW t \in Threads,
           \/ Create(t) \/ Ping(t) \/ Reconnect(t) \/ PingAgain(t) \/ Replace(t) \/ PingNew(t)
    PROVE  Awake'
<1>1. PICK place \in Holding : Goto(t, place)
  BY DEF Create, Ping, Reconnect, PingAgain, Replace, PingNew, PingThen, Holding
<1>2. pc[t] \in Holding /\ UNCHANGED <<stateVars, owner>>
  BY DEF Create, Ping, Reconnect, PingAgain, Replace, PingNew, PingThen, Holding, At
<1>3. TypeOK
  BY DEF Counted
<1>4. pc' \in [Threads -> Places] /\ pc'[t] = place /\ \A u \in Threads \ {t} : pc'[u] = pc[u]
  BY <1>1, <1>3, HoldersMove DEF Places
<1>5. Sleepers' = Sleepers /\ Wakers' = Wakers
  BY <1>2, <1>4 DEF Sleepers, Wakers, Holding
<1>6. Quiet'
  BY <1>2 DEF Awake, Quiet, Holding, stateVars
<1> QED BY <1>2, <1>5, <1>6
       DEF Awake, NoLostWakeUp, StoppedKeepsNothing, NobodySleepsAfterStop, Available, stateVars

\* Whoever gives something back is about to wake a sleeper, and then does.
LEMMA ReturningAwake ==
    ASSUME Counted, Counted', Awake, NEW t \in Threads, Fail(t) \/ Release(t) \/ Notify(t)
    PROVE  Awake'
<1> USE DEF Awake
<1>1. TypeOK
  BY DEF Counted
<1>2. CASE Fail(t) \/ Release(t)
  <2>1. /\ pc[t] \in {"failed", "leased"} /\ Goto(t, "notify")
        /\ UNCHANGED <<initialized, stopping, target, owner>>
        /\ stopping => UNCHANGED idle
    BY <1>2 DEF Fail, Release, ReturnConnection, At
  <2>2. /\ Sleepers' \subseteq Sleepers
        /\ Cardinality(Wakers) \in Nat /\ Cardinality(Wakers') = Cardinality(Wakers) + 1
    BY <1>1, <2>1, WakersMove DEF Places
  <2>3. Cardinality(Holders') = Cardinality(Holders) - 1
    BY <1>1, <2>1, HoldersMove DEF Places, Holding
  <2>4. Available' = Available + 1 /\ Available \in Int
    BY <2>1, <2>3, AvailableIsFree, AvailableAfter
  <2>5. NoLostWakeUp'
    BY <2>1, <2>2, <2>4 DEF NoLostWakeUp
  <2>6. Quiet'
    BY <2>1 DEF Quiet
  <2> QED BY <2>1, <2>2, <2>5, <2>6 DEF StoppedKeepsNothing, NobodySleepsAfterStop
<1>3. CASE Notify(t)
  <2>1. pc[t] = "notify" /\ UNCHANGED <<stateVars, owner>> /\ Available' = Available
    BY <1>3 DEF Notify, At, stateVars, Available
  <2>2. Quiet'
    BY <2>1 DEF Quiet, stateVars
  <2>3. CASE Sleepers = {} /\ Goto(t, "out")
    <3>1. Sleepers' = {}
      BY <1>1, <2>3, WakersMove DEF Places
    <3> QED BY <2>1, <2>2, <3>1
           DEF NoLostWakeUp, StoppedKeepsNothing, NobodySleepsAfterStop, stateVars
  <2>4. ASSUME NEW w \in Sleepers, pc' = [pc EXCEPT ![t] = "out", ![w] = "woken"]
        PROVE  Awake'
    <3>1. w \in Threads /\ w # t /\ pc[w] = "waiting"
      BY <2>1 DEF Sleepers
    <3>2. /\ pc'[t] = "out" /\ pc'[w] = "woken"
          /\ \A u \in Threads \ {t, w} : pc'[u] = pc[u]
      BY <1>1, <2>4, <3>1 DEF TypeOK
    <3>3. /\ Wakers' = (Wakers \ {t}) \cup {w} /\ t \in Wakers /\ w \notin Wakers
          /\ Sleepers' \subseteq Sleepers
      BY <2>1, <3>1, <3>2 DEF Wakers, Sleepers
    <3>4. IsFiniteSet(Wakers) /\ IsFiniteSet(Wakers \ {t})
      BY ThreadsAssumption, FS_Subset DEF Wakers
    <3>5. Cardinality(Wakers) \in Nat /\ Cardinality(Wakers \ {t}) = Cardinality(Wakers) - 1
      BY <3>3, <3>4, FS_RemoveElement, FS_CardinalityType
    <3>6. Cardinality(Wakers') = Cardinality(Wakers \ {t}) + 1
      BY <3>3, <3>4, FS_AddElement
    <3>7. Cardinality(Wakers') = Cardinality(Wakers)
      BY <3>5, <3>6
    <3> QED BY <2>1, <2>2, <2>4, <3>3, <3>7
           DEF NoLostWakeUp, StoppedKeepsNothing, NobodySleepsAfterStop, stateVars
  <2> QED BY <1>3, <2>3, <2>4 DEF Notify, WakesOne
<1> QED BY <1>2, <1>3

\* init finds nobody asleep, the destructor leaves nobody asleep.
LEMMA OwningAwake ==
    ASSUME Counted, Awake, Owning \/ Serving \/ UNCHANGED vars
    PROVE  Awake'
<1> USE DEF Awake
<1>1. CASE \E size \in PoolSizes : InitPool(size)
  <2>1. /\ \A t \in Threads : pc[t] = "out"
        /\ initialized' = TRUE /\ stopping' = FALSE /\ UNCHANGED <<pc, owner>>
    BY <1>1 DEF InitPool, Quiet, threadVars, Counted, TypeOK
  <2>2. Sleepers' = {}
    BY <2>1 DEF Sleepers
  <2> QED BY <2>1, <2>2 DEF Quiet, NoLostWakeUp, StoppedKeepsNothing, NobodySleepsAfterStop
<1>2. CASE Stop
  BY <1>2 DEF Stop, threadVars, Quiet, NoLostWakeUp, StoppedKeepsNothing,
              NobodySleepsAfterStop
<1>3. CASE StopNotify
  <2>1. stopping /\ UNCHANGED stateVars
    BY <1>3 DEF StopNotify, Counted, Order
  <2>2. pc' = [t \in Threads |-> IF At(t, "waiting") THEN "woken" ELSE pc[t]]
    BY <1>3 DEF StopNotify, WokenByStop
  <2>3. Sleepers' = {}
    BY <2>2 DEF Sleepers, At
  <2>4. Quiet'
    BY <2>1, <2>2 DEF Quiet, At, stateVars
  <2> QED BY <2>1, <2>3, <2>4
         DEF NoLostWakeUp, StoppedKeepsNothing, NobodySleepsAfterStop, stateVars
<1>4. CASE Serving \/ UNCHANGED vars
  <2>1. UNCHANGED <<stateVars, pc, owner>>
    BY <1>4 DEF Serving, ConnectionBreaks, ServerStops, ServerRecovers, vars, threadVars
  <2> QED BY <2>1 DEF Quiet, NoLostWakeUp, StoppedKeepsNothing, NobodySleepsAfterStop,
                      Sleepers, Wakers, Available, stateVars
<1> QED BY <1>1, <1>2, <1>3, <1>4 DEF Owning

-----------------------------------------------------------------------------
(* Ownership *)

\* The members of the idle queue, by position.
LEMMA PooledParts ==
    ASSUME TypeOK
    PROVE  /\ Len(idle) \in Nat /\ DOMAIN idle = 1..Len(idle)
           /\ \A i \in DOMAIN idle : idle[i] \in Connections
           /\ NoConnection \notin Pooled
<1>1. /\ Len(idle) \in Nat /\ DOMAIN idle = 1..Len(idle)
      /\ \A i \in DOMAIN idle : idle[i] \in Connections
  BY DEF TypeOK
<1> QED BY <1>1, ConnAssumption DEF Pooled, NoConnection

\* A thread's connection is exchanged for one nobody owns, or dropped.
LEMMA ExchangeExclusive ==
    ASSUME TypeOK, ExclusiveOwner, NEW t \in Threads,
           NEW c \in Connections \cup {NoConnection}, c \notin Live \/ c = NoConnection,
           conn' = [conn EXCEPT ![t] = c], UNCHANGED idle
    PROVE  ExclusiveOwner'
<1>1. /\ conn'[t] = c /\ \A u \in Threads \ {t} : conn'[u] = conn[u]
  BY DEF TypeOK
<1>2. Pooled' = Pooled /\ c \notin Pooled
  BY PooledParts DEF Pooled, Live
<1>3. \A u \in Threads \ {t} : c = NoConnection \/ conn[u] # c
  BY DEF Live
<1> QED BY <1>1, <1>2, <1>3 DEF ExclusiveOwner

\* The head of the queue passes to the thread that takes it.
LEMMA TakeExclusive ==
    ASSUME TypeOK, ExclusiveOwner, NEW t \in Threads, Take(t)
    PROVE  ExclusiveOwner'
<1>1. CASE UNCHANGED <<conn, idle>>
  BY <1>1 DEF ExclusiveOwner, Pooled
<1>2. CASE idle # <<>> /\ conn' = [conn EXCEPT ![t] = Head(idle)] /\ idle' = Tail(idle)
  <2>1. /\ Len(idle) \in Nat \ {0} /\ DOMAIN idle = 1..Len(idle)
        /\ DOMAIN idle' = 1..(Len(idle) - 1)
        /\ \A i \in DOMAIN idle' : idle'[i] = idle[i + 1] /\ i + 1 \in DOMAIN idle
        /\ 1 \in DOMAIN idle /\ Head(idle) = idle[1]
    BY <1>2 DEF TypeOK
  <2>2. \A i \in DOMAIN idle' : i \in Nat /\ i + 1 # 1
    BY <2>1
  <2>3. \A i, j \in DOMAIN idle' : i # j => i + 1 # j + 1
    BY <2>1
  <2>4. /\ conn'[t] = idle[1] /\ \A u \in Threads \ {t} : conn'[u] = conn[u]
    BY <1>2, <2>1 DEF TypeOK
  <2>5. \A i, j \in DOMAIN idle' : i # j => idle'[i] # idle'[j]
    BY <2>1, <2>3 DEF ExclusiveOwner
  <2>6. Pooled' \subseteq Pooled /\ idle[1] \in Pooled /\ idle[1] \notin Pooled'
    BY <2>1, <2>2 DEF Pooled, ExclusiveOwner
  <2>7. \A u \in Threads : conn[u] # idle[1]
    BY <2>6 DEF ExclusiveOwner
  <2> QED BY <2>4, <2>5, <2>6, <2>7 DEF ExclusiveOwner
<1> QED BY <1>1, <1>2 DEF Take

\* The deleter passes the connection to the end of the queue.
LEMMA ReleaseExclusive ==
    ASSUME Counted, ExclusiveOwner, NEW t \in Threads, Release(t)
    PROVE  ExclusiveOwner'
<1>1. TypeOK /\ conn' = [conn EXCEPT ![t] = NoConnection]
  BY DEF Counted, Release, Released
<1>2. CASE UNCHANGED idle
  BY <1>1, <1>2, ExchangeExclusive
<1>3. CASE idle' = Append(idle, conn[t])
  <2>1. conn[t] \in Connections
    BY DEF Counted, Owned, Release, At, Holding
  <2>2. /\ Len(idle) \in Nat /\ DOMAIN idle = 1..Len(idle)
        /\ DOMAIN idle' = 1..(Len(idle) + 1)
        /\ \A i \in DOMAIN idle : idle'[i] = idle[i]
        /\ idle'[Len(idle) + 1] = conn[t]
    BY <1>1, <1>3, <2>1 DEF TypeOK
  <2>3. \A i \in DOMAIN idle' : i \in DOMAIN idle \/ i = Len(idle) + 1
    BY <2>2
  <2>4. Pooled' = Pooled \cup {conn[t]} /\ conn[t] \notin Pooled
    BY <2>2, <2>3 DEF Pooled, ExclusiveOwner
  <2>5. \A i, j \in DOMAIN idle' : i # j => idle'[i] # idle'[j]
    <3>1. \A i \in DOMAIN idle : idle[i] # conn[t]
      BY <2>4 DEF Pooled
    <3> QED BY <2>2, <2>3, <3>1 DEF ExclusiveOwner
  <2>6. conn'[t] = NoConnection /\ \A u \in Threads \ {t} : conn'[u] = conn[u]
    BY <1>1 DEF TypeOK
  <2>7. NoConnection \notin Pooled' /\ conn[t] # NoConnection
    BY <1>1, <2>1, <2>4, PooledParts, ConnAssumption DEF NoConnection
  <2>8. \A u \in Threads : conn'[u] \notin Pooled'
    BY <2>4, <2>6, <2>7 DEF ExclusiveOwner
  <2>9. \A u, v \in Threads : u # v /\ conn'[u] # NoConnection => conn'[u] # conn'[v]
    BY <2>6 DEF ExclusiveOwner
  <2> QED BY <2>5, <2>8, <2>9 DEF ExclusiveOwner
<1> QED BY <1>2, <1>3 DEF Release, ReturnConnection

\* Every other action hands over a new connection, drops one, or touches none.
LEMMA ExclusiveStep ==
    ASSUME Counted, ExclusiveOwner, [Next]_vars
    PROVE  ExclusiveOwner'
<1>1. TypeOK
  BY DEF Counted
<1>2. ASSUME UNCHANGED <<conn, idle>>
      PROVE  ExclusiveOwner'
  BY <1>2 DEF ExclusiveOwner, Pooled
<1>3. ASSUME NEW t \in Threads, Running(t)
      PROVE  ExclusiveOwner'
  <2>1. CASE Call(t) \/ Resume(t) \/ ResumeUnnotified(t)
    <3>1. Take(t) \/ UNCHANGED <<conn, idle>>
      BY <2>1 DEF Call, Resume, ResumeUnnotified
    <3> QED BY <1>1, <1>2, <3>1, TakeExclusive
  <2>2. CASE TimeOut(t) \/ Ping(t) \/ Reconnect(t) \/ PingAgain(t) \/ PingNew(t) \/ Fail(t)
    <3>1. UNCHANGED <<conn, idle>>
      BY <2>2 DEF TimeOut, Ping, Reconnect, PingAgain, PingNew, PingThen, Fail, stateVars
    <3> QED BY <1>2, <3>1
  <2>3. CASE Create(t) \/ Replace(t)
    <3>1. \/ UNCHANGED <<conn, idle>>
          \/ \E c \in Connections :
                c \notin Live /\ conn' = [conn EXCEPT ![t] = c] /\ UNCHANGED idle
      BY <2>3 DEF Create, Replace, Creates, stateVars
    <3> QED BY <1>1, <1>2, <3>1, ExchangeExclusive
  <2>4. CASE Release(t)
    BY <2>4, ReleaseExclusive
  <2>5. CASE Notify(t)
    BY <1>1, <2>5, ExchangeExclusive DEF Notify, stateVars
  <2> QED BY <1>3, <2>1, <2>2, <2>3, <2>4, <2>5 DEF Running, Acquiring, Returning
<1>4. ASSUME NEW size \in PoolSizes, InitPool(size)
      PROVE  ExclusiveOwner'
  <2>1. PICK ready \in [1..size -> Connections \ Live] :
            /\ \A i, j \in 1..size : i # j => ready[i] # ready[j]
            /\ idle' = ready
    BY <1>4 DEF InitPool
  <2>2. UNCHANGED conn
    BY <1>4 DEF InitPool, threadVars
  <2>3. \A c \in Pooled' : c \notin Live
    BY <2>1 DEF Pooled
  <2>4. \A u \in Threads : conn'[u] \notin Pooled'
    BY <2>2, <2>3 DEF Live
  <2> QED BY <2>1, <2>2, <2>4 DEF ExclusiveOwner
<1>5. ASSUME Stop
      PROVE  ExclusiveOwner'
  <2>1. idle' = <<>> /\ UNCHANGED conn
    BY <1>5 DEF Stop, threadVars
  <2>2. Pooled' = {} /\ DOMAIN idle' = {}
    BY <2>1 DEF Pooled
  <2> QED BY <2>1, <2>2 DEF ExclusiveOwner
<1>6. ASSUME StopNotify \/ Serving \/ UNCHANGED vars
      PROVE  ExclusiveOwner'
  <2>1. UNCHANGED <<conn, idle>>
    BY <1>6 DEF StopNotify, Serving, ConnectionBreaks, ServerStops, ServerRecovers, vars,
                threadVars, stateVars
  <2> QED BY <1>2, <2>1
<1> QED BY <1>3, <1>4, <1>5, <1>6 DEF Next, Owning

-----------------------------------------------------------------------------
(* Refinement *)

\* How a thread's move shows: who is admitted, and what is leased.
LEMMA LeasesMove ==
    ASSUME TypeOK, NEW t \in Threads, NEW place \in Places, Goto(t, place),
           \A u \in Threads \ {t} : conn'[u] = conn[u]
    PROVE  /\ Holders' = IF place \in Holding THEN Holders \cup {t} ELSE Holders \ {t}
           /\ Leased' = [Leased EXCEPT ![t] = IF place = "leased" THEN conn'[t] ELSE NoConnection]
<1>1. /\ pc'[t] = place /\ \A u \in Threads \ {t} : pc'[u] = pc[u]
  BY HoldersMove
<1>2. Holders' = IF place \in Holding THEN Holders \cup {t} ELSE Holders \ {t}
  BY <1>1 DEF Holders
<1>3. \A u \in Threads :
          Leased'[u] = [Leased EXCEPT ![t] = IF place = "leased" THEN conn'[t]
                                                                 ELSE NoConnection][u]
  BY <1>1 DEF Leased, At
<1>4. Leased' = [Leased EXCEPT ![t] = IF place = "leased" THEN conn'[t] ELSE NoConnection]
  BY <1>3 DEF Leased
<1> QED BY <1>2, <1>4

\* A move that is neither an admission nor a grant, nor the end of either, does not show.
LEMMA QuietMove ==
    ASSUME TypeOK, NEW t \in Threads, NEW place \in Places, Goto(t, place),
           \A u \in Threads \ {t} : conn'[u] = conn[u],
           pc[t] # "leased", place # "leased", pc[t] \in Holding <=> place \in Holding,
           UNCHANGED <<target, stopping>>
    PROVE  UNCHANGED Leases!leaseState
<1>1. Leased[t] = NoConnection /\ DOMAIN Leased = Threads
  BY DEF Leased, At
<1>2. Leased' = Leased
  BY <1>1, LeasesMove DEF Leased
<1>3. Holders' = Holders
  BY LeasesMove DEF Holders
<1> QED BY <1>2, <1>3 DEF Leases!leaseState

\* Whoever takes a connection or reserves a place is admitted: there was room, because
\* idle connections and places in use are together at most target.
LEMMA TakeAdmits ==
    ASSUME Counted, NEW t \in Threads, pc[t] \in {"out", "waiting", "woken"}, Ready, Take(t),
           UNCHANGED <<target, stopping>>
    PROVE  [Leases!LeaseNext]_(Leases!leaseState)
<1>1. TypeOK
  BY DEF Counted
<1>2. pc[t] \notin Holding /\ pc[t] # "leased"
  BY DEF Holding
<1>3. \A u \in Threads \ {t} : conn'[u] = conn[u]
  BY <1>1 DEF Take, TypeOK
<1>4. CASE stopping
  <2>1. Goto(t, "out") /\ "out" \in Places /\ "out" \notin Holding
    BY <1>4 DEF Take, Refused, Places, Holding
  <2> QED BY <1>1, <1>2, <1>3, <2>1, QuietMove
<1>5. CASE ~stopping
  <2>1. PICK place \in {"ping", "create"} : Goto(t, place)
    BY <1>5 DEF Take, Refused
  <2>2. place \in Places /\ place \in Holding /\ place # "leased"
    BY DEF Places, Holding
  <2>3. Leased[t] = NoConnection /\ DOMAIN Leased = Threads
    BY <1>2 DEF Leased, At
  <2>4. Leased' = Leased
    BY <1>1, <1>3, <2>1, <2>2, <2>3, LeasesMove DEF Leased
  <2>5. Holders' = Holders \cup {t} /\ t \notin Holders
    BY <1>1, <1>2, <1>3, <2>1, <2>2, LeasesMove DEF Holders
  <2>6. Cardinality(Holders) < target
    <3>1. Cardinality(Holders) \in Nat /\ Len(idle) \in Nat /\ target \in Nat
      BY <1>1, <2>1, <2>2, HoldersMove, IdleParts DEF TypeOK
    <3>2. CASE idle # <<>>
      <4>1. Len(idle) > 0
        BY <1>1, <3>2 DEF TypeOK
      <4> QED BY <3>1, <4>1 DEF Counted, AllocatedExact
    <3>3. CASE idle = <<>>
      <4>1. allocated < target
        BY <1>5, <3>3 DEF Ready
      <4> QED BY <3>1, <3>3, <4>1 DEF Counted, AllocatedExact
    <3> QED BY <3>2, <3>3
  <2>7. Leases!Cardinality(Holders) = Cardinality(Holders)
    BY DEF Leases!Cardinality, Cardinality
  <2>8. Leases!Admit(t)
    BY <1>5, <2>4, <2>5, <2>6, <2>7 DEF Leases!Admit
  <2> QED BY <2>8 DEF Leases!LeaseNext
<1> QED BY <1>4, <1>5

\* A check that succeeds is a grant: the connection is the thread's own, so it is in no
\* other lease.
LEMMA PingGrants ==
    ASSUME Counted, ExclusiveOwner, NEW t \in Threads,
           NEW place \in {"ping", "ping again", "ping new"},
           NEW otherwise \in {"reconnect", "replace", "failed"},
           PingThen(t, place, otherwise)
    PROVE  [Leases!LeaseNext]_(Leases!leaseState)
<1>1. TypeOK
  BY DEF Counted
<1>2. /\ pc[t] = place /\ pc[t] \in Holding /\ pc[t] # "leased"
      /\ UNCHANGED <<conn, target, stopping>>
  BY DEF PingThen, At, Holding, stateVars
<1>3. CASE Answers(conn[t])
  <2>1. Goto(t, "leased") /\ "leased" \in Places /\ "leased" \in Holding
    BY <1>3 DEF PingThen, Places, Holding
  <2>2. conn[t] \in Connections /\ conn[t] # NoConnection
    <3>1. conn[t] \in Connections
      BY <1>2 DEF Counted, Owned, Holding
    <3> QED BY <3>1, ConnAssumption DEF NoConnection
  <2>3. Leased[t] = NoConnection /\ DOMAIN Leased = Threads
    BY <1>2 DEF Leased, At
  <2>4. Leased' = [Leased EXCEPT ![t] = conn[t]]
    BY <1>1, <1>2, <2>1, LeasesMove
  <2>5. Holders' = Holders /\ t \in Holders
    BY <1>1, <1>2, <2>1, LeasesMove DEF Holders
  <2>6. \A u \in Threads : Leased[u] # conn[t]
    BY <2>2, <2>3 DEF Leased, ExclusiveOwner
  <2>7. Leases!Grant(t, conn[t])
    BY <1>2, <2>3, <2>4, <2>5, <2>6 DEF Leases!Grant, Leases!NoLease, NoConnection
  <2> QED BY <2>2, <2>7 DEF Leases!LeaseNext
<1>4. CASE ~Answers(conn[t])
  <2>1. /\ Goto(t, otherwise) /\ otherwise \in Places /\ otherwise \in Holding
        /\ otherwise # "leased"
    BY <1>4 DEF PingThen, Places, Holding
  <2> QED BY <1>1, <1>2, <2>1, QuietMove
<1> QED BY <1>3, <1>4

\* The deleter ends a lease, and the catch block an admission.
LEMMA LeaveShows ==
    ASSUME Counted, NEW t \in Threads, Release(t) \/ Fail(t)
    PROVE  Leases!LeaseNext
<1>1. TypeOK
  BY DEF Counted
<1>2. /\ Goto(t, "notify") /\ "notify" \in Places /\ "notify" \notin Holding
      /\ UNCHANGED <<target, stopping>>
  BY DEF Release, Fail, Places, Holding
<1>3. \A u \in Threads \ {t} : conn'[u] = conn[u]
  BY <1>1 DEF Release, Released, Fail, TypeOK
<1>4. Holders' = Holders \ {t} /\ Leased' = [Leased EXCEPT ![t] = NoConnection]
  BY <1>1, <1>2, <1>3, LeasesMove
<1>5. CASE Release(t)
  <2>1. pc[t] = "leased" /\ conn[t] \in Connections
    BY <1>5 DEF Release, At, Counted, Owned, Holding
  <2>2. Leased[t] # NoConnection
    BY <2>1, ConnAssumption DEF Leased, At, NoConnection
  <2>3. Leases!Return(t)
    BY <1>2, <1>4, <2>2 DEF Leases!Return, Leases!NoLease, NoConnection
  <2> QED BY <2>3 DEF Leases!LeaseNext
<1>6. CASE Fail(t)
  <2>1. pc[t] = "failed" /\ t \in Holders /\ Leased[t] = NoConnection
    BY <1>6 DEF Fail, At, Holders, Holding, Leased
  <2>2. Leased' = Leased
    BY <1>4, <2>1 DEF Leased
  <2>3. Leases!GiveUp(t)
    BY <1>2, <1>4, <2>1, <2>2 DEF Leases!GiveUp, Leases!NoLease, NoConnection
  <2> QED BY <2>3 DEF Leases!LeaseNext
<1> QED BY <1>5, <1>6

\* The step of a thread.
LEMMA RunningShows ==
    ASSUME Counted, ExclusiveOwner, NEW t \in Threads, Running(t)
    PROVE  [Leases!LeaseNext]_(Leases!leaseState)
<1>1. TypeOK
  BY DEF Counted
<1>2. CASE Call(t) \/ Resume(t) \/ ResumeUnnotified(t) \/ TimeOut(t)
  <2>1. pc[t] \in {"out", "waiting", "woken"} /\ UNCHANGED <<target, stopping>>
    BY <1>2 DEF Call, Resume, ResumeUnnotified, TimeOut, At, stateVars
  <2>2. CASE Ready /\ Take(t)
    BY <2>1, <2>2, TakeAdmits
  <2>3. CASE UNCHANGED <<pc, conn>>
    BY <2>1, <2>3 DEF Leases!leaseState, Holders, Leased, At
  <2>4. ASSUME NEW place \in {"waiting", "out"}, Goto(t, place), UNCHANGED conn
        PROVE  UNCHANGED Leases!leaseState
    <3>1. /\ place \in Places /\ place \notin Holding /\ place # "leased"
          /\ pc[t] \notin Holding /\ pc[t] # "leased"
      BY <2>1 DEF Places, Holding
    <3> QED BY <1>1, <2>1, <2>4, <3>1, QuietMove
  <2>5. \/ Ready /\ Take(t)
        \/ UNCHANGED <<pc, conn>>
        \/ \E place \in {"waiting", "out"} : Goto(t, place) /\ UNCHANGED conn
    BY <1>2 DEF Call, Resume, ResumeUnnotified, TimeOut
  <2> QED BY <2>2, <2>3, <2>4, <2>5
<1>3. CASE Ping(t) \/ PingAgain(t) \/ PingNew(t)
  BY <1>3, PingGrants DEF Ping, PingAgain, PingNew
<1>4. CASE Create(t) \/ Reconnect(t) \/ Replace(t)
  <2>1. PICK place \in {"ping", "failed", "ping again", "replace", "ping new"} : Goto(t, place)
    BY <1>4 DEF Create, Reconnect, Replace
  <2>2. \A u \in Threads \ {t} : conn'[u] = conn[u]
    BY <1>1, <1>4 DEF Create, Reconnect, Replace, TypeOK
  <2>3. /\ pc[t] \in Holding /\ pc[t] # "leased" /\ UNCHANGED <<target, stopping>>
    BY <1>4 DEF Create, Reconnect, Replace, At, Holding, stateVars
  <2>4. place \in Places /\ place \in Holding /\ place # "leased"
    BY DEF Places, Holding
  <2> QED BY <1>1, <2>1, <2>2, <2>3, <2>4, QuietMove
<1>5. CASE Release(t) \/ Fail(t)
  BY <1>5, LeaveShows
<1>6. CASE Notify(t)
  <2>1. pc[t] = "notify" /\ UNCHANGED <<target, stopping>>
    BY <1>6 DEF Notify, At, stateVars
  <2>2. \A u \in Threads \ {t} : conn'[u] = conn[u]
    BY <1>1, <1>6 DEF Notify, TypeOK
  <2>3. \A u \in Threads : \/ pc'[u] = pc[u]
                           \/ /\ pc[u] \in {"notify", "waiting"}
                              /\ pc'[u] \in {"out", "woken"}
    BY <1>1, <1>6, <2>1 DEF Notify, WakesOne, Goto, Sleepers, TypeOK
  <2>4. pc'[t] # "leased"
    BY <2>1, <2>3
  <2>5. Holders' = Holders
    BY <2>3 DEF Holders, Holding
  <2>6. Leased' = Leased
    <3>1. \A u \in Threads : Leased'[u] = Leased[u]
      BY <2>1, <2>2, <2>3, <2>4 DEF Leased, At
    <3> QED BY <3>1 DEF Leased
  <2> QED BY <2>1, <2>5, <2>6 DEF Leases!leaseState
<1> QED BY <1>2, <1>3, <1>4, <1>5, <1>6 DEF Running, Acquiring, Returning

\* Every step of the pool and of MySQL is a step of the leases, or does not show.
LEMMA LeaseStep ==
    ASSUME Counted, ExclusiveOwner, [Next]_vars
    PROVE  [Leases!LeaseNext]_(Leases!leaseState)
<1>1. ASSUME NEW size \in PoolSizes, InitPool(size)
      PROVE  Leases!LeaseNext
  <2>1. /\ size # 0 /\ ~stopping /\ target = 0 /\ target' = size
        /\ UNCHANGED <<stopping, pc, conn>>
    BY <1>1 DEF InitPool, Counted, Order, threadVars
  <2>2. Leases!Open(size)
    BY <2>1 DEF Leases!Open, Holders, Leased, At
  <2> QED BY <2>1, <2>2 DEF Leases!LeaseNext
<1>2. ASSUME Stop
      PROVE  Leases!LeaseNext
  <2>1. Leases!Close
    BY <1>2 DEF Stop, threadVars, Leases!Close, Holders, Leased, At
  <2> QED BY <2>1 DEF Leases!LeaseNext
<1>3. ASSUME StopNotify
      PROVE  UNCHANGED Leases!leaseState
  <2>1. UNCHANGED <<conn, target, stopping>>
    BY <1>3 DEF StopNotify, stateVars
  <2>2. \A u \in Threads : pc'[u] = pc[u] \/ (pc[u] = "waiting" /\ pc'[u] = "woken")
    BY <1>3 DEF StopNotify, WokenByStop, At
  <2>3. Holders' = Holders
    BY <2>2 DEF Holders, Holding
  <2>4. Leased' = Leased
    <3>1. \A u \in Threads : Leased'[u] = Leased[u]
      BY <2>1, <2>2 DEF Leased, At
    <3> QED BY <3>1 DEF Leased
  <2> QED BY <2>1, <2>3, <2>4 DEF Leases!leaseState
<1>4. ASSUME Serving \/ UNCHANGED vars
      PROVE  UNCHANGED Leases!leaseState
  <2>1. UNCHANGED <<pc, conn, target, stopping>>
    BY <1>4 DEF Serving, ConnectionBreaks, ServerStops, ServerRecovers, vars, threadVars,
                stateVars
  <2> QED BY <2>1 DEF Leases!leaseState, Holders, Leased, At
<1> QED BY <1>1, <1>2, <1>3, <1>4, RunningShows DEF Next, Owning

-----------------------------------------------------------------------------
(* The theorems *)

\* The types, the count and the ownership facts hold in every state.
THEOREM CountedCorrect == Spec => []Counted
<1>1. Init => Counted
  BY CountedInit
<1>2. Counted /\ [Next]_vars => Counted'
  BY CountedStep
<1> QED BY <1>1, <1>2, PTL DEF Spec

\* Every variable of the pool keeps its type; in particular the size_t allocated
\* never wraps below zero.
THEOREM TypeCorrect == Spec => []TypeOK
<1>1. Counted => TypeOK
  BY DEF Counted
<1> QED BY <1>1, CountedCorrect, PTL

\* Capacity never leaks and is never exceeded, whichever of creation, ping,
\* reconnect and replacement fails, and whenever the pool stops.
THEOREM AllocatedCorrect == Spec => []AllocatedExact
<1>1. Counted => AllocatedExact
  BY DEF Counted
<1> QED BY <1>1, CountedCorrect, PTL

\* No connection is ever shared by two threads, or idle while a thread uses it.
THEOREM ExclusiveCorrect == Spec => []ExclusiveOwner
<1>1. Init => ExclusiveOwner
  BY DEF Init, ExclusiveOwner, Pooled
<1>2. Counted /\ ExclusiveOwner /\ [Next]_vars => ExclusiveOwner'
  BY ExclusiveStep
<1> QED BY <1>1, <1>2, CountedCorrect, PTL DEF Spec

\* No wake-up is lost, nobody sleeps through the end of the pool, and a stopped
\* pool keeps no connection.
THEOREM AwakeCorrect ==
    Spec => [](NoLostWakeUp /\ StoppedKeepsNothing /\ NobodySleepsAfterStop)
<1>1. Init => Awake
  BY DEF Init, Awake, Quiet, NoLostWakeUp, StoppedKeepsNothing, NobodySleepsAfterStop,
         Sleepers
<1>2. Counted /\ Counted' /\ Awake /\ [Next]_vars => Awake'
  BY WaitingAwake, CheckingAwake, ReturningAwake, OwningAwake
     DEF Next, Running, Acquiring, Returning
<1>3. Awake => NoLostWakeUp /\ StoppedKeepsNothing /\ NobodySleepsAfterStop
  BY DEF Awake
<1> QED BY <1>1, <1>2, <1>3, CountedCorrect, PTL DEF Spec

\* getConnection, the health check, the deleter and the destructor together implement
\* exclusive leases: whoever runs a statement has the connection alone and keeps the
\* same one, and no more threads than target are admitted, none once the pool stops.
THEOREM LeasesCorrect == Spec => ImplementsLeases
<1>1. Init => Leases!LeaseInit
  <2>1. ASSUME Init
        PROVE  Leased = [t \in Threads |-> NoConnection] /\ Holders = {}
    BY <2>1 DEF Init, Leased, Holders, Holding, At
  <2> QED BY <2>1 DEF Init, Leases!LeaseInit, Leases!NoLease, NoConnection
<1>2. Counted /\ ExclusiveOwner /\ [Next]_vars => [Leases!LeaseNext]_(Leases!leaseState)
  BY LeaseStep
<1> QED BY <1>1, <1>2, CountedCorrect, ExclusiveCorrect, PTL
        DEF Spec, ImplementsLeases, Leases!LeaseSpec
=============================================================================
