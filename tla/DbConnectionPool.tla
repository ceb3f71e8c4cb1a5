--------------------------- MODULE DbConnectionPool ---------------------------
(***************************************************************************)
(* http::db::DbConnectionPool: a bounded pool of MySQL connections shared  *)
(* by the threads of the server.                                           *)
(*                                                                         *)
(* A thread that calls getConnection takes an idle connection, or reserves *)
(* a place and creates one, or waits on the condition variable.  What it   *)
(* took is health-checked outside the mutex, with one reconnect and one    *)
(* replacement; if all that fails the place is given up.  The deleter of   *)
(* the lease returns the connection.  Every section under state->mutex is  *)
(* one step; each notification is a step of its own, because the code      *)
(* notifies after it has unlocked.                                         *)
(***************************************************************************)
EXTENDS Naturals, Sequences, FiniteSets

CONSTANTS Threads,     \* the threads that call getConnection
          Connections, \* identities of DbConnection objects
          PoolSizes,   \* values init may be called with
          MaxFaults    \* bound: broken connections and server outages

ASSUME ThreadsAssumption   == IsFiniteSet(Threads)
ASSUME ConnAssumption      == "none" \notin Connections
ASSUME PoolSizesAssumption == PoolSizes \subseteq Nat
ASSUME LimitsAssumption    == MaxFaults \in Nat

VARIABLES initialized, stopping, target, allocated, idle, \* struct State
          pc,       \* where each thread is
          conn,     \* the DbConnection a thread owns
          owner,    \* "alive", "notify" (in the destructor, unlocked) or "gone"
          serverUp, \* MySQL accepts and answers
          broken,   \* connections whose socket is dead
          faults    \* faults so far

stateVars  == <<initialized, stopping, target, allocated, idle>>
threadVars == <<pc, conn>>
serverVars == <<serverUp, broken, faults>>
vars       == <<stateVars, threadVars, owner, serverVars>>

-----------------------------------------------------------------------------
(* Places *)

NoConnection == "none"

\* A thread in one of these places has taken a place of the pool.
Holding == {"create", "ping", "reconnect", "ping again", "replace", "ping new",
            "failed", "leased"}
Places  == Holding \cup {"out", "waiting", "woken", "notify"}

Holders  == {t \in Threads : pc[t] \in Holding}
Sleepers == {t \in Threads : pc[t] = "waiting"}

\* Connections somebody owns.
Pooled == {idle[i] : i \in DOMAIN idle}
Live   == Pooled \cup {conn[t] : t \in Threads}

At(t, place)   == pc[t] = place
Goto(t, place) == pc' = [pc EXCEPT ![t] = place]

-----------------------------------------------------------------------------
(* DbConnection *)

\* What ping returns.
Answers(c) == serverUp /\ c \notin broken

\* The constructor connects: c is a new object.
Creates(c) == serverUp /\ c \in Connections \ Live

-----------------------------------------------------------------------------
(* init and the destructor *)

\* init builds every connection before it publishes any of them.
InitPool(size) ==
    /\ owner = "alive" /\ ~initialized /\ ~stopping /\ size # 0 /\ serverUp
    /\ \E ready \in [1..size -> Connections \ Live] :
          /\ \A i, j \in 1..size : i # j => ready[i] # ready[j]
          /\ idle' = ready
          /\ broken' = broken \ {ready[i] : i \in 1..size}
    /\ target' = size
    /\ allocated' = size
    /\ initialized' = TRUE
    /\ UNCHANGED <<stopping, threadVars, owner, serverUp, faults>>

\* Mutant: the retired connections stay counted.
RetireUncounted == allocated

Retire == allocated - Len(idle)

\* ~DbConnectionPool, the part under the mutex.
Stop ==
    /\ owner = "alive"
    /\ owner' = "notify"
    /\ stopping' = TRUE
    /\ allocated' = Retire
    /\ idle' = <<>>
    /\ UNCHANGED <<initialized, target, threadVars, serverVars>>

WokenByStop == pc' = [t \in Threads |-> IF At(t, "waiting") THEN "woken" ELSE pc[t]]

\* Its notify_all.
StopNotify ==
    /\ owner = "notify"
    /\ owner' = "gone"
    /\ WokenByStop
    /\ UNCHANGED <<stateVars, conn, serverVars>>

-----------------------------------------------------------------------------
(* getConnection under the mutex *)

\* Mutant: only an idle connection ends the wait.
ReadyIdleOnly == stopping \/ idle # <<>>

\* The predicate of wait_for.
Ready == stopping \/ idle # <<>> \/ allocated < target

\* Mutant: a thread that slept does not look at stopping again.
RefusedNever == FALSE

\* The test after the wait.
Refused == stopping

\* The lines after the wait: throw, take an idle connection, or reserve a place.
Take(t) ==
    \/ /\ Refused
       /\ Goto(t, "out")
       /\ UNCHANGED <<conn, idle, allocated>>
    \/ /\ ~Refused /\ idle # <<>>
       /\ Goto(t, "ping")
       /\ conn' = [conn EXCEPT ![t] = Head(idle)]
       /\ idle' = Tail(idle)
       /\ UNCHANGED allocated
    \/ /\ ~Refused /\ idle = <<>>
       /\ Goto(t, "create")
       /\ allocated' = allocated + 1
       /\ UNCHANGED <<conn, idle>>

\* getConnection from its entry: unavailable, ready at once, or asleep.
Call(t) ==
    /\ At(t, "out") /\ owner # "gone"
    /\ \/ /\ ~initialized \/ stopping
          /\ UNCHANGED <<pc, conn, idle, allocated>>
       \/ /\ initialized /\ ~stopping /\ Ready
          /\ Take(t)
       \/ /\ initialized /\ ~stopping /\ ~Ready
          /\ Goto(t, "waiting")
          /\ UNCHANGED <<conn, idle, allocated>>
    /\ UNCHANGED <<initialized, stopping, target, owner, serverVars>>

\* A notified thread has the mutex again.
Resume(t) ==
    /\ At(t, "woken")
    /\ \/ Ready /\ Take(t)
       \/ ~Ready /\ Goto(t, "waiting") /\ UNCHANGED <<conn, idle, allocated>>
    /\ UNCHANGED <<initialized, stopping, target, owner, serverVars>>

\* A spurious wake-up, or the 30 seconds end: either way the predicate decides.
ResumeUnnotified(t) ==
    /\ At(t, "waiting")
    /\ Ready
    /\ Take(t)
    /\ UNCHANGED <<initialized, stopping, target, owner, serverVars>>

\* Mutant: wait instead of wait_for.
TimeOutNever(t) == FALSE

\* The 30 seconds end and there is still nothing to take.
TimeOut(t) ==
    /\ At(t, "waiting") \/ At(t, "woken")
    /\ ~Ready
    /\ Goto(t, "out")
    /\ UNCHANGED <<stateVars, conn, owner, serverVars>>

-----------------------------------------------------------------------------
(* getConnection outside the mutex: the health check *)

\* The reserved place is filled.
Create(t) ==
    /\ At(t, "create")
    /\ \/ \E c \in Connections :
            /\ Creates(c)
            /\ conn' = [conn EXCEPT ![t] = c]
            /\ broken' = broken \ {c}
            /\ Goto(t, "ping")
       \/ /\ ~serverUp
          /\ Goto(t, "failed")
          /\ UNCHANGED <<conn, broken>>
    /\ UNCHANGED <<stateVars, owner, serverUp, faults>>

\* A ping decides between the lease and the next attempt.
PingThen(t, place, otherwise) ==
    /\ At(t, place)
    /\ Goto(t, IF Answers(conn[t]) THEN "leased" ELSE otherwise)
    /\ UNCHANGED <<stateVars, conn, owner, serverVars>>

Ping(t)      == PingThen(t, "ping", "reconnect")
PingAgain(t) == PingThen(t, "ping again", "replace")
PingNew(t)   == PingThen(t, "ping new", "failed")

Reconnect(t) ==
    /\ At(t, "reconnect")
    /\ \/ /\ serverUp
          /\ broken' = broken \ {conn[t]}
          /\ Goto(t, "ping again")
       \/ /\ ~serverUp
          /\ Goto(t, "replace")
          /\ UNCHANGED broken
    /\ UNCHANGED <<stateVars, conn, owner, serverUp, faults>>

\* The old connection is destroyed when the replacement exists.
Replace(t) ==
    /\ At(t, "replace")
    /\ \/ \E c \in Connections :
            /\ Creates(c)
            /\ conn' = [conn EXCEPT ![t] = c]
            /\ broken' = broken \ {c}
            /\ Goto(t, "ping new")
       \/ /\ ~serverUp
          /\ Goto(t, "failed")
          /\ UNCHANGED <<conn, broken>>
    /\ UNCHANGED <<stateVars, owner, serverUp, faults>>

\* Mutant: a failed check forgets to give its place up.
GiveUpLeaks == allocated

GiveUp == allocated - 1

\* The catch block.  Unwinding destroys the connection after the notification.
Fail(t) ==
    /\ At(t, "failed")
    /\ allocated' = GiveUp
    /\ Goto(t, "notify")
    /\ UNCHANGED <<initialized, stopping, target, idle, conn, owner, serverVars>>

-----------------------------------------------------------------------------
(* The deleter of the lease *)

ReturnConnection(t) ==
    \/ stopping /\ allocated' = allocated - 1 /\ UNCHANGED idle
    \/ ~stopping /\ idle' = Append(idle, conn[t]) /\ UNCHANGED allocated

\* Mutant: the deleter keeps its reference when it has returned the connection.
ReleasedKept(t) == UNCHANGED conn

Released(t) == conn' = [conn EXCEPT ![t] = NoConnection]

Release(t) ==
    /\ At(t, "leased")
    /\ ReturnConnection(t)
    /\ Released(t)
    /\ Goto(t, "notify")
    /\ UNCHANGED <<initialized, stopping, target, owner, serverVars>>

\* Mutant: no notification.
WakesNobody(t) == Goto(t, "out")

\* notify_one wakes one of the sleeping threads, if there is one.
WakesOne(t) ==
    \/ Sleepers = {} /\ Goto(t, "out")
    \/ \E w \in Sleepers : pc' = [pc EXCEPT ![t] = "out", ![w] = "woken"]

Notify(t) ==
    /\ At(t, "notify")
    /\ WakesOne(t)
    /\ conn' = [conn EXCEPT ![t] = NoConnection]
    /\ UNCHANGED <<stateVars, owner, serverVars>>

-----------------------------------------------------------------------------
(* MySQL *)

Fault == faults < MaxFaults /\ faults' = faults + 1

ConnectionBreaks(c) ==
    /\ c \in Live \ {NoConnection}
    /\ c \notin broken
    /\ Fault
    /\ broken' = broken \cup {c}
    /\ UNCHANGED <<stateVars, threadVars, owner, serverUp>>

\* An outage ends every connection.
ServerStops ==
    /\ serverUp
    /\ Fault
    /\ serverUp' = FALSE
    /\ broken' = Connections
    /\ UNCHANGED <<stateVars, threadVars, owner>>

ServerRecovers ==
    /\ ~serverUp
    /\ serverUp' = TRUE
    /\ UNCHANGED <<stateVars, threadVars, owner, broken, faults>>

-----------------------------------------------------------------------------
(* The specification *)

Init ==
    /\ initialized = FALSE /\ stopping = FALSE
    /\ target = 0 /\ allocated = 0 /\ idle = <<>>
    /\ pc = [t \in Threads |-> "out"]
    /\ conn = [t \in Threads |-> NoConnection]
    /\ owner = "alive"
    /\ serverUp = TRUE /\ broken = {} /\ faults = 0

Acquiring(t) ==
    \/ Resume(t) \/ Create(t) \/ Ping(t) \/ Reconnect(t) \/ PingAgain(t)
    \/ Replace(t) \/ PingNew(t) \/ Fail(t)

Returning(t) == Release(t) \/ Notify(t)

Running(t) ==
    Call(t) \/ ResumeUnnotified(t) \/ TimeOut(t) \/ Acquiring(t) \/ Returning(t)

Owning == (\E size \in PoolSizes : InitPool(size)) \/ Stop \/ StopNotify

Serving == (\E c \in Connections : ConnectionBreaks(c)) \/ ServerStops \/ ServerRecovers

Next == (\E t \in Threads : Running(t)) \/ Owning \/ Serving

Spec == Init /\ [][Next]_vars

\* A thread inside getConnection runs on, a lease ends with the scope of the query
\* that holds it, and a destructor that has begun ends.  Nobody has to call, and
\* nothing is assumed of the 30 second limit.
Fairness ==
    /\ \A t \in Threads : WF_vars(Acquiring(t)) /\ WF_vars(Returning(t))
    /\ WF_vars(StopNotify)

FairSpec == Spec /\ Fairness

-----------------------------------------------------------------------------
(* Properties *)

\* Every variable keeps its type; allocated, a size_t, never falls below zero.
TypeOK ==
    /\ initialized \in BOOLEAN /\ stopping \in BOOLEAN
    /\ target \in Nat /\ allocated \in Nat
    /\ idle \in Seq(Connections)
    /\ pc \in [Threads -> Places]
    /\ conn \in [Threads -> Connections \cup {NoConnection}]
    /\ owner \in {"alive", "notify", "gone"}
    /\ serverUp \in BOOLEAN /\ broken \in SUBSET Connections /\ faults \in 0..MaxFaults

\* allocated is what State says of it, "idle + checked out + creation
\* reservations", through failed creations, failed replacements and leases that
\* outlive the pool; so capacity neither leaks nor exceeds target.
AllocatedExact ==
    /\ allocated = Len(idle) + Cardinality(Holders)
    /\ allocated <= target

\* A connection has one owner: it is in the idle queue once, or with one thread.
ExclusiveOwner ==
    /\ \A i, j \in DOMAIN idle : i # j => idle[i] # idle[j]
    /\ \A t \in Threads : conn[t] \notin Pooled
    /\ \A t, u \in Threads : t # u /\ conn[t] # NoConnection => conn[t] # conn[u]

\* A pool that stops keeps no connection, whenever its leases are returned.
StoppedKeepsNothing == stopping => idle = <<>>

\* What a caller could take now: connections and places.
Available == Len(idle) + (target - allocated)

\* Wake-ups on their way: threads woken or about to wake one.
Wakers == {t \in Threads : pc[t] \in {"woken", "notify"}}

\* Nobody sleeps beside something to take: while anybody sleeps, a wake-up is on its
\* way for everything that could be taken, although notify_one happens after the
\* unlock, newcomers overtake woken threads, and a failed creation frees a place
\* without an idle connection.
NoLostWakeUp ==
    ~stopping /\ Sleepers # {} => Available <= Cardinality(Wakers)

\* Once the destructor has notified, nobody sleeps any more.
NobodySleepsAfterStop == owner = "gone" => Sleepers = {}

Waits(t) == pc[t] \in {"waiting", "woken"}

\* Another thread takes a connection or a place.
Overtakes(t) ==
    \E u \in Threads \ {t} : pc[u] \notin Holding /\ pc'[u] \in Holding

\* The notifications alone are enough: a thread that waits is served, or the pool stops,
\* unless others take connections again and again.  They may: who is notified has to
\* get the mutex, and who calls meanwhile, or returns one and calls again, takes what
\* there was.
ServedOrOvertaken ==
    \A t \in Threads : (Waits(t) ~> ~Waits(t)) \/ []<><<Overtakes(t)>>_vars

\* The deadline of wait_for, whatever the predicate says then.
TimeLimit(t) == TimeOut(t) \/ (Ready /\ (Resume(t) \/ ResumeUnnotified(t)))

\* Every call of getConnection ends, with a lease or an exception, although those that
\* wait can be overtaken for ever: the time limit ends their wait, and nothing that
\* others do, or that MySQL does, keeps a health check from its end.
CallsEnd ==
    (\A t \in Threads : WF_vars(TimeLimit(t)))
      => \A t \in Threads : pc[t] \in Places \ {"out", "leased"} ~> pc[t] \in {"out", "leased"}

\* When the pool stops, its capacity drains to nothing.
StopDrains == stopping ~> allocated = 0

-----------------------------------------------------------------------------
(* What the code that runs statements may rely on *)

Leased == [t \in Threads |-> IF At(t, "leased") THEN conn[t] ELSE NoConnection]

Leases == INSTANCE ConnectionLeases WITH
    limit  <- target,
    closed <- stopping,
    users  <- Holders,
    lease  <- Leased

\* The pool implements exclusive leases: admission within the size given to init, one
\* connection per lease and one lease per connection, none exchanged under its holder
\* by a health check, and nobody admitted once the pool stops, not even a thread that
\* was asleep; leases that are out, and checks that have begun, end in their own way.
ImplementsLeases == Leases!LeaseSpec
=============================================================================
