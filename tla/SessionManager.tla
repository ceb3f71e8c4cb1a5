---------------------------- MODULE SessionManager ----------------------------
(***************************************************************************)
(* Login sessions: http::session::SessionManager, MemorySessionStorage and *)
(* Session, driven by the handlers that use them.                          *)
(*                                                                         *)
(* A request asks the manager for its session: the stored object is        *)
(* refreshed, or a new one is admitted if the capacity allows it.  The     *)
(* handler then works on the object it holds, which may leave the store    *)
(* meanwhile: by logout, by expiry, or by the sweep of the cleanup thread. *)
(*                                                                         *)
(* Sections under the storage mutex are one step, sections under the       *)
(* session mutex are one step; Session::setValue is two, because it writes *)
(* under the session mutex and updates the storage after releasing it.     *)
(* Other handlers than login and logout only read what they hold.          *)
(***************************************************************************)
EXTENDS Naturals, FiniteSets

CONSTANTS Threads,  \* threads that run handlers
          Ids,      \* session ids generateSessionId may return
          Objects,  \* identities of Session objects
          Users,    \* user ids
          Capacity, \* 10000: capacity_ of the storage
          MaxAge,   \* 3600 s: idle lifetime
          MaxTime   \* bound: the last instant of steady_clock

ASSUME CapacityAssumption == Capacity \in Nat \ {0}
ASSUME AgeAssumption      == MaxAge \in Nat \ {0} /\ MaxTime \in Nat
ASSUME IdsAssumption      == IsFiniteSet(Ids)
ASSUME NoneAssumption     == "none" \notin Objects \cup Ids \cup Users

VARIABLES now,
          sessions_,    \* the storage: a map from ids to objects
          sid,          \* id of each object; None before it is constructed
          expiryTime_,  \* of each object
          data_,        \* of each object: its userId; nothing depends on the other keys
          onlineUsers_,
          pc,           \* where each thread is
          held,         \* the object the thread's request works on, while it runs
          user,         \* the user a login authenticated, or a logout found
          cleaner,      \* the cleanup thread: "waiting", "sweeping", "joined"
          manager,      \* "alive", "stopping", "gone"
          removed,      \* history: objects that have left the storage
          lastUse       \* history: when a request last obtained each object

objectVars == <<sid, data_>>
threadVars == <<pc, held, user>>
ownerVars  == <<cleaner, manager>>
vars == <<now, sessions_, expiryTime_, objectVars, onlineUsers_, threadVars, ownerVars,
          removed, lastUse>>

-----------------------------------------------------------------------------
(* Places and keys *)

None == "none"

\* A login updates the storage after each of the three values it sets; the writes
\* of username and isLoggedIn are taken with the update that follows them.
Places ==
    {"idle", "admit login", "admit logout", "admit other",
     "write userId", "update userId", "set username", "set isLoggedIn", "online",
     "read userId", "clear", "destroy", "offline"}

At(t, place)   == pc[t] = place
Goto(t, place) == pc' = [pc EXCEPT ![t] = place]

\* The request ends, and lets go of its session.
Ends(t) ==
    /\ Goto(t, "idle")
    /\ held' = [held EXCEPT ![t] = None]
    /\ user' = [user EXCEPT ![t] = None]

Continues(t, place) == Goto(t, place) /\ UNCHANGED <<held, user>>

Kinds == {"login", "logout", "other"}

AdmitPlace(kind) ==
    [login |-> "admit login", logout |-> "admit logout", other |-> "admit other"][kind]

\* The request has its session; `u` is the user a login has authenticated.
Begins(t, kind, o, u) ==
    \/ /\ kind = "other"
       /\ Ends(t)
    \/ /\ kind # "other"
       /\ Goto(t, [login |-> "write userId", logout |-> "read userId"][kind])
       /\ held' = [held EXCEPT ![t] = o]
       /\ user' = [user EXCEPT ![t] = u]

-----------------------------------------------------------------------------
(* MemorySessionStorage *)

Stored     == {sessions_[i] : i \in DOMAIN sessions_}
Expired(o) == now >= expiryTime_[o]

Without(map, ids) == [i \in DOMAIN map \ ids |-> map[i]]

\* The storage loses the entries `ids`; the objects live on with whoever holds them.
Erase(ids) ==
    /\ sessions_' = Without(sessions_, ids)
    /\ removed' = removed \cup {sessions_[i] : i \in ids \cap DOMAIN sessions_}

ExpiredIds == {i \in DOMAIN sessions_ : Expired(sessions_[i])}

\* Mutant: a full storage is not swept before it refuses.
MakesRoomNever(ids) == FALSE

\* admit sweeps when, without the entries `ids`, the storage is full.
MakesRoom(ids) == Cardinality(DOMAIN sessions_ \ ids) >= Capacity

\* Mutant: off by one.
HasRoomOneMore(ids) == Cardinality(DOMAIN sessions_ \ ids) <= Capacity

HasRoom(ids) == Cardinality(DOMAIN sessions_ \ ids) < Capacity

\* What admit erases before it decides: an expired entry with the same id, and every
\* expired entry if there is no room.
Reclaims(id) ==
    LET same == {id} \cap ExpiredIds
    IN  IF MakesRoom(same) THEN ExpiredIds ELSE same

\* A live entry has the id already.
Collides(id) == id \in DOMAIN sessions_ \ ExpiredIds

\* admit(o) with o->getId() = id; `admitted` is what it returns.
Admit(o, id, admitted) ==
    \/ /\ Collides(id)
       /\ ~admitted
       /\ UNCHANGED <<sessions_, removed>>
    \/ /\ ~Collides(id)
       /\ admitted = HasRoom(Reclaims(id))
       /\ removed' = removed \cup {sessions_[i] : i \in Reclaims(id)}
       /\ LET kept == Without(sessions_, Reclaims(id))
          IN  sessions_' = IF admitted
                           THEN [i \in DOMAIN kept \cup {id} |-> IF i = id THEN o ELSE kept[i]]
                           ELSE kept

\* Mutant: the load does not extend the lifetime.
RefreshedNot(o) == expiryTime_

\* loadAndRefresh: now + maxAge_.
Refreshed(o) == [expiryTime_ EXCEPT ![o] = now + MaxAge]

\* Mutant: an update saves the object whether or not it is stored.
UpdateExistingSaves(o) ==
    /\ sessions_' = [i \in DOMAIN sessions_ \cup {sid[o]} |->
                       IF i = sid[o] THEN o ELSE sessions_[i]]
    /\ UNCHANGED removed

\* updateExisting: an expired entry is erased, anything else stays as it is.
UpdateExisting(o) ==
    \/ /\ o \in Stored /\ Expired(o)
       /\ Erase({sid[o]})
    \/ /\ ~(o \in Stored /\ Expired(o))
       /\ UNCHANGED <<sessions_, removed>>

-----------------------------------------------------------------------------
(* SessionManager::getSession *)

\* The request presents the cookie of a live session.
LoadHits(t, kind, id, u) ==
    /\ At(t, "idle") /\ manager = "alive"
    /\ id \in DOMAIN sessions_ \ ExpiredIds
    /\ expiryTime_' = Refreshed(sessions_[id])
    /\ lastUse' = [lastUse EXCEPT ![sessions_[id]] = now]
    /\ Begins(t, kind, sessions_[id], u)
    /\ UNCHANGED <<now, sessions_, objectVars, onlineUsers_, ownerVars, removed>>

\* The request has no cookie, or one whose session is gone or has expired: it
\* constructs a Session o with a generated id.
LoadMisses(t, kind, cookie, u, o, id) ==
    /\ At(t, "idle") /\ manager = "alive"
    /\ cookie \in {None} \cup (Ids \ DOMAIN sessions_) \cup ExpiredIds
    /\ sid[o] = None
    /\ Erase({cookie})
    /\ sid' = [sid EXCEPT ![o] = id]
    /\ expiryTime_' = [expiryTime_ EXCEPT ![o] = now + MaxAge]
    /\ lastUse' = [lastUse EXCEPT ![o] = now]
    /\ held' = [held EXCEPT ![t] = o]
    /\ user' = [user EXCEPT ![t] = u]
    /\ Goto(t, AdmitPlace(kind))
    /\ UNCHANGED <<now, data_, onlineUsers_, ownerVars>>

Admitted(t, kind) ==
    /\ At(t, AdmitPlace(kind))
    /\ Admit(held[t], sid[held[t]], TRUE)
    /\ Begins(t, kind, held[t], user[t])
    /\ UNCHANGED <<now, expiryTime_, objectVars, onlineUsers_, ownerVars, lastUse>>

\* The request fails with 503, and the new object is destroyed.
Refused(t, kind) ==
    /\ At(t, AdmitPlace(kind))
    /\ Admit(held[t], sid[held[t]], FALSE)
    /\ sid' = [sid EXCEPT ![held[t]] = None]
    /\ Ends(t)
    /\ UNCHANGED <<now, expiryTime_, data_, onlineUsers_, ownerVars, lastUse>>

-----------------------------------------------------------------------------
(* ChatLoginHandler, after the password has been verified *)

\* Session::setValue: the write under the session mutex ...
WriteUserId(t) ==
    /\ At(t, "write userId")
    /\ data_' = [data_ EXCEPT ![held[t]] = user[t]]
    /\ Continues(t, "update userId")
    /\ UNCHANGED <<now, sessions_, expiryTime_, sid, onlineUsers_, ownerVars, removed, lastUse>>

\* ... and the update of the storage after its release.
UpdateStorage(t, place, next) ==
    /\ At(t, place)
    /\ UpdateExisting(held[t])
    /\ Continues(t, next)
    /\ UNCHANGED <<now, expiryTime_, objectVars, onlineUsers_, ownerVars, lastUse>>

SetValues(t) ==
    \/ WriteUserId(t)
    \/ UpdateStorage(t, "update userId", "set username")
    \/ UpdateStorage(t, "set username", "set isLoggedIn")
    \/ UpdateStorage(t, "set isLoggedIn", "online")

MarkOnline(t) ==
    /\ At(t, "online")
    /\ onlineUsers_' = onlineUsers_ \cup {user[t]}
    /\ Ends(t)
    /\ UNCHANGED <<now, sessions_, expiryTime_, objectVars, ownerVars, removed, lastUse>>

-----------------------------------------------------------------------------
(* ChatLogoutHandler *)

\* stoi of the empty userId of a session without a login throws: the request fails
\* with 400.
ReadUserId(t) ==
    /\ At(t, "read userId")
    /\ \/ /\ data_[held[t]] = None
          /\ Ends(t)
       \/ /\ data_[held[t]] # None
          /\ user' = [user EXCEPT ![t] = data_[held[t]]]
          /\ Goto(t, "clear")
          /\ UNCHANGED held
    /\ UNCHANGED <<now, sessions_, expiryTime_, objectVars, onlineUsers_, ownerVars, removed,
                   lastUse>>

Clear(t) ==
    /\ At(t, "clear")
    /\ data_' = [data_ EXCEPT ![held[t]] = None]
    /\ Continues(t, "destroy")
    /\ UNCHANGED <<now, sessions_, expiryTime_, sid, onlineUsers_, ownerVars, removed, lastUse>>

\* destroySession erases by id; a body that is not JSON ends the request after it.
DestroySession(t) ==
    /\ At(t, "destroy")
    /\ Erase({sid[held[t]]})
    /\ Continues(t, "offline") \/ Ends(t)
    /\ UNCHANGED <<now, expiryTime_, objectVars, onlineUsers_, ownerVars, lastUse>>

MarkOffline(t) ==
    /\ At(t, "offline")
    /\ onlineUsers_' = onlineUsers_ \ {user[t]}
    /\ Ends(t)
    /\ UNCHANGED <<now, sessions_, expiryTime_, objectVars, ownerVars, removed, lastUse>>

-----------------------------------------------------------------------------
(* The clock, the cleanup thread and the end of the manager *)

Tick ==
    /\ now < MaxTime
    /\ now' = now + 1
    /\ UNCHANGED <<sessions_, expiryTime_, objectVars, onlineUsers_, threadVars, ownerVars,
                   removed, lastUse>>

\* cleanupLoop: the interval has passed.
SweepStarts ==
    /\ cleaner = "waiting" /\ manager = "alive"
    /\ cleaner' = "sweeping"
    /\ UNCHANGED <<now, sessions_, expiryTime_, objectVars, onlineUsers_, threadVars, manager,
                   removed, lastUse>>

\* Mutant: the sweep removes nothing.
SweptNothing == {}

Swept == ExpiredIds

Sweep ==
    /\ cleaner = "sweeping"
    /\ cleaner' = "waiting"
    /\ Erase(Swept)
    /\ UNCHANGED <<now, expiryTime_, objectVars, onlineUsers_, threadVars, manager, lastUse>>

\* ~SessionManager, once the server's threads have ended.
ManagerStops ==
    /\ manager = "alive"
    /\ \A t \in Threads : At(t, "idle")
    /\ manager' = "stopping"
    /\ UNCHANGED <<now, sessions_, expiryTime_, objectVars, onlineUsers_, threadVars, cleaner,
                   removed, lastUse>>

\* Mutant: the loop waits without looking at stopping_.
LeavesLoopNever == FALSE

LeavesLoop == manager = "stopping"

CleanerExits ==
    /\ cleaner = "waiting" /\ LeavesLoop
    /\ cleaner' = "joined"
    /\ UNCHANGED <<now, sessions_, expiryTime_, objectVars, onlineUsers_, threadVars, manager,
                   removed, lastUse>>

\* join returns, and the storage goes with the manager.
ManagerEnds ==
    /\ manager = "stopping" /\ cleaner = "joined"
    /\ manager' = "gone"
    /\ Erase(DOMAIN sessions_)
    /\ UNCHANGED <<now, expiryTime_, objectVars, onlineUsers_, threadVars, cleaner, lastUse>>

-----------------------------------------------------------------------------
(* The specification *)

Init ==
    /\ now = 0
    /\ sessions_ = [i \in {} |-> None]
    /\ sid = [o \in Objects |-> None]
    /\ expiryTime_ = [o \in Objects |-> 0]
    /\ data_ = [o \in Objects |-> None]
    /\ onlineUsers_ = {}
    /\ pc = [t \in Threads |-> "idle"]
    /\ held = [t \in Threads |-> None]
    /\ user = [t \in Threads |-> None]
    /\ cleaner = "waiting" /\ manager = "alive"
    /\ removed = {}
    /\ lastUse = [o \in Objects |-> 0]

Requesting(t) ==
    \E kind \in Kinds :
        \/ \E u \in IF kind = "login" THEN Users ELSE {None} :
              \/ \E id \in Ids : LoadHits(t, kind, id, u)
              \/ \E cookie \in Ids \cup {None}, o \in Objects, id \in Ids :
                    LoadMisses(t, kind, cookie, u, o, id)
        \/ Admitted(t, kind)
        \/ Refused(t, kind)

LoggingOut(t) == ReadUserId(t) \/ Clear(t) \/ DestroySession(t) \/ MarkOffline(t)

Handling(t) == Requesting(t) \/ SetValues(t) \/ MarkOnline(t) \/ LoggingOut(t)

Cleaning == SweepStarts \/ Sweep \/ CleanerExits

Next == (\E t \in Threads : Handling(t)) \/ Tick \/ Cleaning \/ ManagerStops \/ ManagerEnds

Spec == Init /\ [][Next]_vars

\* wait_for returns after its interval or at once when it is notified, the thread
\* runs, and a join that can return does.
Fairness ==
    WF_vars(SweepStarts) /\ WF_vars(Sweep) /\ WF_vars(CleanerExits) /\ WF_vars(ManagerEnds)

FairSpec == Spec /\ Fairness

-----------------------------------------------------------------------------
(* Properties *)

\* Every variable keeps its type, and an entry is filed under its object's id.
TypeOK ==
    /\ now \in 0..MaxTime
    /\ DOMAIN sessions_ \subseteq Ids
    /\ sessions_ \in [DOMAIN sessions_ -> Objects]
    /\ \A i \in DOMAIN sessions_ : sid[sessions_[i]] = i
    /\ sid \in [Objects -> Ids \cup {None}]
    /\ expiryTime_ \in [Objects -> Nat]
    /\ data_ \in [Objects -> Users \cup {None}]
    /\ onlineUsers_ \in SUBSET Users
    /\ pc \in [Threads -> Places]
    /\ held \in [Threads -> Objects \cup {None}]
    /\ user \in [Threads -> Users \cup {None}]
    /\ cleaner \in {"waiting", "sweeping", "joined"}
    /\ manager \in {"alive", "stopping", "gone"}
    /\ removed \in SUBSET Objects
    /\ lastUse \in [Objects -> 0..MaxTime]

\* The storage never holds more sessions than its capacity, however many requests
\* are between their load and their admission.
WithinCapacity == Cardinality(DOMAIN sessions_) <= Capacity

\* A session that has left the storage never comes back, whatever a request that
\* still holds the object writes to it: a logout cannot be undone by a late setValue.
NoResurrection == Stored \cap removed = {}

\* The storage drops a session only if a logout is destroying it, if no request has
\* obtained it for MaxAge, or with the manager: valid sessions are never evicted to
\* make room, and using a session keeps it.
Destroying(o) == \E t \in Threads : At(t, "destroy") /\ sid[held[t]] = sid[o]

EvictsOnlyIdle ==
    [][\A o \in Stored : \/ o \in Stored'
                         \/ now >= lastUse[o] + MaxAge
                         \/ Destroying(o)
                         \/ manager' = "gone"]_vars

\* A request is refused only while the storage is full of live sessions, or when the
\* new id is taken by one: capacity held by expired sessions is always usable.
RefusesOnlyWhenFull ==
    [][\A t \in Threads :
         (\E kind \in Kinds : Refused(t, kind)) =>
            \/ Cardinality(DOMAIN sessions_ \ ExpiredIds) >= Capacity
            \/ Collides(sid[held[t]])]_vars

\* A session nobody comes back for is reclaimed.
ExpiredIsReclaimed ==
    \A o \in Objects : (o \in Stored /\ Expired(o)) ~> o \notin Stored

\* The destructor returns.
StopJoins == manager = "stopping" ~> manager = "gone"
=============================================================================
