------------------------- MODULE SessionManagerProofs -------------------------
(***************************************************************************)
(* Proofs about SessionManager, for every set of threads, ids and objects, *)
(* every capacity and every lifetime.                                      *)
(***************************************************************************)
EXTENDS SessionManager, FiniteSetTheorems, TLAPS

-----------------------------------------------------------------------------
(* The inductive invariant *)

Admitting == {AdmitPlace(kind) : kind \in Kinds}
LoggingIn == {"admit login", "write userId", "update userId", "set username",
              "set isLoggedIn", "online"}

\* A request works on a constructed object, and a login knows its user.
Working ==
    \A t \in Threads :
        /\ pc[t] # "idle" => held[t] \in Objects /\ sid[held[t]] \in Ids
        /\ pc[t] \in LoggingIn => user[t] \in Users

\* Until it is admitted, a new object is known to its own request only.
Private ==
    \A t \in Threads : pc[t] \in Admitting =>
        /\ held[t] \notin Stored \cup removed
        /\ \A other \in Threads \ {t} : held[other] # held[t]

\* An idle thread holds nothing, and an object without an id is nowhere.
Unborn ==
    /\ \A t \in Threads : pc[t] = "idle" => held[t] = None
    /\ \A o \in Objects : sid[o] = None => o \notin Stored \cup removed

\* Nothing changes the lifetime of an object but a request that obtains it.
Lifetime == \A o \in Objects : sid[o] # None => expiryTime_[o] = lastUse[o] + MaxAge

Inv == TypeOK /\ Working /\ Private /\ Unborn /\ Lifetime /\ NoResurrection /\ WithinCapacity

-----------------------------------------------------------------------------
(* The storage *)

\* What a step that files nothing does to the storage.
Shrinks ==
    /\ DOMAIN sessions_' \subseteq DOMAIN sessions_
    /\ sessions_' \in [DOMAIN sessions_' -> Objects]
    /\ \A i \in DOMAIN sessions_' : sessions_'[i] = sessions_[i]
    /\ removed' \in SUBSET Objects
    /\ Stored' \subseteq Stored
    /\ removed' \subseteq Stored \cup removed
    /\ Stored' \cap removed' = {}
    /\ Cardinality(DOMAIN sessions_') <= Capacity

\* Any set of entries is finite, and no larger than one it is part of.
LEMMA EntriesFinite ==
    ASSUME NEW S \in SUBSET Ids, NEW T \in SUBSET S
    PROVE  /\ IsFiniteSet(S) /\ Cardinality(S) \in Nat /\ Cardinality(T) \in Nat
           /\ Cardinality(T) <= Cardinality(S)
<1>1. IsFiniteSet(S) /\ IsFiniteSet(T)
  BY IdsAssumption, FS_Subset
<1> QED BY <1>1, FS_Subset, FS_CardinalityType

\* A step that leaves the storage alone files nothing.
LEMMA UnchangedShrinks ==
    ASSUME TypeOK, NoResurrection, WithinCapacity, UNCHANGED <<sessions_, removed>>
    PROVE  Shrinks
BY DEF TypeOK, NoResurrection, WithinCapacity, Shrinks, Stored

\* An entry that is erased takes its object out of the storage for good: no object is
\* filed under two ids.
LEMMA EraseShrinks ==
    ASSUME TypeOK, NoResurrection, WithinCapacity, NEW ids, Erase(ids)
    PROVE  Shrinks /\ DOMAIN sessions_' = DOMAIN sessions_ \ ids
<1>1. /\ DOMAIN sessions_' = DOMAIN sessions_ \ ids
      /\ \A i \in DOMAIN sessions_' : sessions_'[i] = sessions_[i]
      /\ sessions_' \in [DOMAIN sessions_' -> Objects]
  BY DEF TypeOK, Erase, Without
<1>2. removed' = removed \cup {sessions_[i] : i \in ids \cap DOMAIN sessions_}
  BY DEF Erase
<1>3. \A i, j \in DOMAIN sessions_ : sessions_[i] = sessions_[j] => i = j
  BY DEF TypeOK
<1>4. Stored' \subseteq Stored
  BY <1>1 DEF Stored
<1>5. removed' \in SUBSET Objects /\ removed' \subseteq Stored \cup removed
  BY <1>2 DEF TypeOK, Stored
<1>6. Stored' \cap removed' = {}
  <2>1. SUFFICES ASSUME NEW i \in DOMAIN sessions_', sessions_'[i] \in removed'
                 PROVE  FALSE
    BY DEF Stored
  <2>2. sessions_[i] \notin removed
    BY <1>1 DEF NoResurrection, Stored
  <2>3. PICK j \in ids \cap DOMAIN sessions_ : sessions_[i] = sessions_[j]
    BY <1>1, <1>2, <2>1, <2>2
  <2> QED BY <1>1, <1>3, <2>3
<1>7. Cardinality(DOMAIN sessions_') <= Capacity
  BY <1>1, EntriesFinite, CapacityAssumption DEF TypeOK, WithinCapacity
<1> QED BY <1>1, <1>4, <1>5, <1>6, <1>7 DEF Shrinks

\* updateExisting files nothing.
LEMMA UpdateShrinks ==
    ASSUME TypeOK, NoResurrection, WithinCapacity, NEW o, UpdateExisting(o)
    PROVE  Shrinks
BY UnchangedShrinks, EraseShrinks DEF UpdateExisting

\* A refusal files nothing.
LEMMA RefusalShrinks ==
    ASSUME TypeOK, NoResurrection, WithinCapacity, NEW o, NEW id, Admit(o, id, FALSE)
    PROVE  Shrinks
<1>1. CASE UNCHANGED <<sessions_, removed>>
  BY <1>1, UnchangedShrinks
<1>2. CASE Erase(Reclaims(id))
  BY <1>2, EraseShrinks
<1>3. Reclaims(id) \subseteq DOMAIN sessions_
  BY DEF Reclaims, ExpiredIds
<1>4. UNCHANGED <<sessions_, removed>> \/ Erase(Reclaims(id))
  BY <1>3 DEF Admit, Erase
<1> QED BY <1>1, <1>2, <1>4

\* An admission files a new object under a free id, within the capacity.
LEMMA AdmissionFiles ==
    ASSUME TypeOK, NoResurrection, WithinCapacity, NEW o \in Objects, NEW id \in Ids,
           Admit(o, id, TRUE), o \notin Stored \cup removed, sid[o] = id
    PROVE  /\ DOMAIN sessions_' \subseteq DOMAIN sessions_ \cup {id}
           /\ sessions_' \in [DOMAIN sessions_' -> Objects]
           /\ id \in DOMAIN sessions_' /\ sessions_'[id] = o
           /\ \A i \in DOMAIN sessions_' \ {id} : sessions_'[i] = sessions_[i]
           /\ removed' \in SUBSET Objects
           /\ Stored' \subseteq Stored \cup {o}
           /\ removed' \subseteq Stored \cup removed
           /\ Stored' \cap removed' = {}
           /\ Cardinality(DOMAIN sessions_') <= Capacity
<1> DEFINE kept == DOMAIN sessions_ \ Reclaims(id)
<1>1. /\ ~Collides(id) /\ HasRoom(Reclaims(id))
      /\ removed' = removed \cup {sessions_[i] : i \in Reclaims(id)}
      /\ sessions_' = [i \in kept \cup {id} |->
                         IF i = id THEN o ELSE Without(sessions_, Reclaims(id))[i]]
  BY DEF Admit, Without
<1>2. /\ Reclaims(id) \subseteq DOMAIN sessions_
      /\ id \notin kept
  BY <1>1 DEF Reclaims, ExpiredIds, Collides
<1>3. /\ DOMAIN sessions_' = kept \cup {id}
      /\ sessions_'[id] = o
      /\ \A i \in kept : sessions_'[i] = sessions_[i]
  BY <1>1, <1>2 DEF Without
<1>4. sessions_' \in [DOMAIN sessions_' -> Objects]
  BY <1>1, <1>2 DEF TypeOK, Without
<1>5. removed' \in SUBSET Objects /\ removed' \subseteq Stored \cup removed
  BY <1>1, <1>2 DEF TypeOK, Stored
<1>6. Stored' \subseteq Stored \cup {o}
  BY <1>3 DEF Stored
<1>7. Stored' \cap removed' = {}
  <2>1. SUFFICES ASSUME NEW i \in kept \cup {id}, sessions_'[i] \in removed'
                 PROVE  FALSE
    BY <1>3 DEF Stored
  <2>2. i \in kept /\ sessions_[i] \in removed'
    BY <1>3, <1>5, <2>1
  <2>3. sessions_[i] \notin removed
    BY <2>2 DEF NoResurrection, Stored
  <2>4. PICK j \in Reclaims(id) : sessions_[i] = sessions_[j]
    BY <1>1, <2>2, <2>3
  <2> QED BY <1>2, <2>2, <2>4 DEF TypeOK
<1>8. Cardinality(DOMAIN sessions_') <= Capacity
  <2>1. IsFiniteSet(kept) /\ Cardinality(kept) \in Nat
    BY EntriesFinite DEF TypeOK
  <2>2. Cardinality(kept \cup {id}) = Cardinality(kept) + 1
    BY <1>2, <2>1, FS_AddElement
  <2>3. Cardinality(kept) < Capacity
    BY <1>1 DEF HasRoom
  <2> QED BY <1>3, <2>1, <2>2, <2>3, CapacityAssumption
<1> QED BY <1>2, <1>3, <1>4, <1>5, <1>6, <1>7, <1>8

-----------------------------------------------------------------------------
(* The invariant is inductive *)

\* The three places before admit.
LEMMA AdmittingPlaces ==
    /\ Admitting = {"admit login", "admit logout", "admit other"}
    /\ \A kind \in Kinds : /\ AdmitPlace(kind) \in Admitting /\ AdmitPlace(kind) # "idle"
                           /\ kind = "login" => AdmitPlace(kind) \in LoggingIn
                           /\ kind # "login" => AdmitPlace(kind) \notin LoggingIn
<1>1. /\ AdmitPlace("login") = "admit login"
      /\ AdmitPlace("logout") = "admit logout"
      /\ AdmitPlace("other") = "admit other"
  BY DEF AdmitPlace
<1> QED BY <1>1 DEF Admitting, Kinds, LoggingIn

\* A step of a handler that has its session: it erases entries at most, and keeps the
\* objects' ids and lifetimes.
LEMMA HandlerKeepsInv ==
    ASSUME Inv, Shrinks, UNCHANGED <<now, sid, expiryTime_, ownerVars, lastUse>>,
           data_' \in [Objects -> Users \cup {None}],
           onlineUsers_' \in SUBSET Users,
           NEW t \in Threads, pc[t] \notin Admitting \cup {"idle"},
           NEW place \in Places \ Admitting, Goto(t, place),
           user' \in [Threads -> Users \cup {None}],
           \A other \in Threads \ {t} : user'[other] = user[other],
           place \in LoggingIn => user'[t] \in Users,
           \/ place = "idle" /\ held' = [held EXCEPT ![t] = None]
           \/ place # "idle" /\ held' = held
    PROVE  Inv'
<1>1. TypeOK
  BY DEF Inv
<1>2. /\ pc' \in [Threads -> Places] /\ pc'[t] = place
      /\ \A other \in Threads \ {t} : pc'[other] = pc[other]
      /\ held' \in [Threads -> Objects \cup {None}]
      /\ held'[t] = IF place = "idle" THEN None ELSE held[t]
      /\ \A other \in Threads \ {t} : held'[other] = held[other]
  BY <1>1 DEF Goto, TypeOK
<1>3. TypeOK'
  BY <1>1, <1>2 DEF TypeOK, Shrinks, ownerVars
<1>4. Working'
  BY <1>2 DEF Inv, Working
<1>5. Private'
  <2>1. SUFFICES ASSUME NEW s \in Threads, pc'[s] \in Admitting
                 PROVE  /\ held'[s] \notin Stored' \cup removed'
                        /\ \A other \in Threads \ {s} : held'[other] # held'[s]
    BY DEF Private
  <2>2. s # t /\ pc[s] \in Admitting /\ held'[s] = held[s]
    BY <1>2, <2>1
  <2>3. held[s] \in Objects
    BY <2>2, AdmittingPlaces DEF Inv, Working
  <2>4. \A other \in Threads \ {s} : held'[other] # held[s]
    BY <1>2, <2>2, <2>3, NoneAssumption DEF Inv, Private, None
  <2> QED BY <2>2, <2>4 DEF Inv, Private, Shrinks
<1>6. Unborn'
  BY <1>2 DEF Inv, Unborn, Shrinks
<1>7. Lifetime' /\ NoResurrection' /\ WithinCapacity'
  BY DEF Inv, Lifetime, NoResurrection, WithinCapacity, Shrinks
<1> QED BY <1>3, <1>4, <1>5, <1>6, <1>7 DEF Inv

\* The clock, the cleanup thread and the destructor: no request moves.
LEMMA OwnerKeepsInv ==
    ASSUME Inv, Shrinks, UNCHANGED <<expiryTime_, objectVars, onlineUsers_, threadVars, lastUse>>,
           now' \in 0..MaxTime, cleaner' \in {"waiting", "sweeping", "joined"},
           manager' \in {"alive", "stopping", "gone"}
    PROVE  Inv'
<1>1. TypeOK' /\ Working'
  BY DEF Inv, TypeOK, Working, Shrinks, objectVars, threadVars
<1>2. Private' /\ Unborn'
  BY DEF Inv, Private, Unborn, Shrinks, objectVars, threadVars
<1>3. Lifetime' /\ NoResurrection' /\ WithinCapacity'
  BY DEF Inv, Lifetime, NoResurrection, WithinCapacity, Shrinks, objectVars
<1> QED BY <1>1, <1>2, <1>3 DEF Inv

\* Login and logout once they have their session.
LEMMA HandlersKeepInv ==
    ASSUME Inv, NEW t \in Threads, SetValues(t) \/ MarkOnline(t) \/ LoggingOut(t)
    PROVE  Inv'
<1>1. TypeOK /\ NoResurrection /\ WithinCapacity /\ Working
  BY DEF Inv
<1>2. UNCHANGED <<sessions_, removed>> => Shrinks
  BY <1>1, UnchangedShrinks
<1>3. CASE WriteUserId(t)
  <2>1. data_' \in [Objects -> Users \cup {None}]
    BY <1>1, <1>3 DEF WriteUserId, At, TypeOK
  <2> QED
    BY <1>1, <1>2, <1>3, <2>1, HandlerKeepsInv, AdmittingPlaces
    DEF WriteUserId, At, Continues, TypeOK, Working, LoggingIn, Places
<1>4. ASSUME NEW place \in LoggingIn \ (Admitting \cup {"online"}),
             NEW next \in LoggingIn \ Admitting, UpdateStorage(t, place, next)
      PROVE  Inv'
  <2>1. Shrinks
    BY <1>1, <1>4, UpdateShrinks DEF UpdateStorage
  <2>2. /\ pc[t] = place /\ pc[t] \notin Admitting \cup {"idle"}
        /\ user[t] \in Users
        /\ next \in Places \ Admitting /\ next # "idle"
    BY <1>1, <1>4 DEF UpdateStorage, At, Working, LoggingIn, Places
  <2> QED
    BY <1>1, <1>4, <2>1, <2>2, HandlerKeepsInv
    DEF UpdateStorage, Continues, TypeOK, objectVars
<1>5. CASE MarkOnline(t)
  <2>1. pc[t] = "online" /\ pc[t] \notin Admitting \cup {"idle"} /\ user[t] \in Users
    BY <1>1, <1>5, AdmittingPlaces DEF MarkOnline, At, Working, LoggingIn
  <2>2. onlineUsers_' \in SUBSET Users
    BY <1>1, <1>5, <2>1 DEF MarkOnline, TypeOK
  <2>3. "idle" \in Places \ Admitting /\ "idle" \notin LoggingIn
    BY AdmittingPlaces DEF Places, LoggingIn
  <2> QED
    BY <1>1, <1>2, <1>5, <2>1, <2>2, <2>3, HandlerKeepsInv DEF MarkOnline, Ends, TypeOK, objectVars
<1>6. CASE ReadUserId(t)
  <2>1. pc[t] \notin Admitting \cup {"idle"} /\ held[t] \in Objects
    BY <1>1, <1>6, AdmittingPlaces DEF ReadUserId, At, Working
  <2>2. CASE Ends(t)
    BY <1>1, <1>2, <1>6, <2>1, <2>2, HandlerKeepsInv, AdmittingPlaces
    DEF ReadUserId, Ends, TypeOK, LoggingIn, Places, objectVars
  <2>3. CASE user' = [user EXCEPT ![t] = data_[held[t]]] /\ Goto(t, "clear") /\ UNCHANGED held
    BY <1>1, <1>2, <1>6, <2>1, <2>3, HandlerKeepsInv, AdmittingPlaces
    DEF ReadUserId, TypeOK, LoggingIn, Places, objectVars
  <2> QED BY <1>6, <2>2, <2>3 DEF ReadUserId
<1>7. CASE Clear(t)
  BY <1>1, <1>2, <1>7, HandlerKeepsInv, AdmittingPlaces
  DEF Clear, At, Continues, TypeOK, LoggingIn, Places
<1>8. CASE DestroySession(t)
  <2>1. Shrinks
    BY <1>1, <1>8, EraseShrinks DEF DestroySession
  <2>2. CASE Continues(t, "offline")
    BY <1>1, <1>8, <2>1, <2>2, HandlerKeepsInv, AdmittingPlaces
    DEF DestroySession, At, Continues, TypeOK, LoggingIn, Places, objectVars
  <2>3. CASE Ends(t)
    BY <1>1, <1>8, <2>1, <2>3, HandlerKeepsInv, AdmittingPlaces
    DEF DestroySession, At, Ends, TypeOK, LoggingIn, Places, objectVars
  <2> QED BY <1>8, <2>2, <2>3 DEF DestroySession
<1>9. CASE MarkOffline(t)
  BY <1>1, <1>2, <1>9, HandlerKeepsInv, AdmittingPlaces
  DEF MarkOffline, At, Ends, TypeOK, LoggingIn, Places, objectVars
<1>10. CASE SetValues(t)
  BY <1>3, <1>4, <1>10, AdmittingPlaces DEF SetValues, LoggingIn
<1> QED BY <1>5, <1>6, <1>7, <1>8, <1>9, <1>10 DEF LoggingOut

\* What Begins does to the requests.
LEMMA BeginsMoves ==
    ASSUME Inv, NEW t \in Threads, NEW kind \in Kinds, NEW o \in Objects,
           NEW u \in Users \cup {None}, kind = "login" => u \in Users, Begins(t, kind, o, u)
    PROVE  /\ pc' \in [Threads -> Places] /\ pc'[t] \notin Admitting
           /\ held' \in [Threads -> Objects \cup {None}]
           /\ user' \in [Threads -> Users \cup {None}]
           /\ held'[t] = IF pc'[t] = "idle" THEN None ELSE o
           /\ pc'[t] \in LoggingIn => user'[t] \in Users
           /\ \A other \in Threads \ {t} : /\ pc'[other] = pc[other]
                                           /\ held'[other] = held[other]
                                           /\ user'[other] = user[other]
<1>1. TypeOK
  BY DEF Inv
<1>2. ASSUME NEW place \in {"idle", "write userId", "read userId"},
             place = "write userId" => kind = "login",
             pc' = [pc EXCEPT ![t] = place],
             held' = [held EXCEPT ![t] = IF place = "idle" THEN None ELSE o],
             NEW v \in {None, u}, place # "idle" => v = u,
             user' = [user EXCEPT ![t] = v]
      PROVE  /\ pc' \in [Threads -> Places] /\ pc'[t] \notin Admitting
             /\ held' \in [Threads -> Objects \cup {None}]
             /\ user' \in [Threads -> Users \cup {None}]
             /\ held'[t] = IF pc'[t] = "idle" THEN None ELSE o
             /\ pc'[t] \in LoggingIn => user'[t] \in Users
             /\ \A other \in Threads \ {t} : /\ pc'[other] = pc[other]
                                             /\ held'[other] = held[other]
                                             /\ user'[other] = user[other]
  <2>1. place \in Places \ Admitting /\ (place \in LoggingIn => place = "write userId")
    BY AdmittingPlaces DEF Places, LoggingIn
  <2> QED BY <1>1, <1>2, <2>1 DEF TypeOK
<1>3. CASE kind = "other"
  BY <1>2, <1>3 DEF Begins, Ends, Goto
<1>4. CASE kind = "login"
  BY <1>2, <1>4 DEF Begins, Goto
<1>5. CASE kind = "logout"
  BY <1>2, <1>5 DEF Begins, Goto
<1> QED BY <1>3, <1>4, <1>5 DEF Kinds

\* A live session is found and refreshed.
LEMMA LoadHitsKeepsInv ==
    ASSUME Inv, NEW t \in Threads, NEW kind \in Kinds, NEW id \in Ids,
           NEW u \in Users \cup {None}, kind = "login" => u \in Users, LoadHits(t, kind, id, u)
    PROVE  Inv'
<1> DEFINE o == sessions_[id]
<1>1. /\ TypeOK /\ id \in DOMAIN sessions_ /\ o \in Objects /\ o \in Stored
      /\ sid[o] = id
  BY DEF LoadHits, Inv, TypeOK, Stored
<1>2. Begins(t, kind, o, u)
  BY DEF LoadHits
<1> HIDE DEF o
<1>3. UNCHANGED <<now, sessions_, sid, data_, onlineUsers_, cleaner, manager, removed>>
  BY DEF LoadHits, objectVars, ownerVars
<1>4. /\ expiryTime_' = [expiryTime_ EXCEPT ![o] = now + MaxAge]
      /\ lastUse' = [lastUse EXCEPT ![o] = now]
  BY DEF LoadHits, Refreshed, o
<1>5. TypeOK'
  BY <1>1, <1>2, <1>3, <1>4, BeginsMoves, AgeAssumption DEF TypeOK
<1>6. Working'
  BY <1>1, <1>2, <1>3, BeginsMoves DEF Inv, Working
<1>7. Private'
  <2>1. SUFFICES ASSUME NEW s \in Threads, pc'[s] \in Admitting
                 PROVE  /\ held'[s] \notin Stored' \cup removed'
                        /\ \A other \in Threads \ {s} : held'[other] # held'[s]
    BY DEF Private
  <2>2. s # t /\ pc[s] \in Admitting /\ held'[s] = held[s]
    BY <1>1, <1>2, <2>1, BeginsMoves
  <2>3. held[s] \in Objects /\ held[s] # o
    <3>1. pc[s] # "idle" /\ held[s] \notin Stored
      BY <2>2, AdmittingPlaces DEF Inv, Private
    <3> QED BY <1>1, <3>1 DEF Inv, Working
  <2>4. \A other \in Threads \ {s} : held'[other] # held[s]
    BY <1>1, <1>2, <2>2, <2>3, BeginsMoves, NoneAssumption DEF Inv, Private, None
  <2> QED BY <1>3, <2>2, <2>4 DEF Inv, Private, Stored
<1>8. Unborn'
  BY <1>1, <1>2, <1>3, BeginsMoves DEF Inv, Unborn, Stored
<1>9. Lifetime'
  BY <1>1, <1>3, <1>4 DEF Inv, Lifetime, TypeOK
<1>10. NoResurrection' /\ WithinCapacity'
  BY <1>3 DEF Inv, NoResurrection, WithinCapacity, Stored
<1> QED BY <1>5, <1>6, <1>7, <1>8, <1>9, <1>10 DEF Inv

\* A new object is constructed: nobody has seen it.
LEMMA LoadMissesKeepsInv ==
    ASSUME Inv, NEW t \in Threads, NEW kind \in Kinds, NEW cookie, NEW o \in Objects,
           NEW id \in Ids, NEW u \in Users \cup {None}, kind = "login" => u \in Users,
           LoadMisses(t, kind, cookie, u, o, id)
    PROVE  Inv'
<1>1. TypeOK /\ sid[o] = None /\ o \notin Stored \cup removed /\ id # None
  BY NoneAssumption DEF LoadMisses, Inv, Unborn, None
<1>2. Shrinks
  BY EraseShrinks DEF LoadMisses, Inv
<1>3. UNCHANGED <<now, data_, onlineUsers_, cleaner, manager>>
  BY DEF LoadMisses, ownerVars
<1>4. /\ sid' = [sid EXCEPT ![o] = id]
      /\ expiryTime_' = [expiryTime_ EXCEPT ![o] = now + MaxAge]
      /\ lastUse' = [lastUse EXCEPT ![o] = now]
      /\ held' = [held EXCEPT ![t] = o]
      /\ user' = [user EXCEPT ![t] = u]
      /\ pc' = [pc EXCEPT ![t] = AdmitPlace(kind)]
  BY DEF LoadMisses, Goto
<1>5. AdmitPlace(kind) \in Places /\ AdmitPlace(kind) # "idle"
  BY AdmittingPlaces DEF Places
<1>6. \A other \in Threads : held[other] # o
  BY <1>1, NoneAssumption DEF Inv, Working, Unborn, None
<1>7. \A i \in DOMAIN sessions_' : sessions_'[i] # o
  BY <1>1, <1>2 DEF Shrinks, Stored
<1>8. TypeOK'
  BY <1>1, <1>2, <1>3, <1>4, <1>5, <1>7, AgeAssumption DEF TypeOK, Shrinks
<1>9. Working'
  <2>1. pc'[t] \in LoggingIn => user'[t] \in Users
    <3>1. pc'[t] = AdmitPlace(kind) /\ user'[t] = u
      BY <1>1, <1>4 DEF TypeOK
    <3>2. kind # "login" => AdmitPlace(kind) \notin LoggingIn
      BY AdmittingPlaces
    <3> QED BY <3>1, <3>2
  <2>2. \A s \in Threads : sid[held[s]] \in Ids => held[s] # o
    BY <1>6
  <2> QED BY <1>1, <1>4, <1>5, <2>1, <2>2 DEF Inv, Working, TypeOK
<1>10. Private'
  BY <1>1, <1>2, <1>4, <1>6 DEF Inv, Private, TypeOK, Shrinks
<1>11. Unborn'
  BY <1>1, <1>2, <1>4, <1>5 DEF Inv, Unborn, TypeOK, Shrinks
<1>12. Lifetime'
  BY <1>1, <1>4 DEF Inv, Lifetime, TypeOK
<1>13. NoResurrection' /\ WithinCapacity'
  BY <1>2 DEF NoResurrection, WithinCapacity, Shrinks
<1> QED BY <1>8, <1>9, <1>10, <1>11, <1>12, <1>13 DEF Inv

\* The new object enters the storage.
LEMMA AdmittedKeepsInv ==
    ASSUME Inv, NEW t \in Threads, NEW kind \in Kinds, Admitted(t, kind)
    PROVE  Inv'
<1> DEFINE o == held[t]
<1>1. pc[t] \in Admitting /\ pc[t] # "idle" /\ (kind = "login" => pc[t] \in LoggingIn)
  <2>1. pc[t] = AdmitPlace(kind)
    BY DEF Admitted, At
  <2>2. /\ AdmitPlace(kind) \in Admitting /\ AdmitPlace(kind) # "idle"
        /\ kind = "login" => AdmitPlace(kind) \in LoggingIn
    BY AdmittingPlaces
  <2> QED BY <2>1, <2>2
<1>2. /\ TypeOK /\ o \in Objects /\ sid[o] \in Ids /\ user[t] \in Users \cup {None}
      /\ kind = "login" => user[t] \in Users
      /\ o \notin Stored \cup removed
      /\ \A other \in Threads \ {t} : held[other] # o
  BY <1>1 DEF Inv, Working, Private, TypeOK
<1>3. Begins(t, kind, o, user[t]) /\ Admit(o, sid[o], TRUE)
  BY DEF Admitted
<1> HIDE DEF o
<1>4. UNCHANGED <<now, sid, data_, expiryTime_, onlineUsers_, cleaner, manager, lastUse>>
  BY DEF Admitted, objectVars, ownerVars
<1>5. /\ DOMAIN sessions_' \subseteq DOMAIN sessions_ \cup {sid[o]}
      /\ sessions_' \in [DOMAIN sessions_' -> Objects]
      /\ sid[o] \in DOMAIN sessions_' /\ sessions_'[sid[o]] = o
      /\ \A i \in DOMAIN sessions_' \ {sid[o]} : sessions_'[i] = sessions_[i]
      /\ removed' \in SUBSET Objects
      /\ Stored' \subseteq Stored \cup {o}
      /\ removed' \subseteq Stored \cup removed
      /\ Stored' \cap removed' = {}
      /\ Cardinality(DOMAIN sessions_') <= Capacity
  BY <1>2, <1>3, AdmissionFiles DEF Inv
<1>6. TypeOK'
  BY <1>2, <1>3, <1>4, <1>5, BeginsMoves DEF TypeOK
<1>7. Working'
  BY <1>2, <1>3, <1>4, BeginsMoves DEF Inv, Working
<1>8. Private'
  <2>1. SUFFICES ASSUME NEW s \in Threads, pc'[s] \in Admitting
                 PROVE  /\ held'[s] \notin Stored' \cup removed'
                        /\ \A other \in Threads \ {s} : held'[other] # held'[s]
    BY DEF Private
  <2>2. s # t /\ pc[s] \in Admitting /\ held'[s] = held[s] /\ held[s] # o
    BY <1>2, <1>3, <2>1, BeginsMoves
  <2>3. held[s] \in Objects
    BY <2>2, AdmittingPlaces DEF Inv, Working
  <2>4. \A other \in Threads \ {s} : held'[other] # held[s]
    BY <1>2, <1>3, <2>2, <2>3, BeginsMoves, NoneAssumption DEF Inv, Private, None
  <2> QED BY <1>5, <2>2, <2>4 DEF Inv, Private
<1>9. Unborn'
  BY <1>2, <1>3, <1>4, <1>5, BeginsMoves, NoneAssumption DEF Inv, Unborn, None
<1>10. Lifetime' /\ NoResurrection' /\ WithinCapacity'
  BY <1>4, <1>5 DEF Inv, Lifetime, NoResurrection, WithinCapacity
<1> QED BY <1>6, <1>7, <1>8, <1>9, <1>10 DEF Inv

\* A refused object is destroyed: nobody else has seen it.
LEMMA RefusedKeepsInv ==
    ASSUME Inv, NEW t \in Threads, NEW kind \in Kinds, Refused(t, kind)
    PROVE  Inv'
<1> DEFINE o == held[t]
<1>1. pc[t] \in Admitting /\ pc[t] # "idle"
  BY AdmittingPlaces DEF Refused, At
<1>2. /\ TypeOK /\ o \in Objects /\ sid[o] \in Ids
      /\ o \notin Stored \cup removed
      /\ \A other \in Threads \ {t} : held[other] # o
  BY <1>1 DEF Inv, Working, Private, TypeOK
<1>3. sid' = [sid EXCEPT ![o] = None] /\ Admit(o, sid[o], FALSE)
  BY DEF Refused
<1> HIDE DEF o
<1>4. /\ UNCHANGED <<now, expiryTime_, data_, onlineUsers_, cleaner, manager, lastUse>>
      /\ pc' = [pc EXCEPT ![t] = "idle"]
      /\ held' = [held EXCEPT ![t] = None]
      /\ user' = [user EXCEPT ![t] = None]
  BY DEF Refused, Ends, Goto, ownerVars
<1>5. Shrinks
  BY <1>3, RefusalShrinks DEF Inv
<1>6. \A i \in DOMAIN sessions_' : sessions_'[i] # o
  BY <1>2, <1>5 DEF Shrinks, Stored
<1>7. TypeOK'
  BY <1>2, <1>3, <1>4, <1>5, <1>6 DEF TypeOK, Shrinks, Places
<1>8. Working'
  BY <1>2, <1>3, <1>4 DEF Inv, Working, TypeOK, LoggingIn
<1>9. Private'
  <2>1. SUFFICES ASSUME NEW s \in Threads, pc'[s] \in Admitting
                 PROVE  /\ held'[s] \notin Stored' \cup removed'
                        /\ \A other \in Threads \ {s} : held'[other] # held'[s]
    BY DEF Private
  <2>2. s # t /\ pc[s] \in Admitting /\ held'[s] = held[s]
    <3>1. "idle" \notin Admitting
      BY AdmittingPlaces
    <3> QED BY <1>2, <1>4, <2>1, <3>1 DEF TypeOK
  <2>3. held[s] \in Objects
    BY <2>2, AdmittingPlaces DEF Inv, Working
  <2>4. \A other \in Threads \ {s} : held'[other] # held[s]
    BY <1>2, <1>4, <2>2, <2>3, NoneAssumption DEF Inv, Private, None, TypeOK
  <2> QED BY <1>5, <2>2, <2>4 DEF Inv, Private, Shrinks
<1>10. Unborn'
  BY <1>2, <1>3, <1>4, <1>5 DEF Inv, Unborn, TypeOK, Shrinks
<1>11. Lifetime' /\ NoResurrection' /\ WithinCapacity'
  BY <1>2, <1>3, <1>4, <1>5 DEF Inv, Lifetime, NoResurrection, WithinCapacity, TypeOK, Shrinks
<1> QED BY <1>7, <1>8, <1>9, <1>10, <1>11 DEF Inv

\* The clock, the cleanup thread and the destructor.
LEMMA OwnersKeepInv ==
    ASSUME Inv, Tick \/ Cleaning \/ ManagerStops \/ ManagerEnds
    PROVE  Inv'
<1>1. TypeOK /\ NoResurrection /\ WithinCapacity
  BY DEF Inv
<1>2. UNCHANGED <<sessions_, removed>> => Shrinks
  BY <1>1, UnchangedShrinks
<1>3. CASE Tick
  BY <1>1, <1>2, <1>3, OwnerKeepsInv, AgeAssumption DEF Tick, TypeOK, ownerVars
<1>4. CASE SweepStarts \/ CleanerExits \/ ManagerStops
  BY <1>1, <1>2, <1>4, OwnerKeepsInv DEF SweepStarts, CleanerExits, ManagerStops, TypeOK
<1>5. CASE Sweep
  BY <1>1, <1>5, EraseShrinks, OwnerKeepsInv DEF Sweep, TypeOK
<1>6. CASE ManagerEnds
  BY <1>1, <1>6, EraseShrinks, OwnerKeepsInv DEF ManagerEnds, TypeOK
<1> QED BY <1>3, <1>4, <1>5, <1>6 DEF Cleaning

\* Every step preserves the invariant.
LEMMA InvStep == Inv /\ [Next]_vars => Inv'
<1> SUFFICES ASSUME Inv, [Next]_vars PROVE Inv'
  OBVIOUS
<1>1. CASE UNCHANGED vars
  BY <1>1, UnchangedShrinks, OwnerKeepsInv
  DEF vars, objectVars, threadVars, ownerVars, Inv, TypeOK
<1>2. ASSUME NEW t \in Threads, Requesting(t)
      PROVE  Inv'
  BY <1>2, LoadHitsKeepsInv, LoadMissesKeepsInv, AdmittedKeepsInv, RefusedKeepsInv
  DEF Requesting
<1> QED BY <1>1, <1>2, HandlersKeepInv, OwnersKeepInv DEF Next, Handling

\* At the start the storage is empty and no object exists.
LEMMA InvInit == Init => Inv
<1> SUFFICES ASSUME Init PROVE Inv
  OBVIOUS
<1>1. DOMAIN sessions_ = {} /\ Stored = {} /\ Cardinality(DOMAIN sessions_) = 0
  BY FS_EmptySet DEF Init, Stored
<1>2. TypeOK
  BY <1>1, AgeAssumption DEF Init, TypeOK, Places
<1>3. Working /\ Private /\ Unborn /\ Lifetime
  BY <1>1, AdmittingPlaces DEF Init, Working, Private, Unborn, Lifetime, LoggingIn
<1> QED BY <1>1, <1>2, <1>3, CapacityAssumption DEF Inv, NoResurrection, WithinCapacity

-----------------------------------------------------------------------------
(* What a step may do to the storage *)

\* Erasing expired entries only drops sessions nobody has obtained for MaxAge.
LEMMA ErasesIdle ==
    ASSUME Inv, NEW ids \in SUBSET ExpiredIds,
           DOMAIN sessions_ \ ids \subseteq DOMAIN sessions_',
           \A i \in DOMAIN sessions_ \ ids : sessions_'[i] = sessions_[i],
           NEW o \in Stored, o \notin Stored'
    PROVE  now >= lastUse[o] + MaxAge
<1>1. PICK i \in DOMAIN sessions_ : sessions_[i] = o
  BY DEF Stored
<1>2. i \in ids
  BY <1>1 DEF Stored
<1>3. now >= expiryTime_[o]
  BY <1>1, <1>2 DEF ExpiredIds, Expired
<1>4. o \in Objects /\ sid[o] # None
  BY <1>1, NoneAssumption DEF Inv, TypeOK, None
<1> QED BY <1>3, <1>4 DEF Inv, Lifetime

\* A step drops a session only if it has expired, if a logout destroys it, or with the
\* manager.
LEMMA EvictsStep ==
    ASSUME Inv, [Next]_vars, NEW o \in Stored
    PROVE  \/ o \in Stored'
           \/ now >= lastUse[o] + MaxAge
           \/ Destroying(o)
           \/ manager' = "gone"
<1> SUFFICES ASSUME o \notin Stored'
             PROVE  now >= lastUse[o] + MaxAge \/ Destroying(o) \/ manager' = "gone"
  OBVIOUS
<1>1. PICK i \in DOMAIN sessions_ : sessions_[i] = o
  BY DEF Stored
<1>2. sid[o] = i /\ i \in Ids
  BY <1>1 DEF Inv, TypeOK
<1>3. sessions_' # sessions_
  BY DEF Stored
<1>4. ASSUME NEW ids, ids \cap DOMAIN sessions_ \subseteq ExpiredIds, Erase(ids)
      PROVE  now >= lastUse[o] + MaxAge
  <2>1. DOMAIN sessions_' = DOMAIN sessions_ \ (ids \cap DOMAIN sessions_)
    BY <1>4 DEF Erase, Without
  <2>2. \A j \in DOMAIN sessions_' : sessions_'[j] = sessions_[j]
    BY <1>4 DEF Erase, Without
  <2> QED BY <1>4, <2>1, <2>2, ErasesIdle
<1>5. ASSUME NEW t \in Threads, Requesting(t)
      PROVE  now >= lastUse[o] + MaxAge
  <2>1. ASSUME NEW kind \in Kinds, NEW cookie \in Ids \cup {None}, NEW u, NEW x, NEW id,
               LoadMisses(t, kind, cookie, u, x, id)
        PROVE  now >= lastUse[o] + MaxAge
    <3>1. {cookie} \cap DOMAIN sessions_ \subseteq ExpiredIds
      BY <2>1, NoneAssumption DEF LoadMisses, Inv, TypeOK, None
    <3> QED BY <1>4, <2>1, <3>1 DEF LoadMisses
  <2>2. ASSUME NEW x \in Objects, NEW id \in Ids, NEW admitted \in BOOLEAN,
               Admit(x, id, admitted)
        PROVE  now >= lastUse[o] + MaxAge
    <3>1. ~Collides(id) /\ Reclaims(id) \subseteq ExpiredIds
      BY <1>3, <2>2 DEF Admit, Reclaims
    <3>2. id \notin DOMAIN sessions_ \ Reclaims(id)
      BY <3>1 DEF Collides, Reclaims
    <3>3. /\ DOMAIN sessions_ \ Reclaims(id) \subseteq DOMAIN sessions_'
          /\ \A j \in DOMAIN sessions_ \ Reclaims(id) : sessions_'[j] = sessions_[j]
      <4>1. CASE admitted
        BY <2>2, <3>1, <3>2, <4>1 DEF Admit, Without
      <4>2. CASE ~admitted
        BY <2>2, <3>1, <4>2 DEF Admit, Without
      <4> QED BY <4>1, <4>2
    <3> QED BY <3>1, <3>3, ErasesIdle
  <2>3. ASSUME NEW kind \in Kinds, Admitted(t, kind) \/ Refused(t, kind)
        PROVE  now >= lastUse[o] + MaxAge
    <3>1. held[t] \in Objects /\ sid[held[t]] \in Ids
      <4>1. pc[t] = AdmitPlace(kind) /\ AdmitPlace(kind) # "idle"
        BY <2>3, AdmittingPlaces DEF Admitted, Refused, At
      <4> QED BY <4>1 DEF Inv, Working
    <3> QED BY <2>2, <2>3, <3>1 DEF Admitted, Refused
  <2>4. ASSUME NEW kind \in Kinds, NEW id, NEW u, LoadHits(t, kind, id, u)
        PROVE  FALSE
    BY <1>3, <2>4 DEF LoadHits
  <2> QED BY <1>5, <2>1, <2>3, <2>4 DEF Requesting
<1>6. ASSUME NEW t \in Threads, SetValues(t)
      PROVE  now >= lastUse[o] + MaxAge
  <2>1. PICK x : UpdateExisting(x)
    BY <1>3, <1>6 DEF SetValues, WriteUserId, UpdateStorage
  <2>2. x \in Stored /\ Expired(x) /\ Erase({sid[x]})
    BY <1>3, <2>1 DEF UpdateExisting
  <2>3. {sid[x]} \cap DOMAIN sessions_ \subseteq ExpiredIds
    <3>1. PICK j \in DOMAIN sessions_ : sessions_[j] = x
      BY <2>2 DEF Stored
    <3> QED BY <2>2, <3>1 DEF Inv, TypeOK, ExpiredIds
  <2> QED BY <1>4, <2>2, <2>3
<1>7. ASSUME NEW t \in Threads, LoggingOut(t)
      PROVE  Destroying(o)
  <2>1. DestroySession(t)
    BY <1>3, <1>7 DEF LoggingOut, ReadUserId, Clear, MarkOffline
  <2>2. At(t, "destroy") /\ sessions_' = Without(sessions_, {sid[held[t]]})
    BY <2>1 DEF DestroySession, Erase
  <2>3. sid[held[t]] = i
    <3> SUFFICES ASSUME sid[held[t]] # i PROVE FALSE
      OBVIOUS
    <3>1. i \in DOMAIN sessions_' /\ sessions_'[i] = o
      BY <1>1, <2>2 DEF Without
    <3> QED BY <3>1 DEF Stored
  <2> QED BY <1>2, <2>2, <2>3 DEF Destroying
<1>8. ASSUME Cleaning
      PROVE  now >= lastUse[o] + MaxAge
  <2>1. Erase(ExpiredIds)
    BY <1>3, <1>8 DEF Cleaning, SweepStarts, Sweep, CleanerExits, Swept
  <2> QED BY <1>4, <2>1
<1>9. CASE Tick \/ ManagerStops \/ UNCHANGED vars
  BY <1>3, <1>9 DEF Tick, ManagerStops, vars
<1>10. ASSUME NEW t \in Threads, MarkOnline(t)
       PROVE  FALSE
  BY <1>3, <1>10 DEF MarkOnline
<1>11. CASE ManagerEnds
  BY <1>11 DEF ManagerEnds
<1> QED BY <1>5, <1>6, <1>7, <1>8, <1>9, <1>10, <1>11 DEF Next, Handling

\* A refusal found the storage full of live sessions, or the id taken.
LEMMA RefusesStep ==
    ASSUME Inv, NEW t \in Threads, NEW kind \in Kinds, Refused(t, kind)
    PROVE  \/ Cardinality(DOMAIN sessions_ \ ExpiredIds) >= Capacity
           \/ Collides(sid[held[t]])
<1> DEFINE id == sid[held[t]]
<1> SUFFICES ASSUME ~Collides(id)
             PROVE  Cardinality(DOMAIN sessions_ \ ExpiredIds) >= Capacity
  OBVIOUS
<1>1. ~HasRoom(Reclaims(id))
  BY DEF Refused, Admit
<1>2. \A S : Cardinality(DOMAIN sessions_ \ S) \in Nat
  BY EntriesFinite DEF Inv, TypeOK
<1>3. Reclaims(id) = ExpiredIds
  <2> DEFINE same == {id} \cap ExpiredIds
  <2>1. Reclaims(id) = IF MakesRoom(same) THEN ExpiredIds ELSE same
    BY DEF Reclaims
  <2> HIDE DEF same
  <2>2. HasRoom(same) <=> ~MakesRoom(same)
    BY <1>2, CapacityAssumption DEF HasRoom, MakesRoom
  <2> QED BY <1>1, <2>1, <2>2
<1> QED BY <1>1, <1>2, <1>3, CapacityAssumption DEF HasRoom

-----------------------------------------------------------------------------
(* Theorems *)

\* The invariant holds in every state.
THEOREM InvCorrect == Spec => []Inv
<1>1. Inv /\ [Next]_vars => Inv'
  BY InvStep
<1> QED BY InvInit, <1>1, PTL DEF Spec

\* Every variable keeps its type, and an entry is filed under its object's id, whatever
\* requests, sweeps and logouts interleave.
THEOREM TypeCorrect == Spec => []TypeOK
<1>1. Inv => TypeOK
  BY DEF Inv
<1> QED BY InvCorrect, <1>1, PTL

\* The capacity is never exceeded, for any capacity and any number of requests between
\* their load and their admission.
THEOREM CapacityCorrect == Spec => []WithinCapacity
<1>1. Inv => WithinCapacity
  BY DEF Inv
<1> QED BY InvCorrect, <1>1, PTL

\* A session that has left the storage, by logout or by expiry, never comes back.
THEOREM ResurrectionCorrect == Spec => []NoResurrection
<1>1. Inv => NoResurrection
  BY DEF Inv
<1> QED BY InvCorrect, <1>1, PTL

\* A session is dropped only when idle for MaxAge, destroyed by a logout, or with the
\* manager.
THEOREM EvictionCorrect == Spec => EvictsOnlyIdle
<1>1. ASSUME Inv, [Next]_vars
      PROVE  [\A o \in Stored : \/ o \in Stored'
                                \/ now >= lastUse[o] + MaxAge
                                \/ Destroying(o)
                                \/ manager' = "gone"]_vars
  BY <1>1, EvictsStep
<1> QED BY InvCorrect, <1>1, PTL DEF Spec, EvictsOnlyIdle

\* A request is refused only while the storage is full of live sessions, or when a live
\* session has the new id.
THEOREM RefusalCorrect == Spec => RefusesOnlyWhenFull
<1>1. ASSUME Inv, [Next]_vars
      PROVE  [\A t \in Threads :
                (\E kind \in Kinds : Refused(t, kind)) =>
                   \/ Cardinality(DOMAIN sessions_ \ ExpiredIds) >= Capacity
                   \/ Collides(sid[held[t]])]_vars
  BY <1>1, RefusesStep
<1> QED BY InvCorrect, <1>1, PTL DEF Spec, RefusesOnlyWhenFull
=============================================================================
