---------------------- MODULE GemmaInferencePoolProofs ----------------------
(***************************************************************************)
(* Proofs about GemmaInferencePool, for any policy, any chats, messages    *)
(* and number of turns: the model answers in exactly the history it was    *)
(* given, no cache is written behind its end, there are never more caches  *)
(* than allowed, and the one that goes is the one idle longest.            *)
(***************************************************************************)
EXTENDS GemmaInferencePool, FiniteSetTheorems, WellFoundedInduction, TLAPS

-----------------------------------------------------------------------------
(* Induction.  A set of numbers that has 0 and each successor has all of   *)
(* them: what the recursive functions of the model need.                   *)

LEMMA LeastNumber ==
    ASSUME NEW T, T \subseteq Nat, T # {}
    PROVE  \E m \in T : \A n \in T : m <= n
<1>1. \E m \in T : \A n \in T : ~(<<n, m>> \in OpToRel(<, Nat))
  BY NatLessThanWellFounded, WFMin
<1>2. ASSUME NEW m \in T, NEW n \in T, ~(<<n, m>> \in OpToRel(<, Nat)) PROVE m <= n
  <2>1. m \in Nat /\ n \in Nat
    OBVIOUS
  <2>2. ~(n < m)
    BY <1>2, <2>1 DEF OpToRel
  <2> QED BY <2>1, <2>2
<1> QED BY <1>1, <1>2

LEMMA InductionOnSet ==
    ASSUME NEW P, 0 \in P, \A n \in Nat : n \in P => n + 1 \in P
    PROVE  Nat \subseteq P
<1> SUFFICES ASSUME NEW n \in Nat, n \notin P PROVE FALSE
  OBVIOUS
<1> DEFINE T == Nat \ P
<1>1. PICK m \in T : \A k \in T : m <= k
  BY LeastNumber
<1>2. m # 0 /\ m - 1 \in Nat
  OBVIOUS
<1>3. m - 1 \in P
  BY <1>1, <1>2
<1> QED BY <1>2, <1>3

Iterates(f, n, a, step) == f[0] = a /\ \A i \in 1..n : f[i] = step[i][f[i - 1]]

\* What step makes of a value i times, from a on, is a function.
LEMMA IterationExists ==
    ASSUME NEW n \in Nat, NEW S, NEW a \in S, NEW step \in [1..n -> [S -> S]]
    PROVE  \E f \in [0..n -> S] : Iterates(f, n, a, step)
<1> DEFINE Upto(m) == \E f \in [0..m -> S] : f[0] = a /\ \A i \in 1..m : f[i] = step[i][f[i - 1]]
           P == {m \in Nat : m <= n => Upto(m)}
<1>1. 0 \in P
  <2> DEFINE f == [i \in 0..0 |-> a]
  <2>1. f \in [0..0 -> S] /\ f[0] = a /\ \A i \in 1..0 : f[i] = step[i][f[i - 1]]
    OBVIOUS
  <2>2. Upto(0)
    BY <2>1
  <2> QED BY <2>2
<1>2. ASSUME NEW m \in Nat, m \in P PROVE m + 1 \in P
  <2> SUFFICES ASSUME m + 1 <= n PROVE Upto(m + 1)
    OBVIOUS
  <2>1. PICK f \in [0..m -> S] : f[0] = a /\ \A i \in 1..m : f[i] = step[i][f[i - 1]]
    BY <1>2
  <2> DEFINE last == step[m + 1][f[m]]
             g == [i \in 0..(m + 1) |-> IF i <= m THEN f[i] ELSE last]
  <2>2. step[m + 1] \in [S -> S] /\ f[m] \in S
    OBVIOUS
  <2>3. last \in S
    BY <2>2
  <2>4. g[m + 1] = last /\ \A i \in 0..m : g[i] = f[i]
    OBVIOUS
  <2> HIDE DEF last
  <2>5. g \in [0..(m + 1) -> S] /\ g[0] = a
    BY <2>1, <2>3
  <2> HIDE DEF g
  <2>6. \A i \in 1..(m + 1) : i = m + 1 \/ (i \in 1..m /\ i \in 0..m /\ i - 1 \in 0..m)
    OBVIOUS
  <2>7. ASSUME NEW i \in 1..(m + 1) PROVE g[i] = step[i][g[i - 1]]
    <3>1. CASE i = m + 1
      <4>1. g[i - 1] = f[m]
        BY <2>4, <3>1
      <4> QED BY <2>4, <3>1, <4>1 DEF last
    <3>2. CASE i # m + 1
      BY <2>1, <2>4, <2>6, <3>2
    <3> QED BY <3>1, <3>2
  <2> QED BY <2>5, <2>7
<1>3. Nat \subseteq P
  <2> HIDE DEF P
  <2> QED BY <1>1, <1>2, InductionOnSet
<1> QED BY <1>3 DEF Iterates

\* Values that each follow from the one before stay in a set they begin in.
LEMMA IterationStays ==
    ASSUME NEW n \in Nat, NEW S, NEW f, f[0] \in S,
           \A i \in 1..n : f[i - 1] \in S => f[i] \in S
    PROVE  f[n] \in S
<1> DEFINE P == {m \in Nat : m <= n => f[m] \in S}
<1>1. 0 \in P
  OBVIOUS
<1>2. ASSUME NEW m \in Nat, m \in P PROVE m + 1 \in P
  <2> SUFFICES ASSUME m + 1 <= n PROVE f[m + 1] \in S
    OBVIOUS
  <2>1. m + 1 \in 1..n /\ (m + 1) - 1 = m /\ f[m] \in S
    BY <1>2
  <2> QED BY <2>1
<1>3. Nat \subseteq P
  <2> HIDE DEF P
  <2> QED BY <1>1, <1>2, InductionOnSet
<1> QED BY <1>3

-----------------------------------------------------------------------------
(* Tokens and histories *)

\* The tokens of a prompt are a number.
LEMMA TokensType ==
    ASSUME NEW texts \in Seq(Message)
    PROVE  Tokens(texts) \in Nat
<1> DEFINE n == Len(texts)
           G(f) == [i \in 0..n |->
                      IF i = 0 THEN 0
                      ELSE f[i - 1] + Size[texts[i]] + (IF i % 2 = 1 THEN Wrap ELSE 0)]
           step == [i \in 1..n |-> [x \in Nat |->
                      x + Size[texts[i]] + (IF i % 2 = 1 THEN Wrap ELSE 0)]]
<1>1. \A i \in 1..n : Size[texts[i]] \in Nat /\ (IF i % 2 = 1 THEN Wrap ELSE 0) \in Nat
  BY PolicyAssumption
<1>2. n \in Nat /\ step \in [1..n -> [Nat -> Nat]]
  BY <1>1
<1>3. PICK f \in [0..n -> Nat] : Iterates(f, n, 0, step)
  <2>1. 0 \in Nat
    OBVIOUS
  <2> HIDE DEF step, n
  <2> QED BY <1>2, <2>1, IterationExists
<1>4. f = G(f)
  <2>1. ASSUME NEW i \in 0..n PROVE f[i] = G(f)[i]
    <3>1. CASE i = 0
      BY <1>3, <3>1 DEF Iterates
    <3>2. CASE i # 0
      <4>1. i \in 1..n /\ f[i - 1] \in Nat
        BY <3>2
      <4> QED BY <1>3, <4>1 DEF Iterates
    <3> QED BY <3>1, <3>2
  <2>2. DOMAIN f = 0..n
    OBVIOUS
  <2> QED BY <2>1, <2>2
<1> DEFINE Sum == CHOOSE h : h = G(h)
<1>5. Sum = G(Sum)
  BY <1>4
<1>6. Tokens(texts) = Sum[n]
  BY DEF Tokens
<1> HIDE DEF Sum
<1>7. Sum[0] \in Nat
  BY <1>2, <1>5
<1>8. ASSUME NEW i \in 1..n, Sum[i - 1] \in Nat PROVE Sum[i] \in Nat
  <2>1. Sum[i] = Sum[i - 1] + Size[texts[i]] + (IF i % 2 = 1 THEN Wrap ELSE 0)
    BY <1>2, <1>5
  <2> QED BY <1>1, <1>8, <2>1
<1>9. Sum[n] \in Nat
  <2>1. \A i \in 1..n : Sum[i - 1] \in Nat => Sum[i] \in Nat
    BY <1>8
  <2> HIDE DEF n
  <2> QED BY <1>2, <1>7, <2>1, IterationStays, Zenon
<1> QED BY <1>6, <1>9

Cell == Message \cup {"partial"}   \* what a position of a KV cache may hold

LEMMA RequestTypes ==
    ASSUME NEW r \in Request
    PROVE  /\ r.key \in Key /\ r.max \in Nat /\ r.incremental \in BOOLEAN
           /\ r.texts \in Seq(Message) /\ Len(r.texts) >= 1
<1>1. r.key \in Key /\ r.max \in 1..MaxTokens /\ r.incremental \in BOOLEAN
  BY DEF Request
<1>2. r.max \in Nat
  BY <1>1, PolicyAssumption
<1>3. r.texts \in Histories \/ r.texts \in [1..1 -> Message]
  BY DEF Request
<1>4. PICK n \in Nat : n >= 1 /\ r.texts \in [1..n -> Message]
  <2>1. CASE r.texts \in Histories
    <3>1. PICK n \in 1..MaxLen : r.texts \in [1..n -> Message]
      BY <2>1 DEF Histories
    <3> QED BY <3>1, PolicyAssumption
  <2>2. CASE r.texts \in [1..1 -> Message]
    <3>1. 1 \in Nat /\ 1 >= 1 /\ r.texts \in [1..1 -> Message]
      BY <2>2
    <3> QED BY <3>1, Zenon
  <2> QED BY <1>3, <2>1, <2>2
<1>5. r.texts \in Seq(Message) /\ Len(r.texts) = n
  BY <1>4
<1> QED BY <1>1, <1>2, <1>4, <1>5

\* What is fed to the engine, and how many tokens it has.
LEMMA FedTypes ==
    ASSUME NEW s, NEW r \in Request
    PROVE  Fed(s, r) \in Seq(Message) /\ Tokens(Fed(s, r)) \in Nat
<1>1. r.texts \in Seq(Message) /\ Len(r.texts) >= 1
  BY RequestTypes
<1>2. Fed(s, r) \in Seq(Message)
  BY <1>1 DEF Fed
<1> QED BY <1>2, TokensType

-----------------------------------------------------------------------------
(* The caches *)

Session ==
    [transcript : Seq(Message), abs_pos : Nat, kv : Seq(Cell), last_used : Nat, access_order : Nat]

\* A finite set of sessions, by key.
Caches(s) == /\ s \in [DOMAIN s -> Session] /\ DOMAIN s \subseteq Key
             /\ IsFiniteSet(DOMAIN s)

\* s keeps some sessions of t, as they are.
Keeps(s, t) == DOMAIN s \subseteq DOMAIN t /\ \A k \in DOMAIN s : s[k] = t[k]

LEMMA WithoutKeeps ==
    ASSUME NEW s, NEW K, Caches(s)
    PROVE  /\ DOMAIN Without(s, K) = DOMAIN s \ K
           /\ Caches(Without(s, K)) /\ Keeps(Without(s, K), s)
           /\ Cardinality(DOMAIN s \ K) <= Cardinality(DOMAIN s)
<1>1. DOMAIN Without(s, K) = DOMAIN s \ K /\ \A k \in DOMAIN s \ K : Without(s, K)[k] = s[k]
  BY DEF Without
<1>2. IsFiniteSet(DOMAIN s \ K) /\ Cardinality(DOMAIN s \ K) <= Cardinality(DOMAIN s)
  BY FS_Subset DEF Caches
<1>3. Without(s, K) \in [DOMAIN s \ K -> Session]
  BY DEF Without, Caches
<1> QED BY <1>1, <1>2, <1>3 DEF Caches, Keeps

\* The loop of evictions does nothing, or takes the session with the least access_order.
LEMMA EvictNone ==
    ASSUME NEW s
    PROVE  Evict(s, 0) = s
<1> DEFINE G(f) == [i \in 0..0 |-> IF i = 0 THEN s ELSE Without(f[i - 1], {Oldest(f[i - 1])})]
           h == [i \in 0..0 |-> s]
           Gone == CHOOSE f : f = G(f)
<1>1. h = G(h)
  OBVIOUS
<1>2. Gone = G(Gone)
  BY <1>1
<1>3. Evict(s, 0) = Gone[0]
  BY DEF Evict
<1> HIDE DEF Gone
<1> QED BY <1>2, <1>3

LEMMA EvictOne ==
    ASSUME NEW s
    PROVE  Evict(s, 1) = Without(s, {Oldest(s)})
<1> DEFINE G(f) == [i \in 0..1 |-> IF i = 0 THEN s ELSE Without(f[i - 1], {Oldest(f[i - 1])})]
           h == [i \in 0..1 |-> IF i = 0 THEN s ELSE Without(s, {Oldest(s)})]
           Gone == CHOOSE f : f = G(f)
<1>1. h = G(h)
  <2>1. h[0] = s
    OBVIOUS
  <2>2. \A i \in 0..1 : h[i] = G(h)[i]
    BY <2>1
  <2> QED BY <2>2
<1>2. Gone = G(Gone)
  BY <1>1
<1>3. Evict(s, 1) = Gone[1]
  BY DEF Evict
<1> HIDE DEF Gone
<1>4. Gone[0] = s
  BY <1>2
<1>5. Gone[1] = Without(Gone[0], {Oldest(Gone[0])})
  BY <1>2
<1> QED BY <1>3, <1>4, <1>5

LEMMA OldestIsLeast ==
    ASSUME NEW s, Caches(s), DOMAIN s # {}
    PROVE  /\ Oldest(s) \in DOMAIN s
           /\ \A j \in DOMAIN s : s[Oldest(s)].access_order <= s[j].access_order
<1> DEFINE T == {s[k].access_order : k \in DOMAIN s}
<1>1. T \subseteq Nat /\ T # {}
  BY DEF Caches, Session
<1>2. PICK m \in T : \A n \in T : m <= n
  BY <1>1, LeastNumber
<1>3. PICK k \in DOMAIN s : s[k].access_order = m
  OBVIOUS
<1>4. \A j \in DOMAIN s : s[k].access_order <= s[j].access_order
  BY <1>2, <1>3
<1> QED BY <1>4 DEF Oldest

\* Room for one more cache: at most one session goes, only from a full pool, and it is
\* the one with the least access_order.
LEMMA MadeRoomKeeps ==
    ASSUME NEW s, NEW r, Caches(s), Cardinality(DOMAIN s) <= max_sessions
    PROVE  /\ Caches(MadeRoom(s, r)) /\ Keeps(MadeRoom(s, r), s)
           /\ r.key \notin DOMAIN MadeRoom(s, r)
           /\ Cardinality(DOMAIN MadeRoom(s, r)) <= max_sessions - 1
           /\ \A k \in DOMAIN s \ (DOMAIN MadeRoom(s, r) \cup {r.key}) :
                /\ Cardinality(DOMAIN s) = max_sessions
                /\ \A j \in DOMAIN MadeRoom(s, r) : s[k].access_order <= s[j].access_order
<1> DEFINE others == Without(s, {r.key})
           size == Cardinality(DOMAIN others)
           excess == size - (max_sessions - 1)
<1>1. /\ DOMAIN others = DOMAIN s \ {r.key} /\ Caches(others) /\ Keeps(others, s)
      /\ size <= Cardinality(DOMAIN s)
  BY WithoutKeeps
<1>2. size \in Nat /\ Cardinality(DOMAIN s) \in Nat /\ max_sessions \in Nat \ {0}
  BY <1>1, FS_CardinalityType, PolicyAssumption DEF Caches
<1>3. MadeRoom(s, r) = Evict(others, IF excess > 0 THEN excess ELSE 0)
  BY DEF MadeRoom
<1> HIDE DEF others
<1>4. CASE size <= max_sessions - 1
  <2>1. MadeRoom(s, r) = others
    BY <1>2, <1>3, <1>4, EvictNone
  <2> QED BY <1>1, <1>4, <2>1
<1>5. CASE size > max_sessions - 1
  <2>1. excess = 1 /\ size = max_sessions /\ Cardinality(DOMAIN s) = max_sessions
    BY <1>1, <1>2, <1>5
  <2>2. MadeRoom(s, r) = Without(others, {Oldest(others)})
    BY <1>3, <2>1, EvictOne
  <2>3. DOMAIN others # {}
    BY <1>2, <2>1, FS_EmptySet
  <2>4. /\ Oldest(others) \in DOMAIN others
        /\ \A j \in DOMAIN others : others[Oldest(others)].access_order <= others[j].access_order
    BY <1>1, <2>3, OldestIsLeast
  <2>5. /\ DOMAIN MadeRoom(s, r) = DOMAIN others \ {Oldest(others)}
        /\ Caches(MadeRoom(s, r)) /\ Keeps(MadeRoom(s, r), others)
    BY <1>1, <2>2, WithoutKeeps
  <2>6. Cardinality(DOMAIN MadeRoom(s, r)) = size - 1
    BY <1>1, <2>4, <2>5, FS_RemoveElement DEF Caches
  <2>7. Keeps(MadeRoom(s, r), s)
    BY <1>1, <2>5 DEF Keeps
  <2>8. ASSUME NEW k \in DOMAIN s \ (DOMAIN MadeRoom(s, r) \cup {r.key}),
               NEW j \in DOMAIN MadeRoom(s, r)
        PROVE  s[k].access_order <= s[j].access_order
    <3>1. k = Oldest(others) /\ j \in DOMAIN others
      BY <1>1, <2>5
    <3> QED BY <1>1, <2>4, <3>1 DEF Keeps
  <2> QED BY <1>1, <1>2, <2>1, <2>5, <2>6, <2>7, <2>8
<1> QED BY <1>2, <1>4, <1>5

-----------------------------------------------------------------------------
(* The inductive invariant *)

Running ==
    [busy : {TRUE}, request : Request, start_pos : Nat, tokens : Nat, context : Seq(Cell)]

\* The sessions no generation is writing to.
Settled == {k \in DOMAIN sessions_ : running.busy => k # running.request.key}

\* A remembered transcript is what the cache encodes; accesses are numbered in the order
\* of time.
SettledOK ==
    /\ \A k \in Settled : LET c == sessions_[k] IN
         /\ c.transcript # <<>> => c.kv = c.transcript
         /\ c.last_used <= clock /\ c.access_order <= access_order_
    /\ \A j, k \in Settled : sessions_[j].access_order <= sessions_[k].access_order =>
         j = k \/ sessions_[j].last_used <= sessions_[k].last_used

TypeInv ==
    /\ Caches(sessions_) /\ access_order_ \in Nat /\ clock \in Nat
    /\ running \in {Idle} \cup Running
    /\ running.busy => running.request.key \in DOMAIN sessions_

Inv == TypeInv /\ SettledOK /\ ContextIsHistory /\ WithinCache

-----------------------------------------------------------------------------
(* Steps between generations *)

LEMMA InitInv == Init => Inv
<1> SUFFICES ASSUME Init PROVE Inv
  OBVIOUS
<1>1. DOMAIN sessions_ = {}
  BY DEF Init, Without
<1>2. IsFiniteSet({}) /\ Cardinality({}) = 0
  BY FS_EmptySet
<1>3. sessions_ \in [{} -> Session]
  BY <1>1 DEF Init, Without
<1>4. ~running.busy /\ running = Idle
  BY DEF Init, Idle
<1>5. TypeInv
  BY <1>1, <1>2, <1>3, <1>4 DEF Init, TypeInv, Caches
<1>6. SettledOK
  BY <1>1 DEF SettledOK, Settled
<1>7. ContextIsHistory /\ WithinCache
  BY <1>1, <1>2, <1>4, PolicyAssumption DEF ContextIsHistory, WithinCache
<1> QED BY <1>5, <1>6, <1>7 DEF Inv

\* Whatever sessions a step drops between generations, those it keeps stay right.
LEMMA DropInv ==
    ASSUME Inv, ~running.busy, UNCHANGED <<clock, running>>,
           Caches(sessions_'), Keeps(sessions_', sessions_),
           access_order_' = access_order_ \/ (access_order_' = 0 /\ DOMAIN sessions_' = {})
    PROVE  Inv'
<1>1. TypeInv'
  BY DEF Inv, TypeInv
<1>2. Settled' \subseteq Settled /\ \A k \in Settled' : sessions_'[k] = sessions_[k]
  BY DEF Settled, Keeps
<1>3. SettledOK'
  <2>1. CASE access_order_' = access_order_
    BY <1>2, <2>1 DEF Inv, SettledOK
  <2>2. CASE DOMAIN sessions_' = {}
    BY <2>2 DEF SettledOK, Settled
  <2> QED BY <2>1, <2>2
<1>4. Cardinality(DOMAIN sessions_') <= Cardinality(DOMAIN sessions_)
  BY FS_Subset DEF Keeps, Inv, TypeInv, Caches
<1>5. Cardinality(DOMAIN sessions_') \in Nat /\ Cardinality(DOMAIN sessions_) \in Nat
  BY FS_CardinalityType DEF Inv, TypeInv, Caches
<1>6. Cardinality(DOMAIN sessions_') <= max_sessions
  BY <1>4, <1>5, PolicyAssumption DEF Inv, WithinCache
<1>7. \A k \in DOMAIN sessions_' : sessions_'[k].abs_pos <= kvLen
  BY DEF Keeps, Inv, WithinCache
<1>8. ContextIsHistory' /\ WithinCache'
  BY <1>6, <1>7 DEF ContextIsHistory, WithinCache
<1> QED BY <1>1, <1>3, <1>8 DEF Inv

LEMMA PrunedKeeps ==
    ASSUME Inv
    PROVE  Caches(Pruned) /\ Keeps(Pruned, sessions_) /\ Cardinality(DOMAIN Pruned) <= max_sessions
<1> DEFINE K == {k \in DOMAIN sessions_ : clock - sessions_[k].last_used >= idle_ttl}
<1>1. Pruned = Without(sessions_, K) /\ Caches(sessions_)
  BY DEF Pruned, Inv, TypeInv
<1> HIDE DEF K
<1>2. /\ DOMAIN Pruned = DOMAIN sessions_ \ K
      /\ Caches(Pruned) /\ Keeps(Pruned, sessions_)
      /\ Cardinality(DOMAIN sessions_ \ K) <= Cardinality(DOMAIN sessions_)
  BY <1>1, WithoutKeeps
<1>3. Cardinality(DOMAIN Pruned) \in Nat /\ Cardinality(DOMAIN sessions_) \in Nat
  BY <1>1, <1>2, FS_CardinalityType DEF Caches
<1> QED BY <1>2, <1>3, PolicyAssumption DEF Inv, WithinCache

LEMMA InitializeInv == Inv /\ Initialize => Inv'
BY DEF Initialize, Inv, TypeInv, SettledOK, Settled, ContextIsHistory, WithinCache

LEMMA ShutdownInv == Inv /\ Shutdown => Inv'
<1> SUFFICES ASSUME Inv, Shutdown PROVE Inv'
  OBVIOUS
<1>1. /\ ~running.busy /\ sessions_' = Without(sessions_, Key) /\ access_order_' = 0
      /\ UNCHANGED <<clock, running>>
  BY DEF Shutdown
<1>2. Caches(sessions_)
  BY DEF Inv, TypeInv
<1>3. DOMAIN sessions_' = DOMAIN sessions_ \ Key /\ Caches(sessions_') /\ Keeps(sessions_', sessions_)
  BY <1>1, <1>2, WithoutKeeps
<1>4. DOMAIN sessions_' = {}
  BY <1>2, <1>3 DEF Caches
<1> QED BY <1>1, <1>3, <1>4, DropInv

LEMMA ClearSessionInv ==
    ASSUME Inv, NEW k \in Key, ClearSession(k)
    PROVE  Inv'
<1>1. /\ ~running.busy /\ sessions_' = Without(sessions_, {k})
      /\ UNCHANGED <<access_order_, clock, running>>
  BY DEF ClearSession
<1>2. Caches(sessions_') /\ Keeps(sessions_', sessions_)
  BY <1>1, WithoutKeeps DEF Inv, TypeInv
<1> QED BY <1>1, <1>2, DropInv

LEMMA RefuseInv == Inv /\ Refuse => Inv'
<1> SUFFICES ASSUME Inv, Refuse PROVE Inv'
  OBVIOUS
<1>1. /\ ~running.busy /\ sessions_' = Pruned /\ UNCHANGED <<access_order_, clock, running>>
  BY DEF Refuse
<1>2. Caches(sessions_') /\ Keeps(sessions_', sessions_)
  BY <1>1, PrunedKeeps
<1> QED BY <1>1, <1>2, DropInv

LEMMA AllocationFailsInv ==
    ASSUME Inv, NEW r \in Request, AllocationFails(r)
    PROVE  Inv'
<1>1. /\ ~running.busy /\ sessions_' = MadeRoom(Pruned, r)
      /\ UNCHANGED <<access_order_, clock, running>>
  BY DEF AllocationFails
<1>2. Caches(Pruned) /\ Keeps(Pruned, sessions_) /\ Cardinality(DOMAIN Pruned) <= max_sessions
  BY PrunedKeeps
<1>3. Caches(sessions_') /\ Keeps(sessions_', Pruned)
  BY <1>1, <1>2, MadeRoomKeeps
<1>4. Keeps(sessions_', sessions_)
  BY <1>2, <1>3 DEF Keeps
<1> QED BY <1>1, <1>3, <1>4, DropInv

LEMMA TickInv == Inv /\ Tick => Inv'
<1> SUFFICES ASSUME Inv, Tick PROVE Inv'
  OBVIOUS
<1>1. clock' = clock + 1 /\ UNCHANGED <<sessions_, access_order_, running>>
  BY DEF Tick
<1>2. TypeInv' /\ ContextIsHistory' /\ WithinCache'
  BY <1>1 DEF Inv, TypeInv, ContextIsHistory, WithinCache
<1>3. Settled' = Settled
  BY <1>1 DEF Settled
<1>4. \A k \in Settled : sessions_[k].last_used \in Nat
  BY DEF Settled, Inv, TypeInv, Caches, Session
<1>5. SettledOK'
  BY <1>1, <1>3, <1>4 DEF Inv, TypeInv, SettledOK
<1> QED BY <1>2, <1>5 DEF Inv

-----------------------------------------------------------------------------
(* Generations *)

\* The caches a generation works with: those left after expiry, or after making room for
\* a new one.
Base(r) == IF Reuse(Pruned, r) THEN Pruned ELSE Fresh(Pruned, r)

LEMMA BaseOK ==
    ASSUME Inv, ~running.busy, NEW r \in Request
    PROVE  /\ Caches(Base(r)) /\ r.key \in DOMAIN Base(r)
           /\ Cardinality(DOMAIN Base(r)) <= max_sessions
           /\ \A k \in DOMAIN Base(r) \ {r.key} : k \in DOMAIN Pruned /\ Base(r)[k] = sessions_[k]
           /\ Reuse(Pruned, r) => r.key \in DOMAIN sessions_ /\ Base(r)[r.key] = sessions_[r.key]
           /\ ~Reuse(Pruned, r) => Base(r)[r.key].kv = <<>> /\ Base(r)[r.key].abs_pos = 0
<1>1. Caches(Pruned) /\ Keeps(Pruned, sessions_) /\ Cardinality(DOMAIN Pruned) <= max_sessions
  BY PrunedKeeps
<1>2. r.key \in Key
  BY RequestTypes
<1>3. CASE Reuse(Pruned, r)
  <2>1. Base(r) = Pruned /\ r.key \in DOMAIN Pruned
    BY <1>3 DEF Base, Reuse
  <2> QED BY <1>1, <1>3, <2>1 DEF Keeps
<1>4. CASE ~Reuse(Pruned, r)
  <2> DEFINE room == MadeRoom(Pruned, r)
             new == [transcript |-> <<>>, abs_pos |-> 0, kv |-> <<>>, last_used |-> 0,
                     access_order |-> 0]
  <2>1. /\ Caches(room) /\ Keeps(room, Pruned) /\ r.key \notin DOMAIN room
        /\ Cardinality(DOMAIN room) <= max_sessions - 1
    BY <1>1, MadeRoomKeeps
  <2>2. Base(r) = [k \in DOMAIN room \cup {r.key} |-> IF k = r.key THEN new ELSE Pruned[k]]
    BY <1>4 DEF Base, Fresh
  <2>3. IsFiniteSet(DOMAIN room \cup {r.key})
        /\ Cardinality(DOMAIN room \cup {r.key}) = Cardinality(DOMAIN room) + 1
    BY <2>1, FS_AddElement DEF Caches
  <2>4. Cardinality(DOMAIN room) \in Nat
    BY <2>1, FS_CardinalityType DEF Caches
  <2>5. new \in Session
    BY DEF Session
  <2> HIDE DEF room, new
  <2>6. DOMAIN Base(r) = DOMAIN room \cup {r.key} /\ Base(r)[r.key] = new
    BY <2>2
  <2>7. \A k \in DOMAIN room : Base(r)[k] = Pruned[k] /\ k \in DOMAIN Pruned /\ Pruned[k] \in Session
    BY <1>1, <2>1, <2>2 DEF Keeps, Caches
  <2>8. Base(r) \in [DOMAIN room \cup {r.key} -> Session]
    BY <2>2, <2>5, <2>7
  <2>9. Caches(Base(r))
    BY <1>2, <2>1, <2>3, <2>6, <2>8 DEF Caches
  <2>10. Cardinality(DOMAIN Base(r)) <= max_sessions
    BY <2>1, <2>3, <2>4, <2>6, PolicyAssumption
  <2>11. Base(r)[r.key].kv = <<>> /\ Base(r)[r.key].abs_pos = 0
    BY <2>6 DEF new
  <2>12. \A k \in DOMAIN Base(r) \ {r.key} : k \in DOMAIN Pruned /\ Base(r)[k] = sessions_[k]
    BY <1>1, <2>6, <2>7 DEF Keeps
  <2> QED BY <1>4, <2>6, <2>9, <2>10, <2>11, <2>12
<1> QED BY <1>3, <1>4

\* A reused cache encodes all of the history but its last message.
LEMMA ContextOK ==
    ASSUME Inv, ~running.busy, NEW r \in Request
    PROVE  /\ Base(r)[r.key].kv \o Fed(Pruned, r) \in Seq(Cell)
           /\ ~r.incremental => Base(r)[r.key].kv \o Fed(Pruned, r) = r.texts
<1> DEFINE c == Base(r)[r.key]
<1>1. r.texts \in Seq(Message) /\ Len(r.texts) >= 1 /\ r.incremental \in BOOLEAN
  BY RequestTypes
<1>2. c \in Session /\ r.key \in DOMAIN Base(r)
  BY BaseOK DEF Caches
<1>3. c.kv \in Seq(Cell)
  BY <1>2 DEF Session
<1>4. Fed(Pruned, r) \in Seq(Message)
  BY FedTypes
<1>5. Fed(Pruned, r) \in Seq(Cell)
  BY <1>4 DEF Cell
<1>6. c.kv \o Fed(Pruned, r) \in Seq(Cell)
  <2> HIDE DEF c
  <2> QED BY <1>3, <1>5
<1>7. ASSUME ~Reuse(Pruned, r) PROVE c.kv \o Fed(Pruned, r) = r.texts
  <2>1. c.kv = <<>> /\ Fed(Pruned, r) = r.texts
    BY <1>7, BaseOK DEF Fed
  <2> QED BY <1>1, <2>1
<1>8. ASSUME Reuse(Pruned, r), ~r.incremental PROVE c.kv \o Fed(Pruned, r) = r.texts
  <2> DEFINE prior == sessions_[r.key].transcript
  <2>1. r.key \in DOMAIN sessions_ /\ c = sessions_[r.key]
    BY <1>8, BaseOK
  <2>2. Pruned[r.key] = sessions_[r.key]
    BY <1>8, PrunedKeeps DEF Reuse, Keeps
  <2>3. /\ prior # <<>> /\ Len(prior) + 1 = Len(r.texts)
        /\ \A i \in DOMAIN prior : prior[i] = r.texts[i]
    BY <1>8, <2>2 DEF Reuse
  <2>4. c.kv = prior
    BY <2>1, <2>3 DEF Inv, SettledOK, Settled
  <2>5. prior \in Seq(Message)
    BY <1>2, <2>1 DEF Session
  <2>6. Fed(Pruned, r) = <<r.texts[Len(r.texts)]>>
    BY <1>8 DEF Fed
  <2> HIDE DEF prior, c
  <2>7. prior \o <<r.texts[Len(r.texts)]>> = r.texts
    BY <1>1, <2>3, <2>5
  <2> QED BY <2>4, <2>6, <2>7
<1> QED BY <1>6, <1>7, <1>8

\* What a generation is admitted with fits its cache.
LEMMA AdmittedFits ==
    ASSUME NEW start \in Nat, NEW prompt \in Nat, NEW generated \in Nat,
           Fits(start, prompt, generated, kvLen)
    PROVE  start + prompt + generated <= kvLen
BY PolicyAssumption DEF Fits

LEMMA GenerateFacts ==
    ASSUME Inv, NEW r \in Request, Generate(r)
    PROVE  /\ ~running.busy /\ UNCHANGED <<access_order_, clock>>
           /\ Admitted(Pruned, r)
           /\ Reuse(Pruned, r) \/ Fits(0, Tokens(Fed(Pruned, r)), r.max, kvLen)
           /\ sessions_' = [Base(r) EXCEPT ![r.key].kv = Partial]
           /\ running' = [busy |-> TRUE, request |-> r, start_pos |-> Start(Pruned, r),
                          tokens |-> Tokens(Fed(Pruned, r)),
                          context |-> Base(r)[r.key].kv \o Fed(Pruned, r)]
BY DEF Generate, Base

LEMMA GenerateInv ==
    ASSUME Inv, NEW r \in Request, Generate(r)
    PROVE  Inv'
<1> DEFINE b == Base(r)
           start == Start(Pruned, r)
           tokens == Tokens(Fed(Pruned, r))
           ctx == b[r.key].kv \o Fed(Pruned, r)
<1>1. /\ ~running.busy /\ UNCHANGED <<access_order_, clock>>
      /\ Admitted(Pruned, r)
      /\ Reuse(Pruned, r) \/ Fits(0, tokens, r.max, kvLen)
      /\ sessions_' = [b EXCEPT ![r.key].kv = Partial]
      /\ running' = [busy |-> TRUE, request |-> r, start_pos |-> start, tokens |-> tokens,
                     context |-> ctx]
  BY GenerateFacts
<1>2. /\ Caches(b) /\ r.key \in DOMAIN b /\ Cardinality(DOMAIN b) <= max_sessions
      /\ \A k \in DOMAIN b \ {r.key} : k \in DOMAIN Pruned /\ b[k] = sessions_[k]
      /\ Reuse(Pruned, r) => r.key \in DOMAIN sessions_ /\ b[r.key] = sessions_[r.key]
      /\ ~Reuse(Pruned, r) => b[r.key].kv = <<>> /\ b[r.key].abs_pos = 0
  BY <1>1, BaseOK
<1>3. tokens \in Nat /\ r.max \in Nat
  BY FedTypes, RequestTypes
<1>4. Keeps(Pruned, sessions_)
  BY PrunedKeeps
<1>5. start \in Nat /\ b[r.key].abs_pos <= kvLen
  <2>1. CASE Reuse(Pruned, r)
    <3>1. b[r.key] = sessions_[r.key] /\ r.key \in DOMAIN sessions_ /\ start = sessions_[r.key].abs_pos
      BY <1>2, <1>4, <2>1 DEF Start, Reuse, Keeps
    <3>2. sessions_[r.key] \in Session
      BY <3>1 DEF Inv, TypeInv, Caches
    <3> QED BY <3>1, <3>2 DEF Inv, WithinCache, Session
  <2>2. CASE ~Reuse(Pruned, r)
    BY <1>2, <2>2, PolicyAssumption DEF Start
  <2> QED BY <2>1, <2>2
<1>6. Fits(start, tokens, r.max, kvLen)
  BY <1>1 DEF Admitted, Start
<1>7. ctx \in Seq(Cell) /\ (~r.incremental => ctx = r.texts)
  BY <1>1, ContextOK
<1> HIDE DEF b, start, tokens, ctx
<1>8. start + tokens + r.max <= kvLen
  BY <1>3, <1>5, <1>6, AdmittedFits
<1>9. /\ DOMAIN sessions_' = DOMAIN b /\ \A k \in DOMAIN b \ {r.key} : sessions_'[k] = b[k]
      /\ sessions_'[r.key] = [b[r.key] EXCEPT !.kv = Partial]
  BY <1>1, <1>2
<1>10. b[r.key] \in Session
  BY <1>2 DEF Caches
<1>11. Partial \in Seq(Cell)
  BY DEF Partial, Cell
<1>12. sessions_'[r.key] \in Session /\ sessions_'[r.key].abs_pos = b[r.key].abs_pos
  BY <1>9, <1>10, <1>11 DEF Session
<1>13. Caches(sessions_')
  <2>1. \A k \in DOMAIN b : sessions_'[k] \in Session
    BY <1>2, <1>9, <1>12 DEF Caches
  <2>2. sessions_' \in [DOMAIN b -> Session]
    BY <1>1, <1>9, <2>1
  <2> QED BY <1>2, <1>9, <2>2 DEF Caches
<1>14. /\ running'.busy /\ running'.request = r /\ running'.start_pos = start
       /\ running'.tokens = tokens /\ running'.context = ctx
  BY <1>1
<1>15. running' \in Running
  BY <1>1, <1>3, <1>5, <1>7 DEF Running
<1>16. TypeInv'
  BY <1>1, <1>2, <1>9, <1>13, <1>14, <1>15 DEF Inv, TypeInv
<1>17. /\ Settled' \subseteq Settled /\ \A k \in Settled' : sessions_'[k] = sessions_[k]
  <2>1. ASSUME NEW k \in Settled' PROVE k \in Settled /\ sessions_'[k] = sessions_[k]
    <3>1. k \in DOMAIN b \ {r.key}
      BY <1>9, <1>14 DEF Settled
    <3>2. k \in DOMAIN sessions_ /\ b[k] = sessions_[k]
      BY <1>2, <1>4, <3>1 DEF Keeps
    <3> QED BY <1>1, <1>9, <3>1, <3>2 DEF Settled
  <2> QED BY <2>1
<1>18. SettledOK'
  BY <1>1, <1>17 DEF Inv, SettledOK
<1>19. ContextIsHistory'
  BY <1>7, <1>14 DEF ContextIsHistory
<1>20. \A k \in DOMAIN sessions_' : sessions_'[k].abs_pos <= kvLen
  <2>1. ASSUME NEW k \in DOMAIN b \ {r.key} PROVE sessions_'[k].abs_pos <= kvLen
    BY <1>2, <1>4, <1>9 DEF Keeps, Inv, WithinCache
  <2> QED BY <1>5, <1>9, <1>12, <2>1
<1>21. WithinCache'
  BY <1>2, <1>8, <1>9, <1>14, <1>20 DEF WithinCache
<1> QED BY <1>16, <1>18, <1>19, <1>21 DEF Inv

LEMMA FinishInv ==
    ASSUME Inv, NEW answer \in Message, NEW generated \in 0..MaxTokens, Finish(answer, generated)
    PROVE  Inv'
<1> DEFINE r == running.request
           new == [kv |-> running.context \o <<answer>>,
                   abs_pos |-> running.start_pos + running.tokens + generated,
                   transcript |-> IF r.incremental THEN <<>> ELSE r.texts \o <<answer>>,
                   last_used |-> clock,
                   access_order |-> access_order_ + 1]
<1>1. /\ running.busy /\ generated <= r.max /\ access_order_' = access_order_ + 1
      /\ sessions_' = [sessions_ EXCEPT ![r.key] = new]
      /\ running' = Idle /\ UNCHANGED clock
  BY DEF Finish
<1>2. running \in Running /\ r.key \in DOMAIN sessions_
  BY <1>1 DEF Inv, TypeInv, Idle
<1>3. /\ r \in Request /\ running.start_pos \in Nat /\ running.tokens \in Nat
      /\ running.context \in Seq(Cell)
  BY <1>2 DEF Running
<1>4. r.texts \in Seq(Message) /\ r.max \in Nat /\ r.incremental \in BOOLEAN
  BY <1>3, RequestTypes
<1>5. generated \in Nat /\ clock \in Nat /\ access_order_ \in Nat
  BY PolicyAssumption DEF Inv, TypeInv
<1>6. ~r.incremental => running.context = r.texts
  BY <1>1 DEF Inv, ContextIsHistory
<1>7. running.start_pos + running.tokens + r.max <= kvLen
  BY <1>1 DEF Inv, WithinCache
<1>8. /\ new.kv = running.context \o <<answer>>
      /\ new.abs_pos = running.start_pos + running.tokens + generated
      /\ new.transcript = IF r.incremental THEN <<>> ELSE r.texts \o <<answer>>
      /\ new.last_used = clock /\ new.access_order = access_order_ + 1
  OBVIOUS
<1>9. answer \in Cell /\ Message \subseteq Cell
  BY DEF Cell
<1>10. running.context \o <<answer>> \in Seq(Cell) /\ r.texts \o <<answer>> \in Seq(Message)
  BY <1>3, <1>4, <1>9
<1>11. new.transcript \in Seq(Message)
  BY <1>4, <1>8, <1>10
<1>12. new \in Session
  BY <1>3, <1>5, <1>10, <1>11 DEF Session
<1>13. new.abs_pos <= kvLen
  BY <1>1, <1>3, <1>4, <1>5, <1>7, <1>8, PolicyAssumption
<1>14. new.transcript # <<>> => new.kv = new.transcript
  BY <1>4, <1>6, <1>8
<1> HIDE DEF new, r
<1>15. /\ DOMAIN sessions_' = DOMAIN sessions_ /\ sessions_'[r.key] = new
       /\ \A k \in DOMAIN sessions_ \ {r.key} : sessions_'[k] = sessions_[k]
  BY <1>1, <1>2
<1>16. ~running'.busy
  BY <1>1 DEF Idle
<1>17. Caches(sessions_')
  <2>1. sessions_' \in [DOMAIN sessions_ -> Session]
    BY <1>1, <1>12 DEF Inv, TypeInv, Caches
  <2> QED BY <1>15, <2>1 DEF Inv, TypeInv, Caches
<1>18. TypeInv'
  BY <1>1, <1>5, <1>16, <1>17 DEF TypeInv
<1>19. Settled = DOMAIN sessions_ \ {r.key} /\ Settled' = DOMAIN sessions_
  BY <1>1, <1>15, <1>16 DEF Settled, r
<1>20. \A k \in Settled : LET c == sessions_[k] IN
         /\ c.transcript # <<>> => c.kv = c.transcript
         /\ c.last_used \in Nat /\ c.access_order \in Nat
         /\ c.last_used <= clock /\ c.access_order <= access_order_
  BY <1>19 DEF Inv, SettledOK, TypeInv, Caches, Session
<1>21. ASSUME NEW k \in Settled'
       PROVE  LET c == sessions_'[k] IN
              /\ c.transcript # <<>> => c.kv = c.transcript
              /\ c.last_used <= clock /\ c.access_order <= access_order_ + 1
  <2>1. CASE k = r.key
    <3>1. sessions_'[k] = new
      BY <1>15, <2>1
    <3>2. new.last_used <= clock /\ new.access_order <= access_order_ + 1
      BY <1>5, <1>8
    <3> QED BY <1>14, <3>1, <3>2
  <2>2. CASE k # r.key
    BY <1>5, <1>15, <1>19, <1>20, <2>2
  <2> QED BY <2>1, <2>2
<1>22. ASSUME NEW j \in Settled', NEW k \in Settled', j # k,
              sessions_'[j].access_order <= sessions_'[k].access_order
       PROVE  sessions_'[j].last_used <= sessions_'[k].last_used
  <2>1. CASE j = r.key
    <3>1. k \in Settled /\ sessions_'[k] = sessions_[k] /\ sessions_'[j] = new
      BY <1>15, <1>19, <1>22, <2>1
    <3>2. new.access_order <= sessions_[k].access_order
      BY <1>22, <3>1
    <3> QED BY <1>5, <1>8, <1>20, <3>1, <3>2
  <2>2. CASE j # r.key /\ k = r.key
    <3>1. j \in Settled /\ sessions_'[j] = sessions_[j] /\ sessions_'[k] = new
      BY <1>15, <1>19, <2>2
    <3> QED BY <1>8, <1>20, <3>1
  <2>3. CASE j # r.key /\ k # r.key
    BY <1>15, <1>19, <1>22, <2>3 DEF Inv, SettledOK
  <2> QED BY <2>1, <2>2, <2>3
<1>23. SettledOK'
  BY <1>1, <1>21, <1>22 DEF SettledOK
<1>24. \A k \in DOMAIN sessions_' : sessions_'[k].abs_pos <= kvLen
  BY <1>13, <1>15 DEF Inv, WithinCache
<1>25. ContextIsHistory' /\ WithinCache'
  BY <1>15, <1>16, <1>24 DEF Inv, ContextIsHistory, WithinCache
<1> QED BY <1>18, <1>23, <1>25 DEF Inv

LEMMA FailInv == Inv /\ Fail => Inv'
<1> SUFFICES ASSUME Inv, Fail PROVE Inv'
  OBVIOUS
<1> DEFINE key == running.request.key
<1>1. /\ running.busy /\ sessions_' = Without(sessions_, {key}) /\ running' = Idle
      /\ UNCHANGED <<access_order_, clock>>
  BY DEF Fail
<1> HIDE DEF key
<1>2. /\ DOMAIN sessions_' = DOMAIN sessions_ \ {key}
      /\ Caches(sessions_') /\ Keeps(sessions_', sessions_)
      /\ Cardinality(DOMAIN sessions_') <= Cardinality(DOMAIN sessions_)
  BY <1>1, WithoutKeeps DEF Inv, TypeInv
<1>3. ~running'.busy
  BY <1>1 DEF Idle
<1>4. TypeInv'
  BY <1>1, <1>2, <1>3 DEF Inv, TypeInv
<1>5. Settled' \subseteq Settled /\ \A k \in Settled' : sessions_'[k] = sessions_[k]
  BY <1>1, <1>2 DEF Settled, Keeps, key
<1>6. SettledOK'
  BY <1>1, <1>5 DEF Inv, SettledOK
<1>7. Cardinality(DOMAIN sessions_') \in Nat /\ Cardinality(DOMAIN sessions_) \in Nat
  BY <1>2, FS_CardinalityType DEF Inv, TypeInv, Caches
<1>8. Cardinality(DOMAIN sessions_') <= max_sessions
  BY <1>2, <1>7, PolicyAssumption DEF Inv, WithinCache
<1>9. ContextIsHistory' /\ WithinCache'
  BY <1>2, <1>3, <1>8 DEF Keeps, Inv, ContextIsHistory, WithinCache
<1> QED BY <1>4, <1>6, <1>9 DEF Inv

-----------------------------------------------------------------------------
LEMMA NextInv == Inv /\ [Next]_vars => Inv'
<1> SUFFICES ASSUME Inv, [Next]_vars PROVE Inv'
  OBVIOUS
<1>1. CASE UNCHANGED vars
  BY <1>1 DEF vars, Inv, TypeInv, SettledOK, Settled, ContextIsHistory, WithinCache
<1>2. CASE Next
  BY <1>2, InitializeInv, ShutdownInv, TickInv, RefuseInv, FailInv, ClearSessionInv,
     GenerateInv, AllocationFailsInv, FinishInv DEF Next
<1> QED BY <1>1, <1>2

\* The invariant above holds in every reachable state.
THEOREM InvCorrect == Spec => []Inv
<1>1. Init => Inv
  BY InitInv
<1>2. Inv /\ [Next]_vars => Inv'
  BY NextInv
<1> QED BY <1>1, <1>2, PTL DEF Spec

\* generateFromHistory answers in exactly the history it was given: a reused KV cache
\* never holds anything the transcript it was found by does not.
THEOREM ContextCorrect == Spec => []ContextIsHistory
<1>1. Inv => ContextIsHistory
  BY DEF Inv
<1> QED BY <1>1, InvCorrect, PTL

\* The pool never has more caches than max_sessions, and validateBudget keeps every
\* generation inside its cache, after any number of turns.
THEOREM CacheCorrect == Spec => []WithinCache
<1>1. Inv => WithinCache
  BY DEF Inv
<1> QED BY <1>1, InvCorrect, PTL

-----------------------------------------------------------------------------
(* Evictions *)

\* The action of EvictsOldestIdle.
EvictionStep ==
    ~running.busy /\ running'.busy =>
      LET key == running'.request.key IN
      \A k \in DOMAIN Pruned \ (DOMAIN sessions_' \cup {key}) :
         /\ Cardinality(DOMAIN Pruned) = max_sessions
         /\ \A j \in DOMAIN sessions_' \ {key} :
              sessions_[k].last_used <= sessions_[j].last_used

LEMMA GenerateEvicts ==
    ASSUME Inv, NEW r \in Request, Generate(r)
    PROVE  EvictionStep
<1>1. /\ ~running.busy /\ sessions_' = [Base(r) EXCEPT ![r.key].kv = Partial]
      /\ running'.request = r
  BY GenerateFacts
<1>2. Caches(Pruned) /\ Keeps(Pruned, sessions_) /\ Cardinality(DOMAIN Pruned) <= max_sessions
  BY PrunedKeeps
<1>3. DOMAIN sessions_' = DOMAIN Base(r)
  BY <1>1
<1>4. CASE Reuse(Pruned, r)
  <2>1. DOMAIN sessions_' = DOMAIN Pruned
    BY <1>3, <1>4 DEF Base
  <2> QED BY <2>1 DEF EvictionStep
<1>5. CASE ~Reuse(Pruned, r)
  <2> DEFINE room == MadeRoom(Pruned, r)
  <2>1. DOMAIN Base(r) = DOMAIN room \cup {r.key}
    BY <1>5 DEF Base, Fresh
  <2>2. /\ Keeps(room, Pruned)
        /\ \A k \in DOMAIN Pruned \ (DOMAIN room \cup {r.key}) :
             /\ Cardinality(DOMAIN Pruned) = max_sessions
             /\ \A j \in DOMAIN room : Pruned[k].access_order <= Pruned[j].access_order
    BY <1>2, MadeRoomKeeps
  <2> HIDE DEF room
  <2>3. ASSUME NEW k \in DOMAIN Pruned \ (DOMAIN sessions_' \cup {r.key})
        PROVE  /\ Cardinality(DOMAIN Pruned) = max_sessions
               /\ \A j \in DOMAIN sessions_' \ {r.key} :
                    sessions_[k].last_used <= sessions_[j].last_used
    <3>1. k \in DOMAIN Pruned \ (DOMAIN room \cup {r.key})
      BY <1>3, <2>1
    <3>2. Cardinality(DOMAIN Pruned) = max_sessions
      BY <2>2, <3>1
    <3>3. ASSUME NEW j \in DOMAIN sessions_' \ {r.key}
          PROVE  sessions_[k].last_used <= sessions_[j].last_used
      <4>1. j \in DOMAIN room /\ j \in DOMAIN Pruned /\ j # k
        BY <1>3, <2>1, <2>2, <3>1 DEF Keeps
      <4>2. Pruned[k].access_order <= Pruned[j].access_order
        BY <2>2, <3>1, <4>1
      <4>3. Pruned[k] = sessions_[k] /\ Pruned[j] = sessions_[j] /\ j \in Settled /\ k \in Settled
        BY <1>1, <1>2, <3>1, <4>1 DEF Keeps, Settled
      <4> QED BY <4>1, <4>2, <4>3 DEF Inv, SettledOK
    <3> QED BY <3>2, <3>3
  <2> QED BY <1>1, <2>3 DEF EvictionStep
<1> QED BY <1>4, <1>5

LEMMA NextEvicts == Inv /\ [Next]_vars => EvictionStep
<1> SUFFICES ASSUME Inv, [Next]_vars, ~running.busy, running'.busy PROVE EvictionStep
  BY DEF EvictionStep
<1>1. running' # running
  OBVIOUS
<1>2. CASE \E r \in Request : Generate(r)
  BY <1>2, GenerateEvicts
<1>3. CASE ~\E r \in Request : Generate(r)
  BY <1>1, <1>3 DEF Next, vars, Initialize, Shutdown, Tick, Refuse, Fail, ClearSession,
     AllocationFails, Finish
<1> QED BY <1>2, <1>3

\* A live chat loses its cache only to a full pool, and only if no chat that keeps one
\* was used before it.
THEOREM EvictionCorrect == Spec => EvictsOldestIdle
<1>1. Inv /\ [Next]_vars => [EvictionStep]_vars
  BY NextEvicts
<1>2. Spec => [][EvictionStep]_vars
  BY <1>1, InvCorrect, PTL DEF Spec
<1> QED BY <1>2 DEF EvictsOldestIdle, EvictionStep
=============================================================================
